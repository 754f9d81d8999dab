-------------------------- MODULE TenantMemberAuth --------------------------
(***************************************************************************)
(* Authentication of ONE Tenant Member to the management console: login    *)
(* attempts, WebAuthn ceremonies, management credentials, console sessions *)
(* and password recovery                                                   *)
(* (internal/api/tenant_member_webauthn.go, tenant_member_recovery.go and  *)
(* the session middleware of server.go).                                   *)
(*                                                                         *)
(* A handler reads its attempt or its session first, consumes a ceremony   *)
(* in a second statement and writes in a third, a transaction; any other   *)
(* request may run between them.  The transactions are atomic steps here:  *)
(* each of them takes the member's row lock, or inserts a session, whose   *)
(* foreign key takes a share lock on that row.                             *)
(*                                                                         *)
(* Passwords are numbered: 0 is the one chosen at signup, n the one set by *)
(* the n-th reset.  The field `proof' of an attempt is the password that   *)
(* was verified for it (password_verified_at).                             *)
(***************************************************************************)
EXTENDS Integers, FiniteSets

CONSTANTS
  Attempts, Sessions, Ceremonies, Credentials, Proofs,  \* row identities
  Handlers,        \* HTTP requests in flight
  Signup,          \* the session that signup or the invitation created
  MaxCredentials,  \* maxTenantMemberCredentials
  MaxResets,       \* bound: password resets in a behaviour
  Nobody           \* no owner

\* What the constants have to satisfy.
AuthAssumption ==
  /\ MaxCredentials \in Nat \ {0} /\ MaxResets \in Nat
  /\ Signup \in Sessions
  /\ Nobody \notin Attempts \cup Sessions
  /\ Attempts \cap Sessions = {}

VARIABLES member, epoch, attempt, ceremony, credential, session, proof, handler

vars == <<member, epoch, attempt, ceremony, credential, session, proof, handler>>

Passwords == 0 .. MaxResets
NotVerified == -1
Verified == Passwords \cup {NotVerified}
Owners == Attempts \cup Sessions \cup {Nobody}

\* A row that does not exist yet, one that can be used, and one that was
\* consumed, revoked, deleted or has expired: no statement tells these apart.
RowStatus == {"unused", "open", "closed"}

Operations == {"none", "password", "login", "initial", "session", "delete"}

Idle == [pc |-> "idle", op |-> "none", by |-> Nobody, allowed |-> {},
         hash |-> 0, legacy |-> FALSE]

Enrolled == {c \in Credentials : credential[c].status = "open"}
OpenSessions == {s \in Sessions : session[s].status = "open"}

Unused(f, x) == f[x].status = "unused"
Open(f, x) == f[x].status = "open"
Close(f, x) == [f EXCEPT ![x].status = "closed"]
CloseAll(f) ==
  [x \in DOMAIN f |->
     IF f[x].status = "open" THEN [f[x] EXCEPT !.status = "closed"] ELSE f[x]]

----------------------------------------------------------------------------
Init ==
  /\ member \in [password : {0}, legacy : BOOLEAN, status : {"active"}]
  /\ epoch = 0
  /\ attempt = [a \in Attempts |-> [status |-> "unused", proof |-> NotVerified]]
  /\ ceremony = [k \in Ceremonies |->
       [status |-> "unused", type |-> "registration", by |-> Nobody, allowed |-> {}]]
  /\ credential = [c \in Credentials |-> [status |-> "unused"]]
  /\ session = [s \in Sessions |->
       [status |-> IF s = Signup THEN "open" ELSE "unused",
        assurance |-> "bootstrap", by |-> Nobody]]
  /\ proof = [p \in Proofs |-> [status |-> "unused"]]
  /\ handler = [h \in Handlers |-> Idle]

----------------------------------------------------------------------------
(* The login attempt and its password.                                     *)

\* An attempt of a disabled member belongs to nobody and never verifies.
StartLogin(a) ==
  /\ Unused(attempt, a)
  /\ member.status = "active"
  /\ attempt' = [attempt EXCEPT ![a].status = "open"]
  /\ UNCHANGED <<member, epoch, ceremony, credential, session, proof, handler>>

\* resolveTenantMemberLoginAttempt: one SELECT of the attempt and its member.
Resolvable(a) == Open(attempt, a)
ResolvableVerified(a) == Resolvable(a) /\ attempt[a].proof # NotVerified

\* The request carries the password whose hash is read here; with any other
\* one it is refused and changes nothing.
ReadPasswordHash(h, a) ==
  /\ handler[h] = Idle
  /\ Resolvable(a)
  /\ member.status = "active"
  /\ handler' = [handler EXCEPT ![h] =
       [Idle EXCEPT !.pc = "resolved", !.op = "password", !.by = a,
                    !.hash = member.password, !.legacy = member.legacy]]
  /\ UNCHANGED <<member, epoch, attempt, ceremony, credential, session, proof>>

\* password_verified_at is kept when it is set: COALESCE.
MarkVerified(h) ==
  LET a == handler[h].by IN
  /\ handler[h].pc = "resolved" /\ handler[h].op = "password"
  /\ Open(attempt, a)
  /\ attempt' = [attempt EXCEPT ![a].proof =
       IF @ = NotVerified THEN handler[h].hash ELSE @]
  /\ handler' = [handler EXCEPT ![h] =
       IF handler[h].legacy THEN [@ EXCEPT !.pc = "marked"] ELSE Idle]
  /\ UNCHANGED <<member, epoch, ceremony, credential, session, proof>>

\* A hash made with older parameters is replaced by one of the same password,
\* whatever the row holds by now.
Rehash(h) ==
  /\ handler[h].pc = "marked"
  /\ member' = [member EXCEPT !.password = handler[h].hash, !.legacy = FALSE]
  /\ handler' = [handler EXCEPT ![h] = Idle]
  /\ UNCHANGED <<epoch, attempt, ceremony, credential, session, proof>>

----------------------------------------------------------------------------
(* Ceremonies: begun by an attempt or a session, consumed by one request.  *)

\* The middleware consoleSession: an open session of an active member.
Authenticated(s) == Open(session, s) /\ member.status = "active"

\* What a begin handler requires of its attempt or session, by operation.
MayBegin(op, by) ==
  /\ member.status = "active"
  /\ \/ op = "login"   /\ by \in Attempts /\ ResolvableVerified(by) /\ Enrolled # {}
     \/ op = "initial" /\ by \in Attempts /\ ResolvableVerified(by) /\ Enrolled = {}
     \/ op = "session" /\ by \in Sessions /\ Authenticated(by)
                       /\ Cardinality(Enrolled) < MaxCredentials

TypeOf(op) == IF op = "login" THEN "authentication" ELSE "registration"

Begin(op, by, k) ==
  /\ Unused(ceremony, k)
  /\ MayBegin(op, by)
  /\ ceremony' = [ceremony EXCEPT ![k] =
       [status |-> "open", type |-> TypeOf(op), by |-> by,
        allowed |-> IF op = "login" THEN Enrolled ELSE {}]]
  /\ UNCHANGED <<member, epoch, attempt, credential, session, proof, handler>>

\* What a finish (or delete) handler reads before it does anything else.
MayFinish(op, by) ==
  \/ op \in {"login", "initial"} /\ by \in Attempts /\ ResolvableVerified(by)
  \/ op = "session" /\ by \in Sessions /\ Authenticated(by)
  \/ op = "delete"  /\ by \in Sessions /\ Authenticated(by)
                    /\ session[by].assurance = "strong"

Resolve(h, op, by) ==
  /\ handler[h] = Idle
  /\ MayFinish(op, by)
  /\ handler' = [handler EXCEPT ![h] =
       [Idle EXCEPT !.pc = "resolved", !.op = op, !.by = by]]
  /\ UNCHANGED <<member, epoch, attempt, ceremony, credential, session, proof>>

\* The ceremony named by the request is consumed whether or not it turns out
\* to be this caller's; then the member and its credentials are loaded.  The
\* library refuses a login when a credential it allowed is gone.
Matches(h, k) ==
  /\ ceremony[k].by = handler[h].by
  /\ ceremony[k].allowed \subseteq Enrolled
  /\ member.status = "active"

VerifyCeremony(h, k) ==
  /\ handler[h].pc = "resolved" /\ handler[h].op \in {"login", "initial", "session"}
  /\ Open(ceremony, k)
  /\ ceremony[k].type = TypeOf(handler[h].op)
  /\ ceremony' = Close(ceremony, k)
  /\ handler' = [handler EXCEPT ![h] =
       IF Matches(h, k) THEN [@ EXCEPT !.pc = "verified", !.allowed = ceremony[k].allowed]
                        ELSE Idle]
  /\ UNCHANGED <<member, epoch, attempt, credential, session, proof>>

Ready(h, op) == handler[h].pc = "verified" /\ handler[h].op = op

----------------------------------------------------------------------------
(* The transactions that end a ceremony.                                   *)

NewSession(a) == [status |-> "open", assurance |-> "strong", by |-> a]

\* Both ways to log in end the member's bootstrap sessions.
RevokeBootstrap ==
  [s \in Sessions |->
     IF session[s].status = "open" /\ session[s].assurance = "bootstrap"
     THEN [session[s] EXCEPT !.status = "closed"] ELSE session[s]]

\* The attempt is consumed by an UPDATE that must match one row.
ConsumableUnchecked(a) == TRUE
Consumable(a) == Open(attempt, a)

\* completeTenantMemberWebAuthnLogin: the credential and the attempt must each
\* match one row.
CompleteLogin(h, c, s) ==
  LET a == handler[h].by IN
  /\ Ready(h, "login")
  /\ c \in handler[h].allowed \cap Enrolled
  /\ Consumable(a)
  /\ Unused(session, s)
  /\ attempt' = Close(attempt, a)
  /\ session' = [RevokeBootstrap EXCEPT ![s] = NewSession(a)]
  /\ handler' = [handler EXCEPT ![h] = Idle]
  /\ UNCHANGED <<member, epoch, ceremony, credential, proof>>

Enroll(c) == credential' = [credential EXCEPT ![c].status = "open"]

\* persistInitialTenantMemberCredentialAndSession: the attempt is consumed, and
\* the transaction goes on when there was nothing left to consume.
PersistInitial(h, c, s) ==
  LET a == handler[h].by IN
  /\ Ready(h, "initial")
  /\ Enrolled = {}
  /\ Unused(credential, c) /\ Unused(session, s)
  /\ Enroll(c)
  /\ attempt' = Close(attempt, a)
  /\ session' = [RevokeBootstrap EXCEPT ![s] = NewSession(a)]
  /\ handler' = [handler EXCEPT ![h] = Idle]
  /\ UNCHANGED <<member, epoch, ceremony, proof>>

\* The limit is counted again under the member's lock.
BelowLimit == Cardinality(Enrolled) < MaxCredentials

\* persistSessionTenantMemberCredential: the session becomes strong, revoked or
\* not.
PersistSession(h, c) ==
  LET s == handler[h].by IN
  /\ Ready(h, "session")
  /\ BelowLimit
  /\ Unused(credential, c)
  /\ Enroll(c)
  /\ session' = [session EXCEPT ![s].assurance = "strong"]
  /\ handler' = [handler EXCEPT ![h] = Idle]
  /\ UNCHANGED <<member, epoch, attempt, ceremony, proof>>

\* deleteTenantMemberWebAuthnCredential, with the current ETag.
NotTheLast == Cardinality(Enrolled) > 1

DeleteCredential(h, c) ==
  /\ handler[h].pc = "resolved" /\ handler[h].op = "delete"
  /\ c \in Enrolled
  /\ NotTheLast
  /\ credential' = Close(credential, c)
  /\ session' = [s \in Sessions |->
       IF s # handler[h].by /\ Open(session, s)
       THEN [session[s] EXCEPT !.status = "closed"] ELSE session[s]]
  /\ handler' = [handler EXCEPT ![h] = Idle]
  /\ UNCHANGED <<member, epoch, attempt, ceremony, proof>>

\* A request is refused by a later check, fails, or its client goes away.
Abandon(h) ==
  /\ handler[h] # Idle
  /\ handler' = [handler EXCEPT ![h] = Idle]
  /\ UNCHANGED <<member, epoch, attempt, ceremony, credential, session, proof>>

----------------------------------------------------------------------------
(* Ends of sessions, password recovery, the member's status, time.         *)

\* logout, revokeMemberSession, or either expiry.
EndSession(s) ==
  /\ Open(session, s)
  /\ session' = Close(session, s)
  /\ UNCHANGED <<member, epoch, attempt, ceremony, credential, proof, handler>>

\* issueTenantPasswordReset: a new proof revokes the older ones.
IssueReset(p) ==
  /\ Unused(proof, p)
  /\ member.status = "active"
  /\ proof' = [CloseAll(proof) EXCEPT ![p].status = "open"]
  /\ UNCHANGED <<member, epoch, attempt, ceremony, credential, session, handler>>

SessionsKept == session
SessionsAfterReset == CloseAll(session)
CredentialsAfterReset == CloseAll(credential)

ResetPassword(p) ==
  /\ Open(proof, p)
  /\ member.status = "active"
  /\ epoch < MaxResets
  /\ epoch' = epoch + 1
  /\ member' = [member EXCEPT !.password = epoch + 1, !.legacy = FALSE]
  /\ proof' = CloseAll(proof)
  /\ attempt' = CloseAll(attempt)
  /\ session' = SessionsAfterReset
  /\ credential' = CredentialsAfterReset
  /\ UNCHANGED <<ceremony, handler>>

SetStatusDropsCredentials(status) ==
  /\ member' = [member EXCEPT !.status = status]
  /\ session' = IF status = "disabled" THEN CloseAll(session) ELSE session
  /\ credential' = IF status = "disabled" THEN CloseAll(credential) ELSE credential
  /\ UNCHANGED <<epoch, attempt, ceremony, proof, handler>>

\* updateTenantMember with a status; disabling revokes the sessions.
SetStatus(status) ==
  /\ member' = [member EXCEPT !.status = status]
  /\ session' = IF status = "disabled" THEN CloseAll(session) ELSE session
  /\ UNCHANGED <<epoch, attempt, ceremony, credential, proof, handler>>

\* Five minutes for attempts and ceremonies, thirty for proofs.
ExpireAttempt(a) ==
  /\ Open(attempt, a) /\ attempt' = Close(attempt, a)
  /\ UNCHANGED <<member, epoch, ceremony, credential, session, proof, handler>>

ExpireCeremony(k) ==
  /\ Open(ceremony, k) /\ ceremony' = Close(ceremony, k)
  /\ UNCHANGED <<member, epoch, attempt, credential, session, proof, handler>>

ExpireProof(p) ==
  /\ Open(proof, p) /\ proof' = Close(proof, p)
  /\ UNCHANGED <<member, epoch, attempt, ceremony, credential, session, handler>>

----------------------------------------------------------------------------
Request(h) ==
  \/ \E a \in Attempts : ReadPasswordHash(h, a)
  \/ MarkVerified(h)
  \/ Rehash(h)
  \/ \E op \in Operations, by \in Owners : Resolve(h, op, by)
  \/ \E k \in Ceremonies : VerifyCeremony(h, k)
  \/ \E c \in Credentials, s \in Sessions :
       CompleteLogin(h, c, s) \/ PersistInitial(h, c, s)
  \/ \E c \in Credentials : PersistSession(h, c) \/ DeleteCredential(h, c)
  \/ Abandon(h)

Next ==
  \/ \E h \in Handlers : Request(h)
  \/ \E a \in Attempts : StartLogin(a) \/ ExpireAttempt(a)
  \/ \E op \in Operations, by \in Owners, k \in Ceremonies : Begin(op, by, k)
  \/ \E k \in Ceremonies : ExpireCeremony(k)
  \/ \E s \in Sessions : EndSession(s)
  \/ \E p \in Proofs : IssueReset(p) \/ ResetPassword(p) \/ ExpireProof(p)
  \/ \E status \in {"active", "disabled"} : SetStatus(status)

Spec == Init /\ [][Next]_vars

----------------------------------------------------------------------------
(* Properties.                                                             *)

\* Rows and handlers are of their types, and the credentials never exceed
\* maxTenantMemberCredentials, although the limit is checked when a ceremony
\* begins and two ceremonies can be under way (the count is taken again under
\* the member's lock).
TypeOK ==
  /\ member \in [password : Passwords, legacy : BOOLEAN, status : {"active", "disabled"}]
  /\ epoch \in Passwords
  /\ attempt \in [Attempts -> [status : RowStatus, proof : Verified]]
  /\ ceremony \in [Ceremonies -> [status : RowStatus, type : {"authentication", "registration"},
                                  by : Owners, allowed : SUBSET Credentials]]
  /\ credential \in [Credentials -> [status : RowStatus]]
  /\ session \in [Sessions -> [status : RowStatus, assurance : {"bootstrap", "strong"},
                               by : Attempts \cup {Nobody}]]
  /\ proof \in [Proofs -> [status : RowStatus]]
  /\ handler \in [Handlers -> [pc : {"idle", "resolved", "marked", "verified"},
                               op : Operations, by : Owners, allowed : SUBSET Credentials,
                               hash : Passwords, legacy : BOOLEAN]]
  /\ Cardinality(Enrolled) <= MaxCredentials

\* A session that can still be used is strong exactly when the member has a
\* credential: no strong session outlives the credentials it rests on (deletion
\* keeps one, reset ends every session), and a bootstrap session is usable only
\* to enrol the first one, whichever way that one is enrolled.
AssuranceMatchesCredentials ==
  \A s \in OpenSessions : session[s].assurance = "strong" <=> Enrolled # {}

\* One login attempt never has two usable sessions, although the first
\* enrolment does not check that it consumed the attempt.
OneSessionPerAttempt ==
  \A s, t \in OpenSessions :
    session[s].by = session[t].by /\ session[s].by # Nobody => s = t

\* A member who has a credential keeps one until a password reset: two
\* deletions of different credentials cannot both go through, and ending or
\* disabling everything else leaves the credentials alone.
KeepsACredential == Enrolled # {} /\ Enrolled' = {} => epoch' # epoch
LastCredentialKept == [][KeepsACredential]_vars

\* The password a reset set stays the one that verifies; the integration test
\* of recovery expects the old one to be refused from then on.
ResetPasswordInForce == member.password = epoch
=============================================================================
