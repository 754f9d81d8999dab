-------------------------- MODULE ProjectUserLogin --------------------------
(***************************************************************************)
(* The login of one Project User: attempts, factors, WebAuthn ceremonies,  *)
(* enrolment of credentials and the session that completes an attempt      *)
(* (internal/api/login_flow.go, fido_flow.go, the login of biometrics.go), *)
(* against what the tenant does to the user meanwhile (users.go).          *)
(*                                                                         *)
(* No handler but completeLogin and the two insertions of a credential     *)
(* uses a transaction, and none locks a row it only reads, so a handler    *)
(* is a sequence of statements: what it read of its attempt or session at  *)
(* the start is what it acts on at the end.  A ceremony is inserted under  *)
(* a fresh identity, so the insertion is taken together with the reads     *)
(* before it.                                                              *)
(***************************************************************************)
EXTENDS Naturals, FiniteSets

CONSTANTS
  Attempts,     \* login attempts
  Ceremonies,   \* WebAuthn ceremonies
  Credentials,  \* WebAuthn credentials of the user
  Sessions,     \* sessions of the user
  Handlers,     \* requests in flight
  Modes,        \* modes a client may ask for
  None          \* no row

\* What the constants have to satisfy.
LoginAssumption ==
  /\ Modes \subseteq {"passkey", "security_key", "hybrid"}
  /\ None \notin Attempts \cup Ceremonies \cup Credentials \cup Sessions \cup Modes

VARIABLES
  user,        \* status of the Project User
  project,     \* status of the Project
  face,        \* a facial template is enrolled; module Biometrics has how
  attempt, ceremony, credential, session,
  handler      \* what each request in flight has read so far

vars == <<user, project, face, attempt, ceremony, credential, session, handler>>

Idle == [pc |-> "idle", attempt |-> None, verified |-> FALSE, ceremony |-> None,
         mode |-> None, credential |-> None, status |-> None]
NoAttempt == [status |-> "unused", verified |-> FALSE]
NoCeremony == [status |-> "unused", type |-> None, attempt |-> None, mode |-> None]
NoCredential == [status |-> "unused", kind |-> None, ceremony |-> None]
NoSession == [status |-> "unused", attempt |-> None, ceremony |-> None, by |-> None]

Status == {"active", "disabled"}

Init ==
  /\ user = "absent" /\ project = "active" /\ face = FALSE
  /\ attempt = [a \in Attempts |-> NoAttempt]
  /\ ceremony = [c \in Ceremonies |-> NoCeremony]
  /\ credential = [k \in Credentials |-> NoCredential]
  /\ session = [s \in Sessions |-> NoSession]
  /\ handler = [h \in Handlers |-> Idle]

\* Request h goes on to pc, having read what r says.
Go(h, r) == handler' = [handler EXCEPT ![h] = r]
At(h, pc) == handler[h].pc = pc

Present(k) == credential[k].status = "present"
NoneEnrolled == \A k \in Credentials : ~Present(k)

\* resolveUserSession, and the session check of runtimeIntrospect.
Accepted(s) == session[s].status = "live" /\ user = "active" /\ project = "active"

----------------------------------------------------------------------------
(* The attempt and its password.                                           *)

\* An attempt for a user that is not active is stored without one, and
\* resolves for nobody.
StartProjectUserLogin(a) ==
  /\ attempt[a] = NoAttempt
  /\ attempt' = [attempt EXCEPT ![a].status = IF user = "active" THEN "open" ELSE "unbound"]
  /\ UNCHANGED <<user, project, face, ceremony, credential, session, handler>>

Usable(a) == attempt[a].status = "open"

\* resolveLoginAttempt: what the handler knows of its attempt from now on.
ResolveLoginAttempt(h, a) ==
  /\ handler[h] = Idle /\ Usable(a)
  /\ Go(h, [Idle EXCEPT !.pc = "resolved", !.attempt = a, !.verified = attempt[a].verified])
  /\ UNCHANGED <<user, project, face, attempt, ceremony, credential, session>>

\* The hash that is read is that of an active user.
CheckPassword(h) ==
  /\ At(h, "resolved") /\ user = "active"
  /\ Go(h, [handler[h] EXCEPT !.pc = "password_checked"])
  /\ UNCHANGED <<user, project, face, attempt, ceremony, credential, session>>

\* The UPDATE of an attempt that was used or expired meanwhile touches nothing.
VerifyProjectUserLoginPassword(h) ==
  LET a == handler[h].attempt IN
  /\ At(h, "password_checked")
  /\ attempt' = IF Usable(a) THEN [attempt EXCEPT ![a].verified = TRUE] ELSE attempt
  /\ Go(h, Idle)
  /\ UNCHANGED <<user, project, face, ceremony, credential, session>>

----------------------------------------------------------------------------
(* Ceremonies.                                                             *)

FidoMode(mode, enrollment) ==
  mode \in {"passkey", "security_key"} \/ (~enrollment /\ mode = "hybrid")

PasswordFirstForgotten(verified, mode) == TRUE
PasswordFirst(verified, mode) == verified \/ mode = "security_key"

NewCeremony(type, a, mode) == [status |-> "open", type |-> type, attempt |-> a, mode |-> mode]

BeginFidoLogin(c, a, mode) ==
  /\ ceremony[c] = NoCeremony /\ Usable(a)
  /\ FidoMode(mode, FALSE) /\ PasswordFirst(attempt[a].verified, mode)
  /\ project = "active"
  /\ ceremony' = [ceremony EXCEPT ![c] = NewCeremony("authentication", a, mode)]
  /\ UNCHANGED <<user, project, face, attempt, credential, session, handler>>

BeginFirstFidoEnrollment(c, a, mode) ==
  /\ ceremony[c] = NoCeremony /\ Usable(a) /\ attempt[a].verified
  /\ FidoMode(mode, TRUE) /\ NoneEnrolled
  /\ project = "active" /\ user = "active"
  /\ ceremony' = [ceremony EXCEPT ![c] = NewCeremony("registration", a, mode)]
  /\ UNCHANGED <<user, project, face, attempt, credential, session, handler>>

BeginFidoEnrollment(c, s, mode) ==
  /\ ceremony[c] = NoCeremony /\ Accepted(s)
  /\ FidoMode(mode, TRUE)
  /\ ceremony' = [ceremony EXCEPT ![c] = NewCeremony("registration", None, mode)]
  /\ UNCHANGED <<user, project, face, attempt, credential, session, handler>>

\* The statement of consumeFidoCeremony: it consumes what the client names,
\* whether or not the handler then finds that it matches.
Consumable(c, type) == ceremony[c].status = "open" /\ ceremony[c].type = type
ConsumeFidoCeremony(c, type) ==
  /\ Consumable(c, type)
  /\ ceremony' = [ceremony EXCEPT ![c].status = "consumed"]

\* The tests after it: in a login the ceremony is one of the attempt.
CeremonyMatchesAny(h, c) == TRUE
CeremonyMatches(h, c) == ceremony[c].attempt = handler[h].attempt

----------------------------------------------------------------------------
(* Ends of ceremonies.                                                     *)

FinishFidoLogin(h, c) ==
  /\ At(h, "resolved")
  /\ ConsumeFidoCeremony(c, "authentication")
  /\ IF CeremonyMatches(h, c) /\ PasswordFirst(handler[h].verified, ceremony[c].mode)
     THEN Go(h, [handler[h] EXCEPT !.pc = "asserting", !.ceremony = c, !.mode = ceremony[c].mode])
     ELSE Go(h, Idle)
  /\ UNCHANGED <<user, project, face, attempt, credential, session>>

ExpectedKind(mode) == IF mode = "hybrid" THEN "passkey" ELSE mode

\* webAuthnForProject and loadWebUser, with the credential the client used.
LoadAssertion(h, k) ==
  /\ At(h, "asserting") /\ project = "active" /\ user = "active"
  /\ Present(k) /\ credential[k].kind = ExpectedKind(handler[h].mode)
  /\ Go(h, [handler[h] EXCEPT !.pc = "asserted", !.credential = k])
  /\ UNCHANGED <<user, project, face, attempt, ceremony, credential, session>>

\* The UPDATE of the credential's counter must find its row.
UpdateCredential(h) ==
  /\ At(h, "asserted") /\ Present(handler[h].credential)
  /\ Go(h, [handler[h] EXCEPT !.pc = "completing"])
  /\ UNCHANGED <<user, project, face, attempt, ceremony, credential, session>>

FinishFirstFidoEnrollment(h, c) ==
  /\ At(h, "resolved") /\ handler[h].verified
  /\ ConsumeFidoCeremony(c, "registration")
  /\ IF CeremonyMatches(h, c) /\ project = "active" /\ user = "active"
     THEN Go(h, [handler[h] EXCEPT !.pc = "counting", !.ceremony = c, !.mode = ceremony[c].mode])
     ELSE Go(h, Idle)
  /\ UNCHANGED <<user, project, face, attempt, credential, session>>

\* SELECT count(*) inside the transaction; it locks nothing.
CountCredentials(h) ==
  /\ At(h, "counting") /\ NoneEnrolled
  /\ Go(h, [handler[h] EXCEPT !.pc = "inserting"])
  /\ UNCHANGED <<user, project, face, attempt, ceremony, credential, session>>

\* The session was checked at the start; the attempt that began the ceremony,
\* if there was one, is not looked at.
FinishFidoEnrollment(h, s, c) ==
  /\ handler[h] = Idle /\ Accepted(s)
  /\ ConsumeFidoCeremony(c, "registration")
  /\ Go(h, [Idle EXCEPT !.pc = "inserting", !.ceremony = c, !.mode = ceremony[c].mode])
  /\ UNCHANGED <<user, project, face, attempt, credential, session>>

\* The commit of the enrolment; a first one goes on to complete its login.
InsertCredential(h, k) ==
  /\ At(h, "inserting") /\ credential[k] = NoCredential
  /\ credential' = [credential EXCEPT
       ![k] = [status |-> "present", kind |-> handler[h].mode, ceremony |-> handler[h].ceremony]]
  /\ Go(h, IF handler[h].attempt = None THEN Idle ELSE [handler[h] EXCEPT !.pc = "completing"])
  /\ UNCHANGED <<user, project, face, attempt, ceremony, session>>

VerifyBiometricLogin(h) ==
  /\ At(h, "resolved") /\ handler[h].verified /\ face
  /\ Go(h, [handler[h] EXCEPT !.pc = "completing", !.mode = "face"])
  /\ UNCHANGED <<user, project, face, attempt, ceremony, credential, session>>

\* completeLogin: one transaction, which fails unless it consumes the attempt.
MayCompleteAgain(a) == attempt[a].status \in {"open", "consumed"}
MayComplete(a) == Usable(a)

NewSessionUnbound(h) == [status |-> "live", attempt |-> None,
                         ceremony |-> handler[h].ceremony, by |-> handler[h].mode]
NewSession(h) == [status |-> "live", attempt |-> handler[h].attempt,
                  ceremony |-> handler[h].ceremony, by |-> handler[h].mode]

CompleteLogin(h, s) ==
  LET a == handler[h].attempt IN
  /\ At(h, "completing") /\ MayComplete(a) /\ session[s] = NoSession
  /\ attempt' = [attempt EXCEPT ![a].status = "consumed"]
  /\ session' = [session EXCEPT ![s] = NewSession(h)]
  /\ Go(h, Idle)
  /\ UNCHANGED <<user, project, face, ceremony, credential>>

\* A refusal, a failure or a lost connection ends a handler where it is.
Abandon(h) ==
  /\ handler[h] # Idle
  /\ Go(h, Idle)
  /\ UNCHANGED <<user, project, face, attempt, ceremony, credential, session>>

----------------------------------------------------------------------------
(* What the tenant does, and time.                                         *)

RevokeAll == [s \in Sessions |-> IF session[s].status = "live"
                                 THEN [session[s] EXCEPT !.status = "revoked"] ELSE session[s]]

CreateProjectUser ==
  /\ user = "absent"
  /\ user' = "active"
  /\ UNCHANGED <<project, face, attempt, ceremony, credential, session, handler>>

\* updateProjectUser reads the user, then writes every field back: a request
\* that changes something else writes the status it read.
LoadProjectUser(h, status) ==
  /\ handler[h] = Idle /\ user # "absent"
  /\ Go(h, [Idle EXCEPT !.pc = "updating", !.status = IF status = None THEN user ELSE status])
  /\ UNCHANGED <<user, project, face, attempt, ceremony, credential, session>>

UpdateProjectUser(h) ==
  /\ At(h, "updating")
  /\ user' = handler[h].status
  /\ Go(h, IF user' = "disabled" THEN [handler[h] EXCEPT !.pc = "revoking"] ELSE Idle)
  /\ UNCHANGED <<project, face, attempt, ceremony, credential, session>>

RevokeOfDisabled(h) ==
  /\ At(h, "revoking")
  /\ session' = RevokeAll
  /\ Go(h, Idle)
  /\ UNCHANGED <<user, project, face, attempt, ceremony, credential>>

RevokeProjectUserSessions ==
  /\ session' = RevokeAll
  /\ UNCHANGED <<user, project, face, attempt, ceremony, credential, handler>>

\* The attempts that verified the old password are left as they are.
ReplaceProjectUserPassword ==
  /\ user # "absent"
  /\ session' = RevokeAll
  /\ UNCHANGED <<user, project, face, attempt, ceremony, credential, handler>>

RuntimeRevoke(s) ==
  /\ session[s].status = "live"
  /\ session' = [session EXCEPT ![s].status = "revoked"]
  /\ UNCHANGED <<user, project, face, attempt, ceremony, credential, handler>>

DeletePasskey(k) ==
  /\ Present(k)
  /\ credential' = [credential EXCEPT ![k].status = "deleted"]
  /\ UNCHANGED <<user, project, face, attempt, ceremony, session, handler>>

SetProject(status) ==
  /\ project # status
  /\ project' = status
  /\ UNCHANGED <<user, face, attempt, ceremony, credential, session, handler>>

\* enrollBiometric and deleteBiometricEnrollment.
SetFace(s) ==
  /\ Accepted(s)
  /\ face' = ~face
  /\ UNCHANGED <<user, project, attempt, ceremony, credential, session, handler>>

ExpireAttempt(a) ==
  /\ Usable(a)
  /\ attempt' = [attempt EXCEPT ![a].status = "expired"]
  /\ UNCHANGED <<user, project, face, ceremony, credential, session, handler>>

ExpireCeremony(c) ==
  /\ ceremony[c].status = "open"
  /\ ceremony' = [ceremony EXCEPT ![c].status = "expired"]
  /\ UNCHANGED <<user, project, face, attempt, credential, session, handler>>

----------------------------------------------------------------------------
Handle(h) ==
  \/ \E a \in Attempts : ResolveLoginAttempt(h, a)
  \/ CheckPassword(h) \/ VerifyProjectUserLoginPassword(h)
  \/ \E c \in Ceremonies : \/ FinishFidoLogin(h, c) \/ FinishFirstFidoEnrollment(h, c)
                           \/ \E s \in Sessions : FinishFidoEnrollment(h, s, c)
  \/ \E k \in Credentials : LoadAssertion(h, k) \/ InsertCredential(h, k)
  \/ UpdateCredential(h) \/ CountCredentials(h) \/ VerifyBiometricLogin(h)
  \/ \E s \in Sessions : CompleteLogin(h, s)
  \/ \E status \in Status \cup {None} : LoadProjectUser(h, status)
  \/ UpdateProjectUser(h) \/ RevokeOfDisabled(h) \/ Abandon(h)

Begin(c, mode) ==
  \/ \E a \in Attempts : BeginFidoLogin(c, a, mode) \/ BeginFirstFidoEnrollment(c, a, mode)
  \/ \E s \in Sessions : BeginFidoEnrollment(c, s, mode)

Next ==
  \/ \E a \in Attempts : StartProjectUserLogin(a) \/ ExpireAttempt(a)
  \/ \E c \in Ceremonies, mode \in Modes : Begin(c, mode)
  \/ \E c \in Ceremonies : ExpireCeremony(c)
  \/ \E h \in Handlers : Handle(h)
  \/ \E s \in Sessions : RuntimeRevoke(s) \/ SetFace(s)
  \/ \E k \in Credentials : DeletePasskey(k)
  \/ \E status \in Status : SetProject(status)
  \/ CreateProjectUser \/ RevokeProjectUserSessions \/ ReplaceProjectUserPassword

Spec == Init /\ [][Next]_vars

----------------------------------------------------------------------------
(* Properties.                                                             *)

\* Rows and requests are of their types; a session names the attempt it
\* completed (login_flow.go).
TypeOK ==
  /\ user \in Status \cup {"absent"} /\ project \in Status /\ face \in BOOLEAN
  /\ attempt \in [Attempts ->
       [status : {"unused", "unbound", "open", "consumed", "expired"}, verified : BOOLEAN]]
  /\ ceremony \in [Ceremonies -> {NoCeremony} \cup
       [status : {"open", "consumed", "expired"}, type : {"authentication", "registration"},
        attempt : Attempts \cup {None}, mode : Modes]]
  /\ credential \in [Credentials -> {NoCredential} \cup
       [status : {"present", "deleted"}, kind : {"passkey", "security_key"},
        ceremony : Ceremonies]]
  /\ session \in [Sessions -> {NoSession} \cup
       [status : {"live", "revoked"}, attempt : Attempts,
        ceremony : Ceremonies \cup {None}, by : Modes \cup {"face"}]]
  /\ \A h \in Handlers : handler[h].attempt \in Attempts \cup {None}

\* However many requests present the factors of one attempt at the same
\* moment, it gives at most one session (completeLogin).
OneSessionPerAttempt ==
  \A s, t \in Sessions :
    session[s] # NoSession /\ session[s].attempt = session[t].attempt => s = t

\* A session that a FIDO factor completed was completed by a ceremony of its
\* own attempt: the assertion or enrolment of one login never completes another
\* (finishFidoLogin, finishFirstFidoEnrollment).
SessionOfItsCeremony ==
  \A s \in Sessions :
    session[s].ceremony # None => ceremony[session[s].ceremony].attempt = session[s].attempt

\* A session is behind a verified password, unless a security key completed it
\* (mode security_key); and a credential only comes from a ceremony that a
\* verified password or a session began.
SecondFactor ==
  /\ \A s \in Sessions :
       session[s] # NoSession /\ session[s].by # "security_key" => attempt[session[s].attempt].verified
  /\ \A k \in Credentials :
       credential[k] # NoCredential =>
         LET a == ceremony[credential[k].ceremony].attempt
         IN  a # None => attempt[a].verified

\* "every login session requires a verified password plus a passkey, hybrid
\* passkey, attested cross-platform security key, or facial match" (README.md).
PasswordBehindEverySession ==
  \A s \in Sessions : session[s] # NoSession => attempt[session[s].attempt].verified

=============================================================================
