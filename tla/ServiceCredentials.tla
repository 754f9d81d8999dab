------------------------- MODULE ServiceCredentials -------------------------
(***************************************************************************)
(* Service accounts of one Project and the credentials issued for them:    *)
(* standard ones by the console (internal/api/service_accounts.go) and     *)
(* external ones by a holder of external_credentials.manage                *)
(* (internal/api/external_credentials.go), with the middleware that        *)
(* accepts them (serviceCredential in internal/api/server.go).             *)
(*                                                                         *)
(* Issuing is a transaction that locks the row of the account, reads the   *)
(* Project, the subject and the number of active credentials, and inserts  *)
(* in a later statement; changing or deleting an account waits for that    *)
(* lock.  Creating an account locks the row of the Project.  What the      *)
(* middleware read is not read again.  Retries are those of Idempotency.   *)
(***************************************************************************)
EXTENDS Naturals, FiniteSets

CONSTANTS
  Accounts,      \* service accounts
  Credentials,   \* credentials of either kind
  Subjects,      \* OAuth subjects of members, for an integration
  Issuers,       \* issuing requests in flight
  Creators,      \* requests that create an account
  AccountLimit,  \* serviceAccountLimit, 20 in the code
  ActiveLimit,   \* serviceCredentialActiveLimit and externalCredentialActiveLimit, 2
  None           \* no row; the subject of a standard credential

\* What the constants have to satisfy.
ServiceAssumption ==
  /\ AccountLimit \in Nat \ {0} /\ ActiveLimit \in Nat \ {0}
  /\ None \notin Accounts \cup Credentials \cup Subjects

VARIABLES
  project, account, credential,
  member,    \* status of the member behind each subject
  issuer, creator

vars == <<project, account, credential, member, issuer, creator>>

Scopes == {"manage", "api"}
Status == {"active", "disabled"}
NoAccount == [status |-> "unused", scopes |-> {}]
NoCredential == [status |-> "unused", account |-> None, subject |-> None, scopes |-> {}]
Idle == [pc |-> "idle", account |-> None, subject |-> None, scopes |-> {}]

Init ==
  /\ project = "active"
  /\ account = [a \in Accounts |-> NoAccount]
  /\ credential = [c \in Credentials |-> NoCredential]
  /\ member = [s \in Subjects |-> "active"]
  /\ issuer = [h \in Issuers |-> Idle]
  /\ creator = [h \in Creators |-> "idle"]

Exists(a) == account[a].status \in Status
AccountLocked(a) == \E h \in Issuers : issuer[h].pc = "locked" /\ issuer[h].account = a
ProjectLocked == \E h \in Creators : creator[h] = "counted"

\* normalizeServiceAccountScopes: known scopes, at least one.
ScopesValid(scopes) == scopes \subseteq Scopes /\ scopes # {}

----------------------------------------------------------------------------
(* What a credential is good for.                                          *)

\* COALESCE(c.effective_scopes, a.scopes): a standard credential has the
\* scopes its account has now, an external one those it was issued with.
EffectiveScopes(c) ==
  IF credential[c].subject = None THEN account[credential[c].account].scopes
                                  ELSE credential[c].scopes

\* serviceCredential lets a request with this credential through.
Authorized(c, scope) ==
  /\ credential[c].status = "active"
  /\ account[credential[c].account].status = "active"
  /\ project = "active"
  /\ scope \in EffectiveScopes(c)

----------------------------------------------------------------------------
(* Accounts.                                                               *)

CountAccounts(h) ==
  /\ creator[h] = "idle"
  /\ ~ProjectLocked
  /\ project = "active"
  /\ Cardinality({a \in Accounts : Exists(a)}) < AccountLimit
  /\ creator' = [creator EXCEPT ![h] = "counted"]
  /\ UNCHANGED <<project, account, credential, member, issuer>>

CreateServiceAccount(h, a, scopes) ==
  /\ creator[h] = "counted"
  /\ account[a] = NoAccount /\ ScopesValid(scopes)
  /\ account' = [account EXCEPT ![a] = [status |-> "active", scopes |-> scopes]]
  /\ creator' = [creator EXCEPT ![h] = "idle"]
  /\ UNCHANGED <<project, credential, member, issuer>>

AbandonCreate(h) ==
  /\ creator[h] # "idle"
  /\ creator' = [creator EXCEPT ![h] = "idle"]
  /\ UNCHANGED <<project, account, credential, member, issuer>>

\* UPDATE project_service_credentials ... AND status='active', which is also
\* the stored status of an expired credential.
Revoked(C) ==
  [c \in Credentials |-> IF c \in C THEN [credential[c] EXCEPT !.status = "revoked"]
                                    ELSE credential[c]]
OfAccount(a) == {c \in Credentials : credential[c].account = a}

\* FOR UPDATE OF a, under If-Match.
MayChangeUnlocked(a) == Exists(a)
MayChange(a) == Exists(a) /\ ~AccountLocked(a)

UpdateServiceAccount(a, status, scopes) ==
  /\ MayChange(a) /\ ScopesValid(scopes)
  /\ account' = [account EXCEPT ![a] = [status |-> status, scopes |-> scopes]]
  /\ credential' = IF status = "disabled" THEN Revoked(OfAccount(a)) ELSE credential
  /\ UNCHANGED <<project, member, issuer, creator>>

DeleteServiceAccount(a) ==
  /\ MayChange(a)
  /\ account' = [account EXCEPT ![a].status = "deleted"]
  /\ credential' = Revoked(OfAccount(a))
  /\ UNCHANGED <<project, member, issuer, creator>>

----------------------------------------------------------------------------
(* Credentials.                                                            *)

\* createServiceCredential comes from the console.
BeginStandard(h, a) ==
  /\ issuer[h] = Idle
  /\ issuer' = [issuer EXCEPT ![h] = [Idle EXCEPT !.pc = "authorized", !.account = a]]
  /\ UNCHANGED <<project, account, credential, member, creator>>

\* issueExternalCredential comes through serviceCredential with scope manage.
BeginExternal(h, c, s, scopes) ==
  /\ issuer[h] = Idle
  /\ Authorized(c, "manage")
  /\ issuer' = [issuer EXCEPT ![h] = [pc |-> "authorized", account |-> credential[c].account,
                                      subject |-> s, scopes |-> scopes]]
  /\ UNCHANGED <<project, account, credential, member, creator>>

\* externalCredentialScopes: what may be delegated, and what a request that
\* names no scope gets.
Delegable(scopes) == scopes \ {"manage"}
ExternalCredentialScopes(requested, scopes) ==
  IF requested = {} THEN Delegable(scopes) ELSE requested

AccountFree(a) == ~AccountLocked(a)

ActiveFor(a, s) ==
  {c \in OfAccount(a) : credential[c].status = "active" /\ credential[c].subject = s}

\* The reads under the lock.  A rotation also names a credential that must be
\* active; it stays so.
MayIssue(h) ==
  LET a == issuer[h].account s == issuer[h].subject IN
  /\ AccountFree(a)
  /\ account[a].status = "active" /\ project = "active"
  /\ s # None => /\ "manage" \in account[a].scopes
                 /\ member[s] = "active"
                 /\ Delegable(account[a].scopes) # {}
                 /\ issuer[h].scopes \subseteq Delegable(account[a].scopes)
  /\ Cardinality(ActiveFor(a, s)) < ActiveLimit

LockAccount(h) ==
  /\ issuer[h].pc = "authorized" /\ MayIssue(h)
  /\ issuer' = [issuer EXCEPT ![h].pc = "locked",
       ![h].scopes = IF issuer[h].subject = None THEN {}
                     ELSE ExternalCredentialScopes(issuer[h].scopes, account[issuer[h].account].scopes)]
  /\ UNCHANGED <<project, account, credential, member, creator>>

InsertCredential(h, c) ==
  /\ issuer[h].pc = "locked" /\ credential[c] = NoCredential
  /\ credential' = [credential EXCEPT
       ![c] = [status |-> "active", account |-> issuer[h].account,
               subject |-> issuer[h].subject, scopes |-> issuer[h].scopes]]
  /\ issuer' = [issuer EXCEPT ![h] = Idle]
  /\ UNCHANGED <<project, account, member, creator>>

\* completeServiceAccountProblem, or a failure that rolls back.
AbandonIssue(h) ==
  /\ issuer[h] # Idle
  /\ issuer' = [issuer EXCEPT ![h] = Idle]
  /\ UNCHANGED <<project, account, credential, member, creator>>

\* One statement; the account's status does not matter, nor does its lock.
RevokeServiceCredential(c) ==
  /\ credential[c] # NoCredential
  /\ credential' = Revoked({c})
  /\ UNCHANGED <<project, account, member, issuer, creator>>

\* By a manager of the same account, for the subject of the credential.
RevokeExternalCredential(m, c) ==
  /\ Authorized(m, "manage")
  /\ credential[c].subject # None /\ credential[c].account = credential[m].account
  /\ credential' = Revoked({c})
  /\ UNCHANGED <<project, account, member, issuer, creator>>

ExpireCredential(c) ==
  /\ credential[c].status = "active"
  /\ credential' = [credential EXCEPT ![c].status = "expired"]
  /\ UNCHANGED <<project, account, member, issuer, creator>>

\* updateProject, and updateTenantMember or removeTenantMember.
SetProject(status) ==
  /\ project # status /\ ~ProjectLocked
  /\ project' = status
  /\ UNCHANGED <<account, credential, member, issuer, creator>>

SetMember(s, status) ==
  /\ member[s] # status
  /\ member' = [member EXCEPT ![s] = status]
  /\ UNCHANGED <<project, account, credential, issuer, creator>>

----------------------------------------------------------------------------
Issue(h) ==
  \/ \E a \in Accounts : BeginStandard(h, a)
  \/ \E c \in Credentials, s \in Subjects, scopes \in SUBSET Scopes : BeginExternal(h, c, s, scopes)
  \/ LockAccount(h) \/ AbandonIssue(h)
  \/ \E c \in Credentials : InsertCredential(h, c)

ChangeAccount(a) ==
  \/ \E status \in Status, scopes \in SUBSET Scopes : UpdateServiceAccount(a, status, scopes)
  \/ DeleteServiceAccount(a)

Next ==
  \/ \E h \in Creators : \/ CountAccounts(h) \/ AbandonCreate(h)
                         \/ \E a \in Accounts, scopes \in SUBSET Scopes : CreateServiceAccount(h, a, scopes)
  \/ \E a \in Accounts : ChangeAccount(a)
  \/ \E h \in Issuers : Issue(h)
  \/ \E c \in Credentials : RevokeServiceCredential(c) \/ ExpireCredential(c)
  \/ \E m, c \in Credentials : RevokeExternalCredential(m, c)
  \/ \E status \in Status : SetProject(status) \/ \E s \in Subjects : SetMember(s, status)

Spec == Init /\ [][Next]_vars

----------------------------------------------------------------------------
(* Properties.                                                             *)

\* Rows and requests are of their types; an account always has a scope, as the
\* schema demands.
TypeOK ==
  /\ project \in Status /\ member \in [Subjects -> Status]
  /\ account \in [Accounts -> {NoAccount} \cup
       [status : Status \cup {"deleted"}, scopes : SUBSET Scopes \ {{}}]]
  /\ credential \in [Credentials -> {NoCredential} \cup
       [status : {"active", "revoked", "expired"}, account : Accounts,
        subject : Subjects \cup {None}, scopes : SUBSET Scopes]]
  /\ issuer \in [Issuers -> {Idle} \cup
       [pc : {"authorized", "locked"}, account : Accounts, subject : Subjects \cup {None},
        scopes : SUBSET Scopes]]
  /\ creator \in [Creators -> {"idle", "counted"}]

\* An account that is disabled or deleted has no active credential, whatever
\* was being issued when it was: enabling it again brings none back
\* (updateServiceAccount, deleteServiceAccount against the issuing requests).
DisabledHasNone ==
  \A c \in Credentials :
    credential[c].status = "active" => account[credential[c].account].status = "active"

=============================================================================
