----------------------------- MODULE CaseIntake -----------------------------
(***************************************************************************)
(* The two ways a support case is opened, createSupportCase                *)
(* (internal/api/support_cases.go) and createSupportSubmission             *)
(* (internal/api/external_integrations.go), and the limit on the active    *)
(* cases of a tenant.  A request locks its Project (or, for a case without *)
(* one, the tenant), counts the active cases of the whole tenant and       *)
(* inserts; another Project's request does the same at the same time.      *)
(* A request is one that beginIdempotentRequest lets through: what a       *)
(* repeated submission is answered is in Idempotency.                      *)
(***************************************************************************)
EXTENDS Naturals, FiniteSets

CONSTANTS
  Projects,    \* of one tenant
  Tenant,      \* the tenant's own row
  Cases,
  Handlers,    \* requests in flight
  Limit,       \* supportCaseActiveLimit
  MaxReopens,  \* bound: how often a closed case is reopened
  None

\* What the constants have to satisfy.
IntakeAssumption ==
  /\ IsFiniteSet(Projects) /\ IsFiniteSet(Cases) /\ IsFiniteSet(Handlers)
  /\ Limit \in Nat \ {0} /\ MaxReopens \in Nat
  /\ Tenant \notin Projects /\ None \notin Handlers \cup Projects \cup {Tenant}

VARIABLES
  project,   \* the status of each Project
  case,      \* the status of each case
  lock,      \* the request that has locked a Project, or the tenant
  request,   \* where each request is, and what it has locked
  reopened   \* cases reopened so far

vars == <<project, case, lock, request, reopened>>

Scopes == Projects \cup {Tenant}
Idle == [pc |-> "idle", scope |-> None]
Active == {c \in Cases : case[c] = "active"}   \* status <> 'closed'

Init ==
  /\ project = [p \in Projects |-> "active"]
  /\ case = [c \in Cases |-> "absent"]
  /\ lock = [s \in Scopes |-> None]
  /\ request = [h \in Handlers |-> Idle]
  /\ reopened = 0

\* SELECT ... FOR UPDATE; a Project that is disabled is answered with a problem.
MayLockAny(s) == s \in Projects => project[s] = "active"
MayLock(s) == lock[s] = None /\ (s \in Projects => project[s] = "active")

\* supportActor: a service account's cases are its Project's, and a submission
\* comes from one; a member names a Project or none.
Begin(h, s) ==
  /\ request[h] = Idle /\ MayLock(s)
  /\ lock' = [lock EXCEPT ![s] = h]
  /\ request' = [request EXCEPT ![h] = [pc |-> "locked", scope |-> s]]
  /\ UNCHANGED <<project, case, reopened>>

Unlock(h) ==
  lock' = [s \in Scopes |-> IF lock[s] = h THEN None ELSE lock[s]]
End(h) == Unlock(h) /\ request' = [request EXCEPT ![h] = Idle]

HasRoom == Cardinality(Active) < Limit
CountActive(h) ==
  /\ request[h].pc = "locked" /\ HasRoom
  /\ request' = [request EXCEPT ![h].pc = "counted"]
  /\ UNCHANGED <<project, case, lock, reopened>>

\* completeSupportProblem: the answer is stored, and nothing else.
CompleteSupportProblem(h) ==
  /\ request[h].pc = "locked" /\ ~HasRoom
  /\ End(h)
  /\ UNCHANGED <<project, case, reopened>>

\* The case, its message and, of a submission, its attachment; then the commit.
Insert(h, c) ==
  /\ request[h].pc = "counted" /\ case[c] = "absent"
  /\ case' = [case EXCEPT ![c] = "active"]
  /\ End(h)
  /\ UNCHANGED <<project, reopened>>

CreateSupportCase(h, c) == Insert(h, c)
CreateSupportSubmission(h, c) == request[h].scope # Tenant /\ Insert(h, c)

\* A statement or the commit fails, or the idempotency lease was lost.
Rollback(h) ==
  /\ request[h] # Idle
  /\ End(h)
  /\ UNCHANGED <<project, case, reopened>>

----------------------------------------------------------------------------
\* updateSupportCase locks the case only, and does not look at the limit.
Close(c) ==
  /\ case[c] = "active"
  /\ case' = [case EXCEPT ![c] = "closed"]
  /\ UNCHANGED <<project, lock, request, reopened>>

Reopen(c) ==
  /\ case[c] = "closed" /\ reopened < MaxReopens
  /\ case' = [case EXCEPT ![c] = "active"]
  /\ reopened' = reopened + 1
  /\ UNCHANGED <<project, lock, request>>

\* purgeSupportCase; the uid stands for another case from now on.
Purge(c) ==
  /\ case[c] = "closed"
  /\ case' = [case EXCEPT ![c] = "absent"]
  /\ UNCHANGED <<project, lock, request, reopened>>

\* updateProject waits for the lock of the row.
SetProject(p, status) ==
  /\ lock[p] = None
  /\ project' = [project EXCEPT ![p] = status]
  /\ UNCHANGED <<case, lock, request, reopened>>

Next ==
  \/ \E h \in Handlers :
       \/ \E s \in Scopes : Begin(h, s)
       \/ CountActive(h) \/ CompleteSupportProblem(h) \/ Rollback(h)
       \/ \E c \in Cases : CreateSupportCase(h, c) \/ CreateSupportSubmission(h, c)
  \/ \E c \in Cases : Close(c) \/ Reopen(c) \/ Purge(c)
  \/ \E p \in Projects, status \in {"active", "disabled"} : SetProject(p, status)

Spec == Init /\ [][Next]_vars

----------------------------------------------------------------------------
(* Properties.                                                             *)

\* The rows, the locks and the requests are of their types.
TypeOK ==
  /\ project \in [Projects -> {"active", "disabled"}]
  /\ case \in [Cases -> {"absent", "active", "closed"}]
  /\ lock \in [Scopes -> Handlers \cup {None}]
  /\ request \in [Handlers -> {Idle} \cup [pc : {"locked", "counted"}, scope : Scopes]]
  /\ reopened \in Nat

\* The limit on active cases is exceeded by no more than one case for each
\* further Project (or the tenant) that a case can be opened under, and one for
\* each case that was reopened, however many requests count at the same moment.
IntakeBounded ==
  Cardinality(Active) <= Limit + (Cardinality(Scopes) - 1) + reopened
=============================================================================
