--------------------------- MODULE ProjectConfig ---------------------------
(***************************************************************************)
(* The WebAuthn configuration of one Project: its RP ID, the Origins that  *)
(* must lie under it, and the lock that the first registration sets        *)
(* (internal/api/projects.go, with the enrolments of fido_flow.go).        *)
(*                                                                         *)
(* Every handler reads the Project and its Origins first and writes in a   *)
(* single later statement; only the UPDATE of the Project repeats a        *)
(* condition.  Domain names are taken from one branch of the tree and      *)
(* stand for their number of labels, so a host lies under an RP ID iff it  *)
(* has at least as many.                                                   *)
(***************************************************************************)
EXTENDS Naturals, FiniteSets

CONSTANTS
  RpIds,        \* RP IDs, by their number of labels
  BadRpIds,     \* values of the field that are no host name
  Origins,      \* Origins, by the number of labels of their host
  Credentials,  \* registered credentials
  Handlers,     \* requests in flight
  None          \* no value

\* What the constants have to satisfy.
ConfigAssumption ==
  /\ RpIds \cup BadRpIds \subseteq Nat /\ Origins \subseteq Nat \ {0}
  /\ RpIds \cap BadRpIds = {} /\ None \notin RpIds \cup BadRpIds \cup Origins

VARIABLES
  project,      \* status, rp_id and whether rp_id_locked_at is set
  origins,      \* rows of project_origins
  credential,   \* the RP ID each credential was made for
  handler       \* what each request in flight has read

vars == <<project, origins, credential, handler>>

Status == {"active", "disabled"}
NoProject == [status |-> "absent", rp_id |-> None, locked |-> FALSE]
Idle == [pc |-> "idle", rp_id |-> None, status |-> None, origin |-> None]

Init ==
  /\ project = NoProject /\ origins = {}
  /\ credential = [k \in Credentials |-> None]
  /\ handler = [h \in Handlers |-> Idle]

Go(h, r) == handler' = [handler EXCEPT ![h] = r]
Loaded(h) == handler[h] = Idle /\ project # NoProject

\* The part of validateOrigin that depends on the RP ID: the host equals it or
\* is a subdomain of it.
ValidateOrigin(o, rp) == rp <= o

----------------------------------------------------------------------------
\* validRPID: what is no host name is refused.
ValidRPID(rp) == rp \in RpIds

\* One transaction inserts the Project and its first Origin.
CreateProject(rp, o) ==
  /\ project = NoProject
  /\ ValidRPID(rp) /\ ValidateOrigin(o, rp)
  /\ project' = [status |-> "active", rp_id |-> rp, locked |-> FALSE]
  /\ origins' = {o}
  /\ UNCHANGED <<credential, handler>>

\* updateProject: a field the request does not name keeps the value read here.
LoadForUpdate(h, rp, status) ==
  LET next == IF rp = None THEN project.rp_id ELSE rp IN
  /\ Loaded(h)
  /\ ~(project.locked /\ next # project.rp_id)
  /\ ValidRPID(next)
  /\ \A o \in origins : ValidateOrigin(o, next)
  /\ Go(h, [Idle EXCEPT !.pc = "updating", !.rp_id = next,
                        !.status = IF status = None THEN project.status ELSE status])
  /\ UNCHANGED <<project, origins, credential>>

\* WHERE ... AND (rp_id=$6 OR rp_id_locked_at IS NULL).
MayWriteRpIdAny(rp) == TRUE
MayWriteRpId(rp) == rp = project.rp_id \/ ~project.locked

UpdateProject(h) ==
  /\ handler[h].pc = "updating"
  /\ project' = IF MayWriteRpId(handler[h].rp_id)
                THEN [project EXCEPT !.rp_id = handler[h].rp_id, !.status = handler[h].status]
                ELSE project
  /\ Go(h, Idle)
  /\ UNCHANGED <<origins, credential>>

LoadForCreateOrigin(h, o) ==
  /\ Loaded(h) /\ ValidateOrigin(o, project.rp_id)
  /\ Go(h, [Idle EXCEPT !.pc = "adding", !.origin = o])
  /\ UNCHANGED <<project, origins, credential>>

\* An Origin that is configured already is a conflict and changes nothing.
CreateOrigin(h) ==
  /\ handler[h].pc = "adding"
  /\ origins' = origins \cup {handler[h].origin}
  /\ Go(h, Idle)
  /\ UNCHANGED <<project, credential>>

LoadForDeleteOrigin(h, o) ==
  /\ Loaded(h) /\ Cardinality(origins) > 1
  /\ Go(h, [Idle EXCEPT !.pc = "deleting", !.origin = o])
  /\ UNCHANGED <<project, origins, credential>>

DeleteOrigin(h) ==
  /\ handler[h].pc = "deleting"
  /\ origins' = origins \ {handler[h].origin}
  /\ Go(h, Idle)
  /\ UNCHANGED <<project, credential>>

----------------------------------------------------------------------------
(* Registration, as far as the RP ID is concerned.                         *)

\* webAuthnForProject of an active Project: the credential is verified
\* against this RP ID.
WebAuthnForProject(h) ==
  /\ Loaded(h) /\ project.status = "active"
  /\ Go(h, [Idle EXCEPT !.pc = "registering", !.rp_id = project.rp_id])
  /\ UNCHANGED <<project, origins, credential>>

\* rp_id_locked_at=COALESCE(rp_id_locked_at,now()), with the credential.
LockRpId(p) == [p EXCEPT !.locked = TRUE]

RegisterCredential(h, k) ==
  /\ handler[h].pc = "registering" /\ credential[k] = None
  /\ credential' = [credential EXCEPT ![k] = handler[h].rp_id]
  /\ project' = LockRpId(project)
  /\ Go(h, Idle)
  /\ UNCHANGED origins

Abandon(h) ==
  /\ handler[h] # Idle
  /\ Go(h, Idle)
  /\ UNCHANGED <<project, origins, credential>>

----------------------------------------------------------------------------
Update(h) ==
  \/ \E rp \in RpIds \cup BadRpIds \cup {None}, status \in Status \cup {None} : LoadForUpdate(h, rp, status)
  \/ UpdateProject(h)

ChangeOrigins(h) ==
  \/ \E o \in Origins : LoadForCreateOrigin(h, o) \/ LoadForDeleteOrigin(h, o)
  \/ CreateOrigin(h) \/ DeleteOrigin(h)

Register(h) == WebAuthnForProject(h) \/ \E k \in Credentials : RegisterCredential(h, k)

Next ==
  \/ \E rp \in RpIds \cup BadRpIds, o \in Origins : CreateProject(rp, o)
  \/ \E h \in Handlers : Update(h) \/ ChangeOrigins(h) \/ Register(h) \/ Abandon(h)

Spec == Init /\ [][Next]_vars

----------------------------------------------------------------------------
(* Properties.                                                             *)

\* Rows and requests are of their types; a Project always has an RP ID.
TypeOK ==
  /\ project \in {NoProject} \cup [status : Status, rp_id : RpIds, locked : BOOLEAN]
  /\ origins \subseteq Origins
  /\ credential \in [Credentials -> RpIds \cup {None}]
  /\ handler \in [Handlers ->
       [pc : {"idle", "updating", "adding", "deleting", "registering"},
        rp_id : RpIds \cup {None}, status : Status \cup {None}, origin : Origins \cup {None}]]

\* "RP ID is permanently locked": from the first registration on no request
\* changes the RP ID, not even one that read the Project before it
\* (updateProject, finishFidoEnrollment).
KeepsRpId == \A k \in Credentials : credential[k] # None => project'.rp_id = project.rp_id
RpIdPermanent == [][KeepsRpId]_vars

=============================================================================
