----------------------------- MODULE MCHandlers -----------------------------
(* The three handlers of background jobs, for TLC.  Each has the job table    *)
(* for itself, so a behaviour follows one of them; the variables of the       *)
(* others are not used (0).                                                   *)
EXTENDS Integers, FiniteSets, TLC

CONSTANTS
  Cases, Editors, NoCase, NoTime, Retention, MessageLimit, AttachmentLimit,
  ReferenceLimit, MaxVersion,
  Deliveries, MaxCopies,
  Stocked, Batch, Minute, Hour, MaxRows, Global,
  Workers, Leases, NoLease, NoJob, MaxAttempts, LeaseDuration

VARIABLES
  part,             \* the handler that the behaviour follows
  case, editor, orphaned, closedFor,
  delivery, step, accepted, doubts,
  backlog, expired, at, picked, full, left,
  job, ahead, worker, cursor, selected

supportVars == <<case, editor, orphaned, closedFor>>
emailVars == <<delivery, step, accepted, doubts>>
maintenanceVars == <<backlog, expired, at, picked, full, left>>
jobVars == <<job, ahead, worker, cursor, selected>>
vars == <<part, supportVars, emailVars, maintenanceVars, jobVars>>

S == INSTANCE SupportCases
E == INSTANCE EmailDelivery
M == INSTANCE Maintenance

ASSUME HandlersAssumption ==
  S!SupportAssumption /\ E!EmailAssumption /\ M!MaintenanceAssumption

NoSupport == case = 0 /\ editor = 0 /\ orphaned = 0 /\ closedFor = 0
NoEmail == delivery = 0 /\ step = 0 /\ accepted = 0 /\ doubts = 0
NoMaintenance == backlog = 0 /\ expired = 0 /\ at = 0 /\ picked = 0 /\ full = 0 /\ left = 0

Init ==
  \/ part = "support" /\ S!Init /\ NoEmail /\ NoMaintenance
  \/ part = "email" /\ E!Init /\ NoSupport /\ NoMaintenance
  \/ part = "maintenance" /\ M!Init /\ NoSupport /\ NoEmail

Next ==
  /\ UNCHANGED part
  /\ \/ part = "support" /\ S!Next /\ UNCHANGED <<emailVars, maintenanceVars>>
     \/ part = "email" /\ E!Next /\ UNCHANGED <<supportVars, maintenanceVars>>
     \/ part = "maintenance" /\ M!Next /\ UNCHANGED <<supportVars, emailVars>>

Spec == Init /\ [][Next]_vars

\* Workers are interchangeable.
Symmetry == Permutations(Workers)

-----------------------------------------------------------------------------
(* Properties.                                                               *)

\* A closed case has a purge job that will run by the end of its retention, or
\* one that was dead-lettered: reopening, closing and editing race with the
\* worker, and none of its late reports settles the job of a case closed again.
ClosedIsScheduled == part = "support" => S!ClosedIsScheduled

\* A case that is purged has been closed without a break for the whole of its
\* retention, whichever old, replayed or superseded run of its job purges it:
\* updateSupportCase sets retention_until anew, purgeSupportCase reads it again.
KeptForRetention == [][part = "support" => S!PurgesAfterRetention]_vars

\* Whoever closes, resolves or reopens a case has seen its status, messages,
\* attachments and references: updateSupportCase compares the ETag it was sent.
DecidedAsSeen == [][part = "support" => S!DecidesAsSeen]_vars

\* A mail sent twice has a lost answer, a failed UPDATE, a crash after the
\* answer or a lost lease behind it; a report lost after the UPDATE sends nothing.
DuplicatesExplained == part = "email" => E!DuplicatesExplained

\* Whichever table it is that a cleanup run had to leave rows in, the next run
\* follows after a minute (README: "A full batch reschedules after one minute"),
\* unless rows it had chosen there were gone when it came to delete them.
BacklogSoon == part = "maintenance" => M!BacklogSoon

\* Each handler, with the operations around it, uses the job table as
\* BackgroundJobs allows: every step is one of its steps or leaves it alone.
ImplementsJobs ==
  /\ part = "support" => S!J!Init
  /\ part = "email" => E!J!Init
  /\ part = "maintenance" => M!J!Init
  /\ [][/\ part = "support" => S!J!Next \/ UNCHANGED jobVars
        /\ part = "email" => E!J!Next \/ UNCHANGED jobVars
        /\ part = "maintenance" => M!J!Next \/ UNCHANGED jobVars]_vars
=============================================================================
