---------------------------- MODULE SupportCases ----------------------------
(***************************************************************************)
(* Support cases (internal/api/support_cases.go, the messages and          *)
(* attachments handlers, the external intake) and their retention: closing *)
(* a case schedules its purge job, and purgeSupportCase                    *)
(* (internal/api/background_jobs.go) is the handler of that job.  The job  *)
(* side is BackgroundJobs, with one job per case, and every step of this   *)
(* module is a step of it or leaves it alone (ImplementsJobs).             *)
(*                                                                         *)
(* A case is what the operations tell apart: its status, how long          *)
(* retention_until is away, its messages, attachments and references, and  *)
(* its version.  The row lock of lockSupportCase spans each handler's      *)
(* transaction, so that a handler is one step.                             *)
(***************************************************************************)
EXTENDS Integers, FiniteSets

CONSTANTS
    Cases,
    Editors,                        \* callers that read a case, then PATCH it
    NoCase, NoTime,                 \* nothing read yet; SQL NULL
    Retention,                      \* supportCaseRetention, in ticks
    MessageLimit, AttachmentLimit,  \* supportMessageLimit, supportAttachmentLimit
    ReferenceLimit,                 \* external references of a case
    MaxVersion,                     \* bound on the versions explored
    Workers, Leases, NoLease, NoJob, MaxAttempts, LeaseDuration

\* What the constants have to satisfy.
SupportAssumption ==
    /\ NoCase \notin Cases
    /\ NoTime \notin Nat
    /\ Retention \in Nat
    /\ MessageLimit \in Nat \ {0} /\ AttachmentLimit \in Nat \ {0}
    /\ ReferenceLimit \in Nat /\ MaxVersion \in Nat
    /\ NoLease \notin Leases /\ NoJob \notin Cases
    /\ MaxAttempts \in Nat \ {0} /\ LeaseDuration \in Nat \ {0}

VARIABLES
    case,      \* case[c]: the row of c
    editor,    \* editor[e]: the case e has read, and the version it read
    orphaned,  \* closed cases whose purge job a maintenance cleanup removed
    closedFor, \* how long a case has been closed without a break, up to Retention
    job, ahead, worker, cursor, selected   \* see BackgroundJobs

jobVars == <<job, ahead, worker, cursor, selected>>
vars == <<case, editor, orphaned, closedFor, jobVars>>

J == INSTANCE BackgroundJobs
        WITH Jobs <- Cases, NumQueues <- 1, QueueOf <- [c \in Cases |-> 0],
             Rearmable <- Cases, Recurring <- Cases, Delays <- 0 .. Retention

ActiveStatuses == {"open", "in_progress", "waiting_for_customer"}
LiveStatuses == ActiveStatuses \cup {"resolved", "closed"}

Case == [status : LiveStatuses \cup {"absent", "purged"}, retention : Nat \cup {NoTime},
         messages : 0 .. MessageLimit, attachments : 0 .. AttachmentLimit,
         references : 0 .. ReferenceLimit, version : Nat]

GoneCase(status) == [status |-> status, retention |-> NoTime,
                     messages |-> 0, attachments |-> 0, references |-> 0, version |-> 0]

\* What an editor sees of a case; the ETag is its version.
View(c) == [status |-> case[c].status, messages |-> case[c].messages,
            attachments |-> case[c].attachments, references |-> case[c].references,
            version |-> case[c].version]

NothingRead == [case |-> NoCase, seen |-> 0]

Exists(c) == case[c].status \in LiveStatuses

-----------------------------------------------------------------------------
Init ==
    /\ case = [c \in Cases |-> GoneCase("absent")]
    /\ editor = [e \in Editors |-> NothingRead]
    /\ orphaned = {}
    /\ closedFor = [c \in Cases |-> 0]
    /\ J!Init

\* createSupportCase, or createSupportSubmission with its first attachment.
Create(c, attachments) ==
    /\ case[c].status = "absent"
    /\ case' = [case EXCEPT ![c] = [status |-> "open", retention |-> NoTime, messages |-> 1,
                                    attachments |-> attachments, references |-> 0, version |-> 1]]
    /\ UNCHANGED <<editor, orphaned, closedFor, jobVars>>

\* getSupportCase, with its ETag.
Read(e, c) ==
    /\ Exists(c)
    /\ editor' = [editor EXCEPT ![e] = [case |-> c, seen |-> View(c)]]
    /\ UNCHANGED <<case, orphaned, closedFor, jobVars>>

\* supportStatusTransitionAllowed, for a status that changes.
TransitionAllowed(from, to) ==
    \/ from \in ActiveStatuses /\ to \in LiveStatuses \ {from}
    \/ from = "resolved" /\ to \in {"open", "closed"}
    \/ from = "closed" /\ to = "open"

\* The caller's If-Match is the version of the locked row.
Fresh(e, c) ==
    /\ editor[e].case = c
    /\ Exists(c)
    /\ case[c].version = editor[e].seen.version

\* Faulty variant: an older purge job is left as it is.
RearmUnlessExists(c) ==
    IF job[c].status # "absent" THEN UNCHANGED jobVars
    ELSE J!Schedule(c, case'[c].retention)

\* Faulty variant: a job that is being run keeps its lease.
RearmKeepsLease(c) ==
    /\ job' = [job EXCEPT ![c] = [J!PendingRow(case'[c].retention) EXCEPT !.lease = job[c].lease]]
    /\ J!Requeue({c})
    /\ UNCHANGED <<worker, cursor, selected>>

\* The INSERT ... ON CONFLICT DO UPDATE of updateSupportCase.
Rearm(c) == J!Schedule(c, case'[c].retention)

\* Faulty variant: a deadline that was set once stays.
DeadlineOnce(row, status) ==
    IF status = "closed" /\ row.retention = NoTime THEN Retention ELSE row.retention

\* retention_until after a change of the status.
Deadline(row, status) == IF status = "closed" THEN Retention ELSE NoTime

\* updateSupportCase, the status among the changed fields.
ChangeStatus(e, c, status) ==
    /\ Fresh(e, c)
    /\ case[c].version < MaxVersion
    /\ TransitionAllowed(case[c].status, status)
    /\ case' = [case EXCEPT ![c] =
                   [status |-> status, retention |-> Deadline(@, status),
                    messages |-> @.messages, attachments |-> @.attachments,
                    references |-> @.references, version |-> @.version + 1]]
    /\ IF status = "closed" THEN Rearm(c) ELSE UNCHANGED jobVars
    /\ orphaned' = orphaned \ {c}
    /\ closedFor' = [closedFor EXCEPT ![c] = 0]
    /\ UNCHANGED editor

\* updateSupportCase, another field only: the job of a closed case is re-armed too.
ChangeField(e, c) ==
    /\ Fresh(e, c)
    /\ case[c].version < MaxVersion
    /\ case' = [case EXCEPT ![c].version = @ + 1]
    /\ IF case[c].status = "closed"
       THEN Rearm(c) /\ orphaned' = orphaned \ {c}
       ELSE UNCHANGED <<jobVars, orphaned>>
    /\ UNCHANGED <<editor, closedFor>>

\* Faulty variant: a message leaves the version alone.
WithMessageUnversioned(row) ==
    [status |-> row.status, retention |-> row.retention, messages |-> row.messages + 1,
     attachments |-> row.attachments, references |-> row.references, version |-> row.version]

WithMessage(row) ==
    [status |-> row.status, retention |-> row.retention, messages |-> row.messages + 1,
     attachments |-> row.attachments, references |-> row.references,
     version |-> row.version + 1]

HasRoom(c) == case[c].messages < MessageLimit

\* createSupportCaseMessage.
AddMessage(c) ==
    /\ case[c].status \in ActiveStatuses
    /\ HasRoom(c)
    /\ case[c].version < MaxVersion
    /\ case' = [case EXCEPT ![c] = WithMessage(@)]
    /\ UNCHANGED <<editor, orphaned, closedFor, jobVars>>

\* createSupportCaseAttachment; the limit stands for the count and the bytes.
AddAttachment(c) ==
    /\ case[c].status \in ActiveStatuses
    /\ case[c].attachments < AttachmentLimit
    /\ case[c].version < MaxVersion
    /\ case' = [case EXCEPT ![c] =
                   [status |-> @.status, retention |-> @.retention, messages |-> @.messages,
                    attachments |-> @.attachments + 1, references |-> @.references,
                    version |-> @.version + 1]]
    /\ UNCHANGED <<editor, orphaned, closedFor, jobVars>>

SetReferences(c, n) ==
    /\ case[c].version < MaxVersion
    /\ case' = [case EXCEPT ![c] =
                   [status |-> @.status, retention |-> @.retention, messages |-> @.messages,
                    attachments |-> @.attachments, references |-> n, version |-> @.version + 1]]
    /\ UNCHANGED <<editor, orphaned, closedFor, jobVars>>

\* createSupportCaseExternalReference and its DELETE, whatever the status.
AddReference(c) ==
    /\ Exists(c)
    /\ case[c].references < ReferenceLimit
    /\ SetReferences(c, case[c].references + 1)

RemoveReference(c) ==
    /\ Exists(c)
    /\ case[c].references > 0
    /\ SetReferences(c, case[c].references - 1)

-----------------------------------------------------------------------------
(* purgeSupportCase, run by worker w on the case of its job.               *)

\* status = closed, retention set and not after the database's clock.
Due(c) == case[c].status = "closed" /\ case[c].retention = 0

Deferred(c) == case[c].status = "closed" /\ case[c].retention # NoTime /\ ~Due(c)

Purge(w, c) ==
    /\ worker[w].job = c
    /\ Due(c)
    /\ case' = [case EXCEPT ![c] = GoneCase("purged")]
    /\ orphaned' = orphaned \ {c}
    /\ closedFor' = [closedFor EXCEPT ![c] = 0]
    /\ J!HandlerReturns(w, "ok", 0)
    /\ UNCHANGED editor

Defer(w, c) ==
    /\ worker[w].job = c
    /\ Deferred(c)
    /\ J!HandlerReturns(w, "reschedule", case[c].retention)
    /\ UNCHANGED <<case, editor, orphaned, closedFor>>

\* The case is gone or was reopened: nothing to do.
Skip(w, c) ==
    /\ worker[w].job = c
    /\ ~Due(c) /\ ~Deferred(c)
    /\ J!HandlerReturns(w, "ok", 0)
    /\ UNCHANGED <<case, editor, orphaned, closedFor>>

PurgeFails(w, at) ==
    /\ J!HandlerReturns(w, "error", at)
    /\ UNCHANGED <<case, editor, orphaned, closedFor>>

Handle(w) == \E c \in Cases : Purge(w, c) \/ Defer(w, c) \/ Skip(w, c)

HandleFails(w) == \E at \in J!ReturnTimes(w, "error") : PurgeFails(w, at)

\* The steps of the job store and of the worker loop around the handler.
Poll(w) == J!Poll(w) /\ UNCHANGED <<case, editor, orphaned, closedFor>>
Report(w) == J!Report(w) /\ UNCHANGED <<case, editor, orphaned, closedFor>>
Fail(w) == J!Fail(w) /\ UNCHANGED <<case, editor, orphaned, closedFor>>
Replay(c) == J!Replay(c) /\ UNCHANGED <<case, editor, orphaned, closedFor>>
CleanupSelect == J!CleanupSelect /\ UNCHANGED <<case, editor, orphaned, closedFor>>

CleanupDelete(c) ==
    /\ J!CleanupDelete(c)
    /\ orphaned' = IF case[c].status = "closed" THEN orphaned \cup {c} ELSE orphaned
    /\ UNCHANGED <<case, editor, closedFor>>

Tick ==
    /\ case' = [c \in Cases |->
                   [status |-> case[c].status,
                    retention |-> IF case[c].retention = NoTime THEN NoTime
                                  ELSE J!Elapsed(case[c].retention),
                    messages |-> case[c].messages, attachments |-> case[c].attachments,
                    references |-> case[c].references, version |-> case[c].version]]
    /\ closedFor' = [c \in Cases |->
                        IF case[c].status = "closed" /\ closedFor[c] < Retention
                        THEN closedFor[c] + 1 ELSE closedFor[c]]
    /\ J!Tick
    /\ UNCHANGED <<editor, orphaned>>

Next ==
    \/ \E c \in Cases :
          \/ AddMessage(c) \/ AddAttachment(c) \/ AddReference(c) \/ RemoveReference(c)
          \/ Replay(c) \/ CleanupDelete(c)
    \/ \E c \in Cases, n \in {0, 1} : Create(c, n)
    \/ \E e \in Editors, c \in Cases :
          \/ Read(e, c)
          \/ ChangeField(e, c)
          \/ \E status \in LiveStatuses : ChangeStatus(e, c, status)
    \/ \E w \in Workers : Poll(w) \/ Handle(w) \/ HandleFails(w) \/ Report(w) \/ Fail(w)
    \/ CleanupSelect
    \/ Tick

Spec == Init /\ [][Next]_vars

-----------------------------------------------------------------------------
(* Properties.                                                             *)

\* Every variable of this module keeps its type, and a case its limits.
RowsOK ==
    /\ case \in [Cases -> Case]
    /\ \A e \in Editors : editor[e] = NothingRead \/ editor[e].case \in Cases
    /\ orphaned \in SUBSET Cases

TypeOK == RowsOK /\ closedFor \in [Cases -> 0 .. Retention]

\* A case that is purged has been closed without a break for the whole of its
\* retention: every reopening starts it anew, whichever job (left behind by a
\* reopening, replayed, claimed early or run by a superseded worker) purges it.
PurgesAfterRetention ==
    \A c \in Cases : Exists(c) /\ ~Exists(c)' => closedFor[c] = Retention

\* A closed case always has a purge job that will run, no later than its
\* retention ends, or one that operators were told of (dead-lettered): reopening,
\* closing and editing race with the worker that runs the job, and none of its
\* late reports settles the job of a case that was closed again.  The exception
\* is a job removed by the maintenance cleanup (orphaned).
ClosedIsScheduled ==
    \A c \in Cases \ orphaned :
        case[c].status = "closed" =>
            /\ job[c].status \in {"pending", "running", "dead_lettered"}
            /\ job[c].status = "pending" /\ job[c].attempts = 0
               => job[c].wait <= case[c].retention
            /\ \A w \in Workers :
                  J!Owns(w) /\ worker[w].job = c /\ worker[w].pc = "reporting"
                  => worker[w].outcome # "ok"

\* Status changes are never based on a stale view: whoever closes, resolves or
\* reopens a case has seen its status, messages, attachments and references.
DecidesAsSeen ==
    \A c \in Cases :
        Exists(c) /\ Exists(c)' /\ case'[c].status # case[c].status
        => \E e \in Editors : editor[e].case = c /\ editor[e].seen = View(c)

=============================================================================
