----------------------------- MODULE MCProgress -----------------------------
(* What must eventually happen, for TLC: in the job queue, in each of its     *)
(* three handlers, and under an idempotency key.  A behaviour follows one of  *)
(* these parts; the variables of the others are not used (0).                 *)
EXTENDS Integers, FiniteSets, TLC

CONSTANTS
  purge, mail, clean,   \* jobs of the queue: a recurring one by itself, two in a second queue
  Cases, Editors, NoCase, NoTime, Retention, MessageLimit, AttachmentLimit,
  ReferenceLimit, MaxVersion,
  Deliveries, MaxCopies,
  Stocked, Batch, Minute, Hour, MaxRows, Global,
  Workers, Leases, NoLease, NoJob, MaxAttempts, LeaseDuration,
  Keys, Hashes, Clients, Uids, NoUid, KeyRetention

VARIABLES
  part,                 \* what the behaviour follows
  case, editor, orphaned, closedFor,
  delivery, step, accepted, doubts,
  backlog, expired, at, picked, full, left,
  job, ahead, worker, cursor, selected,
  rec, req, effects, chosen, lost

supportVars == <<case, editor, orphaned, closedFor>>
emailVars == <<delivery, step, accepted, doubts>>
maintenanceVars == <<backlog, expired, at, picked, full, left>>
jobVars == <<job, ahead, worker, cursor, selected>>
keyVars == <<rec, req, effects, chosen, lost>>
caseVars == <<supportVars, jobVars>>
mailVars == <<emailVars, jobVars>>
runVars == <<maintenanceVars, jobVars>>
vars == <<part, supportVars, emailVars, maintenanceVars, jobVars, keyVars>>

QueueJobs == {purge, mail, clean}

Q == INSTANCE BackgroundJobs
       WITH Jobs <- QueueJobs, NumQueues <- 2,
            QueueOf <- [j \in QueueJobs |-> IF j = purge THEN 0 ELSE 1],
            Rearmable <- {}, Recurring <- {purge, clean}, Delays <- {0}
S == INSTANCE SupportCases
E == INSTANCE EmailDelivery
M == INSTANCE Maintenance
I == INSTANCE Idempotency WITH Retention <- KeyRetention, selected <- chosen

NoSupport == case = 0 /\ editor = 0 /\ orphaned = 0 /\ closedFor = 0
NoEmail == delivery = 0 /\ step = 0 /\ accepted = 0 /\ doubts = 0
NoMaintenance == backlog = 0 /\ expired = 0 /\ at = 0 /\ picked = 0 /\ full = 0 /\ left = 0
NoJobs == job = 0 /\ ahead = 0 /\ worker = 0 /\ cursor = 0 /\ selected = 0
NoKeys == rec = 0 /\ req = 0 /\ effects = 0 /\ chosen = 0 /\ lost = 0

Init ==
  \/ part = "queue" /\ Q!Init /\ NoSupport /\ NoEmail /\ NoMaintenance /\ NoKeys
  \/ part = "support" /\ S!Init /\ NoEmail /\ NoMaintenance /\ NoKeys
  \/ part = "email" /\ E!Init /\ NoSupport /\ NoMaintenance /\ NoKeys
  \/ part = "maintenance" /\ M!Init /\ NoSupport /\ NoEmail /\ NoKeys
  \/ part = "keys" /\ I!Init /\ NoSupport /\ NoEmail /\ NoMaintenance /\ NoJobs

Next ==
  /\ UNCHANGED part
  /\ \/ /\ part = "queue" /\ Q!Next
        /\ UNCHANGED <<supportVars, emailVars, maintenanceVars, keyVars>>
     \/ /\ part = "support" /\ S!Next
        /\ UNCHANGED <<emailVars, maintenanceVars, keyVars>>
     \/ /\ part = "email" /\ E!Next
        /\ UNCHANGED <<supportVars, maintenanceVars, keyVars>>
     \/ /\ part = "maintenance" /\ M!Next
        /\ UNCHANGED <<supportVars, emailVars, keyVars>>
     \/ /\ part = "keys" /\ I!Next
        /\ UNCHANGED <<supportVars, emailVars, maintenanceVars, jobVars>>

\* The loop of runBackgroundJobWorker polls for ever, handlers return (the SMTP
\* dialogue has a deadline, the others are bounded transactions) and report,
\* and time passes.  Nothing is assumed of what handlers return, of operators
\* or of the cleanup.
WorkersRun ==
  /\ \A w \in Workers :
       /\ WF_jobVars(part = "queue" /\ Q!Poll(w)) /\ WF_jobVars(part = "queue" /\ Q!Finish(w))
       /\ WF_jobVars(part = "queue" /\ Q!Report(w))
       /\ WF_caseVars(part = "support" /\ S!Poll(w))
       /\ WF_caseVars(part = "support" /\ (S!Handle(w) \/ S!HandleFails(w)))
       /\ WF_caseVars(part = "support" /\ S!Report(w))
       /\ WF_mailVars(part = "email" /\ E!Poll(w)) /\ WF_mailVars(part = "email" /\ E!Handle(w))
       /\ WF_mailVars(part = "email" /\ E!Report(w))
       /\ WF_runVars(part = "maintenance" /\ M!Poll(w))
       /\ WF_runVars(part = "maintenance" /\ M!Handle(w))
       /\ WF_runVars(part = "maintenance" /\ M!Report(w))
  /\ WF_jobVars(part = "queue" /\ Q!Tick) /\ WF_caseVars(part = "support" /\ S!Tick)
  /\ WF_mailVars(part = "email" /\ E!Tick) /\ WF_runVars(part = "maintenance" /\ M!Tick)
  /\ WF_runVars(part = "maintenance" /\ M!EnsureMaintenanceJob)   \* a replica has started

\* Processes and claims do not fail for ever (each restart begins with the same
\* queue, so a crash loop there would keep the others waiting).  A failure that
\* looks like a proper step, as ClaimFails like ClaimNone, is not excluded.
WorkersRecover ==
  <>[][\A w \in Workers :
         /\ part = "queue" /\ Q!Fail(w) => Q!Poll(w) \/ Q!Report(w)
         /\ part = "support" /\ S!J!Fail(w) => S!J!Poll(w) \/ S!J!Report(w)
         /\ part = "email" /\ E!J!Fail(w) => E!J!Poll(w) \/ E!J!Report(w)
         /\ part = "maintenance" /\ M!J!Fail(w) => M!J!Poll(w) \/ M!J!Report(w)]_vars

\* Requests run to their end, callers repeat what was not answered, time
\* passes, and handlers do not for ever fail or outlive their leases of thirty
\* seconds (when all do, each supersedes the one before it).
CallersRetry ==
  /\ \A c \in Clients :
       /\ WF_keyVars(part = "keys" /\ I!Begin(c)) /\ WF_keyVars(part = "keys" /\ I!Finish(c))
       /\ WF_keyVars(part = "keys" /\ I!Respond(c)) /\ WF_keyVars(part = "keys" /\ I!Resend(c))
  /\ WF_keyVars(part = "keys" /\ I!Tick)
  /\ <>[][part = "keys" =>
            /\ \A c \in Clients : I!Fail(c) => I!Begin(c) \/ I!Finish(c) \/ I!Respond(c)
            /\ ~I!Overrun]_vars

FairSpec == Init /\ [][Next]_vars /\ WorkersRun /\ WorkersRecover /\ CallersRetry

-----------------------------------------------------------------------------
(* Properties.                                                               *)

\* No available job is starved, by older jobs that keep failing in its queue or
\* by the other queue: it is eventually claimed (claimNext orders by
\* available_at, runBackgroundJobWorker rotates its queues).
NoStarvation ==
  \A j \in QueueJobs :
    part = "queue" /\ job[j].status = "pending" ~> part = "queue" /\ job[j].status = "running"

\* A closed case is eventually purged unless it is reopened, its job is
\* dead-lettered (or was removed), however often workers lost their leases.
ClosedIsPurged ==
  \A c \in Cases :
    part = "support" /\ case[c].status = "closed"
    ~> part = "support" /\ (\/ case[c].status # "closed"
                            \/ job[c].status = "dead_lettered" \/ c \in orphaned)

\* A mail that was scheduled is delivered, or operators are told
\* (dead-lettered), however often the server refuses or a worker crashes.
MailsSettle ==
  \A d \in Deliveries :
    part = "email" /\ delivery[d] = "pending"
    ~> part = "email" /\ (delivery[d] # "pending" \/ job[d].status = "dead_lettered")

\* The backlog of every table is worked off, though statements fail, workers
\* crash and a run ends at the first failure, unless the job was dead-lettered.
BacklogDrains ==
  \A t \in Stocked :
    part = "maintenance" /\ backlog[t] # {}
    ~> part = "maintenance" /\ (backlog[t] = {} \/ job[Global].status = "dead_lettered")

\* A key does not stay in progress for ever: what a failed handler leaves behind
\* is reclaimed by the caller's retry, executed and completed.
KeysSettle ==
  \A k \in Keys :
    part = "keys" /\ rec[k].state = "processing"
    ~> part = "keys" /\ rec[k].state # "processing"
=============================================================================
