--------------------------- MODULE BackgroundJobs ---------------------------
(***************************************************************************)
(* The background_jobs table (internal/store/background_jobs.go) and the   *)
(* worker loop that drains it (internal/api/background_jobs.go).           *)
(*                                                                         *)
(* Every action is one database transaction or one step of a worker.       *)
(* Timestamps are kept relative to the database clock: `wait' is           *)
(* available_at - now and `ttl' is lease_expires_at - now, both cut off    *)
(* at 0, and Tick advances the clock.  The order of available_at among     *)
(* jobs that are already available is kept in `ahead'.  What a handler     *)
(* does is left open here (any outcome); SupportCases composes this        *)
(* module with the handler of the retention queue.                         *)
(***************************************************************************)
EXTENDS Integers, FiniteSets

CONSTANTS
    Jobs,             \* jobs, by (queue, deduplication_key)
    NumQueues,        \* length of the workers' queue list
    QueueOf,          \* the queue of each job, in Queues
    Workers,          \* worker goroutines of all replicas
    Leases,           \* lease UIDs
    NoLease, NoJob,   \* SQL NULL / no job in hand
    MaxAttempts,      \* max_attempts
    LeaseDuration,    \* BACKGROUND_JOB_LEASE_DURATION, in ticks
    Rearmable,        \* jobs scheduled with ON CONFLICT DO UPDATE
    Recurring,        \* jobs whose handler may return rescheduleAt
    Delays            \* delays of a newly scheduled or rescheduled job

ASSUME JobsAssumption ==
    /\ NumQueues \in Nat \ {0}
    /\ QueueOf \in [Jobs -> 0 .. NumQueues - 1]
    /\ NoLease \notin Leases
    /\ NoJob \notin Jobs
    /\ MaxAttempts \in Nat \ {0}
    /\ LeaseDuration \in Nat \ {0}
    /\ Rearmable \subseteq Jobs
    /\ Recurring \subseteq Jobs
    /\ Delays \subseteq Nat

VARIABLES
    job,       \* job[j]: the row of j ("absent" when there is none)
    ahead,     \* ahead[j]: available jobs with a smaller available_at than j
    worker,    \* worker[w]: the local variables of the worker loop
    cursor,    \* cursor[w]: the queue w tries next
    selected   \* rows the DELETE of a maintenance cleanup in flight chose

vars == <<job, ahead, worker, cursor, selected>>

Queues == 0 .. NumQueues - 1

-----------------------------------------------------------------------------
(* Rows of background_jobs and the UPDATEs on them.                        *)

Statuses == {"absent", "pending", "running", "completed", "dead_lettered"}

Row == [status : Statuses, attempts : Nat, wait : Nat,
        lease : Leases \cup {NoLease}, ttl : Nat]

AbsentRow == [status |-> "absent", attempts |-> 0, wait |-> 0,
              lease |-> NoLease, ttl |-> 0]

\* A row as inserted, re-armed or replayed: pending, attempt count zero.
PendingRow(delay) == [status |-> "pending", attempts |-> 0, wait |-> delay,
                      lease |-> NoLease, ttl |-> 0]

\* Leaving `running' always clears lease_uid and lease_expires_at.
Released(row, status) ==
    [status |-> status, attempts |-> row.attempts, wait |-> row.wait,
     lease |-> NoLease, ttl |-> 0]

\* Faulty variant: lease_expires_at is not looked at.
AbandonedAtOnce(row) == row.status = "running"

Abandoned(row) == row.status = "running" /\ row.ttl = 0

\* First statement of Claim: an abandoned attempt that was the last one.
ReapExhausted(row) ==
    IF Abandoned(row) /\ row.attempts >= MaxAttempts
    THEN Released(row, "dead_lettered")
    ELSE row

\* The candidate predicate of Claim.
Claimable(row) ==
    /\ row.wait = 0
    /\ row.attempts < MaxAttempts
    /\ row.status = "pending" \/ Abandoned(row)

ClaimRow(row, lease) ==
    [status |-> "running", attempts |-> row.attempts + 1, wait |-> row.wait,
     lease |-> lease, ttl |-> LeaseDuration]

CompleteRow(row) == Released(row, "completed")

\* Faulty variants: the bound is checked one attempt late; the status of a job
\* that gives up is the one migration 10 abolished.
RetryRowLate(row, delay) ==
    IF row.attempts > MaxAttempts
    THEN Released(row, "dead_lettered")
    ELSE [Released(row, "pending") EXCEPT !.wait = delay]

RetryRowFailed(row, delay) ==
    IF row.attempts >= MaxAttempts
    THEN Released(row, "failed")
    ELSE [Released(row, "pending") EXCEPT !.wait = delay]

RetryRow(row, delay) ==
    IF row.attempts >= MaxAttempts
    THEN Released(row, "dead_lettered")
    ELSE [Released(row, "pending") EXCEPT !.wait = delay]

RescheduleRow(row, delay) ==
    [PendingRow(delay) EXCEPT
        !.attempts = IF row.attempts > 0 THEN row.attempts - 1 ELSE 0]

\* backgroundJobRetryDelay: 1 << (attempt - 1) seconds for attempt clamped to
\* 1..9 (so the five-minute cap is never reached), plus up to 25% jitter.
BackoffBase == <<1, 2, 4, 8, 16, 32, 64, 128, 256>>

RetryDelays(attempt) ==
    LET base == BackoffBase[IF attempt < 1 THEN 1 ELSE IF attempt > 9 THEN 9 ELSE attempt]
    IN  base .. base + (base \div 4)

IsDue(row) == row.status \in {"pending", "running"} /\ row.wait = 0

-----------------------------------------------------------------------------
(* Workers.                                                                *)

Outcomes == {"none", "ok", "error", "reschedule"}

WorkerState == [pc : {"idle", "handling", "reporting"}, job : Jobs \cup {NoJob},
                lease : Leases \cup {NoLease}, attempt : Nat,
                outcome : Outcomes, at : Nat]

IdleWorker == [pc |-> "idle", job |-> NoJob, lease |-> NoLease,
               attempt |-> 0, outcome |-> "none", at |-> 0]

\* Faulty variant: the report is not fenced by the lease.
OwnsUnfenced(w) ==
    /\ worker[w].job \in Jobs
    /\ job[worker[w].job].status = "running"

\* WHERE uid=$1 AND status='running' AND lease_uid=$2
Owns(w) ==
    /\ worker[w].job \in Jobs
    /\ job[worker[w].job].status = "running"
    /\ job[worker[w].job].lease = worker[w].lease

LeasesInUse == {job[j].lease : j \in Jobs} \cup {worker[w].lease : w \in Workers}

\* available_at order of the jobs that are available after the step: one that
\* becomes available, or is given a new available_at (moved), queues behind
\* those that already were.
Requeue(moved) ==
    ahead' = [j \in Jobs |->
                 IF ~IsDue(job'[j]) THEN {}
                 ELSE {i \in IF IsDue(job[j]) /\ j \notin moved THEN ahead[j]
                             ELSE {k \in Jobs : IsDue(job[k])} :
                          i \notin moved \cup {j} /\ IsDue(job'[i])}]

-----------------------------------------------------------------------------
Init ==
    /\ job = [j \in Jobs |-> AbsentRow]
    /\ ahead = [j \in Jobs |-> {}]
    /\ worker = [w \in Workers |-> IdleWorker]
    /\ cursor \in [Workers -> Queues]
    /\ selected = {}

\* INSERT INTO background_jobs: ON CONFLICT DO NOTHING (ensureMaintenanceJob)
\* or a fresh key (email), or ON CONFLICT DO UPDATE, which re-arms the row
\* whatever its state and takes the lease from a worker that runs it.
Schedule(j, delay) ==
    /\ job[j].status = "absent" \/ j \in Rearmable
    /\ job' = [job EXCEPT ![j] = PendingRow(delay)]
    /\ \E moved \in SUBSET {j} : Requeue(moved)  \* a past deadline may be older
    /\ UNCHANGED <<worker, cursor, selected>>

\* The statement of Claim that every call runs, on the queue under the cursor.
Reaped(w) == [j \in Jobs |-> IF QueueOf[j] = cursor[w]
                             THEN ReapExhausted(job[j]) ELSE job[j]]

Candidates(w) == {j \in Jobs : QueueOf[j] = cursor[w] /\ Claimable(Reaped(w)[j])}

\* Faulty variant: no ORDER BY.
AnyOrder(w, j) == j \in Candidates(w)

\* FOR UPDATE SKIP LOCKED: every other worker may have one row locked (about to
\* claim it or to report on it), and so may a request that re-arms a row.
MaySkip(w, rows) == Cardinality(rows \ Rearmable) <= Cardinality(Workers \ {w})

\* ORDER BY available_at ASC LIMIT 1: the candidates ahead of j are skipped.
Oldest(w, j) == j \in Candidates(w) /\ MaySkip(w, ahead[j] \cap Candidates(w))

\* Claim that finds a job: it is given a fresh lease, in the row and the worker.
ClaimJob(w, j) ==
    /\ worker[w].pc = "idle"
    /\ Oldest(w, j)
    /\ Leases \ LeasesInUse # {}
    /\ LET lease == CHOOSE l \in Leases \ LeasesInUse : TRUE IN
       /\ job' = [Reaped(w) EXCEPT ![j] = ClaimRow(@, lease)]
       /\ worker' = [worker EXCEPT ![w] =
                        [pc |-> "handling", job |-> j, lease |-> lease,
                         attempt |-> job'[j].attempts, outcome |-> "none", at |-> 0]]
    /\ cursor' = [cursor EXCEPT ![w] = (@ + 1) % NumQueues]
    /\ Requeue({})
    /\ UNCHANGED selected

\* Claim that finds none: only the exhausted rows change, the next queue is up.
ClaimNone(w) ==
    /\ worker[w].pc = "idle"
    /\ MaySkip(w, Candidates(w))
    /\ job' = Reaped(w)
    /\ cursor' = [cursor EXCEPT ![w] = (@ + 1) % NumQueues]
    /\ Requeue({})
    /\ UNCHANGED <<worker, selected>>

\* Claim returns an error: nothing is committed, the next queue is up.
ClaimFails(w) ==
    /\ worker[w].pc = "idle"
    /\ cursor' = [cursor EXCEPT ![w] = (@ + 1) % NumQueues]
    /\ UNCHANGED <<job, ahead, worker, selected>>

\* When the row becomes available again.  The next attempt of a failed job is
\* computed from the attempt number the worker read when it claimed the job.
ReturnTimes(w, outcome) ==
    CASE outcome = "ok"         -> {0}
      [] outcome = "error"      -> RetryDelays(worker[w].attempt)
      [] outcome = "reschedule" -> IF worker[w].job \in Recurring THEN Delays ELSE {}

\* handleBackgroundJob returns.
HandlerReturns(w, outcome, at) ==
    /\ worker[w].pc = "handling"
    /\ at \in ReturnTimes(w, outcome)
    /\ worker' = [worker EXCEPT ![w] =
                     [pc |-> "reporting", job |-> @.job, lease |-> @.lease,
                      attempt |-> @.attempt, outcome |-> outcome, at |-> at]]
    /\ UNCHANGED <<job, ahead, cursor, selected>>

\* One fenced UPDATE; no row matches when the lease is lost, and the worker
\* goes back to polling either way.
Release(w, row) ==
    /\ job' = IF Owns(w) THEN [job EXCEPT ![worker[w].job] = row] ELSE job
    /\ worker' = [worker EXCEPT ![w] = IdleWorker]
    /\ Requeue(IF Owns(w) THEN {worker[w].job} ELSE {})
    /\ UNCHANGED <<cursor, selected>>

Complete(w) ==
    /\ worker[w].pc = "reporting" /\ worker[w].outcome = "ok"
    /\ Release(w, CompleteRow(job[worker[w].job]))

Retry(w) ==
    /\ worker[w].pc = "reporting" /\ worker[w].outcome = "error"
    /\ Release(w, RetryRow(job[worker[w].job], worker[w].at))

Reschedule(w) ==
    /\ worker[w].pc = "reporting" /\ worker[w].outcome = "reschedule"
    /\ Release(w, RescheduleRow(job[worker[w].job], worker[w].at))

\* The process exits, its context is cancelled, or the report fails: the row
\* keeps its lease, and the loop (re)starts, after a restart from any queue.
Crash(w) ==
    /\ worker[w].pc # "idle"
    /\ worker' = [worker EXCEPT ![w] = IdleWorker]
    /\ \E q \in Queues : cursor' = [cursor EXCEPT ![w] = q]
    /\ UNCHANGED <<job, ahead, selected>>

\* jobctl replay.
Replay(j) ==
    /\ job[j].status = "dead_lettered"
    /\ job' = [job EXCEPT ![j] = PendingRow(0)]
    /\ Requeue({})
    /\ UNCHANGED <<worker, cursor, selected>>

\* The last statement of runMaintenanceCleanup, WITH expired AS (SELECT ...)
\* DELETE ... USING expired.  PostgreSQL evaluates `expired' on the statement's
\* snapshot; a row changed since is re-checked against the join condition (the
\* uid) only, so it is deleted in whatever state it is then.  How long a row has
\* been completed (the seven days) is left open.
CleanupSelect ==
    /\ selected = {}
    /\ selected' \in SUBSET {j \in Jobs : job[j].status = "completed"}
    /\ UNCHANGED <<job, ahead, worker, cursor>>

CleanupDelete(j) ==
    /\ j \in selected
    /\ job' = [job EXCEPT ![j] = AbsentRow]
    /\ selected' = selected \ {j}
    /\ Requeue({})
    /\ UNCHANGED <<worker, cursor>>

Elapsed(n) == IF n > 0 THEN n - 1 ELSE 0

RowLater(row) ==
    [status |-> row.status, attempts |-> row.attempts, wait |-> Elapsed(row.wait),
     lease |-> row.lease, ttl |-> Elapsed(row.ttl)]

WorkerLater(state) ==
    [pc |-> state.pc, job |-> state.job, lease |-> state.lease,
     attempt |-> state.attempt, outcome |-> state.outcome, at |-> Elapsed(state.at)]

Tick ==
    /\ job' = [j \in Jobs |-> RowLater(job[j])]
    /\ worker' = [w \in Workers |-> WorkerLater(worker[w])]
    /\ Requeue({})
    /\ UNCHANGED <<cursor, selected>>

Poll(w) == ClaimNone(w) \/ \E j \in Jobs : ClaimJob(w, j)

Finish(w) == \E outcome \in {"ok", "error", "reschedule"} :
                \E at \in ReturnTimes(w, outcome) : HandlerReturns(w, outcome, at)

Report(w) == Complete(w) \/ Retry(w) \/ Reschedule(w)

Fail(w) == Crash(w) \/ ClaimFails(w)

WorkerStep(w) == Poll(w) \/ Finish(w) \/ Report(w) \/ Fail(w)

Next ==
    \/ \E j \in Jobs : \E delay \in Delays : Schedule(j, delay)
    \/ \E w \in Workers : WorkerStep(w)
    \/ \E j \in Jobs : Replay(j)
    \/ CleanupSelect
    \/ \E j \in Jobs : CleanupDelete(j)
    \/ Tick

Spec == Init /\ [][Next]_vars

-----------------------------------------------------------------------------
(* Properties.                                                             *)

\* Every variable keeps its type (rows as migration 10 declares them).
TypeOK ==
    /\ job \in [Jobs -> Row]
    /\ ahead \in [Jobs -> SUBSET Jobs]
    /\ worker \in [Workers -> WorkerState]
    /\ cursor \in [Workers -> Queues]
    /\ selected \in SUBSET Jobs

\* No UPDATE of the store or of an enqueuer trips background_jobs_state_check
\* (migrations/000010): a row has a lease exactly when it is running.
StateCheck ==
    \A j \in Jobs :
        /\ (job[j].status = "running") <=> (job[j].lease # NoLease)
        /\ job[j].status # "running" => job[j].ttl = 0

\* The attempt budget: a pending row can always be claimed once its time comes
\* (none waits for ever with its attempts used up, also after Reschedule and
\* Retry), a running one is within its budget, and only an exhausted job is
\* dead-lettered.
AttemptBudget ==
    \A j \in Jobs :
        /\ job[j].status = "pending" => job[j].attempts < MaxAttempts
        /\ job[j].status = "running" => job[j].attempts \in 1 .. MaxAttempts
        /\ job[j].status = "dead_lettered" => job[j].attempts = MaxAttempts

\* Of the workers that still run a job (superseded ones included) at most one
\* can report on it, and that one has the row's attempt number, so that what
\* Retry returns (job.Attempt >= job.MaxAttempts) is what its UPDATE did.
SoleOwner ==
    \A w \in Workers :
        Owns(w) => /\ worker[w].attempt = job[worker[w].job].attempts
                   /\ \A v \in Workers :
                         Owns(v) /\ worker[v].job = worker[w].job => v = w

\* A lease that has not expired is only given up by the worker that holds it,
\* or when the job is re-armed or its row removed: no other worker takes the
\* job over, and no attempt of a superseded worker ends it.
LeaseRespected ==
    [][\A j \in Jobs :
          job[j].status = "running" /\ job[j].ttl > 0 /\ job'[j].lease # job[j].lease
          => \/ \E w \in Workers : Owns(w) /\ worker[w].job = j /\ worker'[w] = IdleWorker
             \/ job'[j].status = "absent"
             \/ j \in Rearmable /\ job'[j] \in {PendingRow(d) : d \in Delays}]_vars

=============================================================================
