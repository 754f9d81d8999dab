------------------------ MODULE BackgroundJobsProofs ------------------------
(***************************************************************************)
(* Proofs about BackgroundJobs, for any sets of jobs, queues, workers and  *)
(* leases, any attempt bound, lease duration and delays.                   *)
(***************************************************************************)
EXTENDS BackgroundJobs, TLAPS

\* What the fencing by lease_uid rests on: an idle worker holds nothing, no two
\* workers hold the same lease, and a lease that is in a row is held, if at all,
\* by a worker that runs that job and knows its attempt number.
LeaseInv ==
    /\ \A w \in Workers :
          IF worker[w].pc = "idle" THEN worker[w] = IdleWorker
          ELSE worker[w].job \in Jobs /\ worker[w].lease \in Leases
    /\ \A v, w \in Workers :
          worker[v].lease = worker[w].lease /\ worker[v].lease # NoLease => v = w
    /\ \A w \in Workers, j \in Jobs :
          job[j].lease = worker[w].lease /\ job[j].lease # NoLease
          => worker[w].job = j /\ worker[w].attempt = job[j].attempts

IInv == TypeOK /\ StateCheck /\ AttemptBudget /\ LeaseInv

-----------------------------------------------------------------------------
\* The delays a failed job is given are natural numbers (backgroundJobRetryDelay).
LEMMA RetryDelaysNat ==
    ASSUME NEW attempt \in Nat
    PROVE  RetryDelays(attempt) \subseteq Nat
<1> DEFINE k == IF attempt < 1 THEN 1 ELSE IF attempt > 9 THEN 9 ELSE attempt
<1>1. k \in 1 .. 9
  OBVIOUS
<1>2. BackoffBase[k] \in Nat
  BY <1>1 DEF BackoffBase
<1> HIDE DEF k
<1>3. BackoffBase[k] .. BackoffBase[k] + (BackoffBase[k] \div 4) \subseteq Nat
  BY <1>2
<1> QED
  BY <1>3 DEF RetryDelays, k

\* The row-level statements of the store keep a row's type.
LEMMA RowTypes ==
    ASSUME NEW row \in Row, NEW d \in Nat, NEW l \in Leases
    PROVE  /\ AbsentRow \in Row
           /\ PendingRow(d) \in Row
           /\ ReapExhausted(row) \in Row
           /\ ClaimRow(row, l) \in Row
           /\ CompleteRow(row) \in Row
           /\ RetryRow(row, d) \in Row
           /\ RescheduleRow(row, d) \in Row
<1> USE JobsAssumption DEF JobsAssumption, Row, Statuses
<1>1. \A s \in Statuses : Released(row, s) \in Row
  BY DEF Released
<1>2. AbsentRow \in Row /\ PendingRow(d) \in Row
  BY DEF AbsentRow, PendingRow
<1>3. ReapExhausted(row) \in Row
  <2>1. Released(row, "dead_lettered") \in Row
    BY <1>1
  <2> QED
    BY <2>1 DEF ReapExhausted
<1>4. ClaimRow(row, l) \in Row
  BY DEF ClaimRow
<1>5. CompleteRow(row) \in Row
  BY <1>1 DEF CompleteRow
<1>6. RetryRow(row, d) \in Row
  <2>1. Released(row, "dead_lettered") \in Row /\ Released(row, "pending") \in Row
    BY <1>1
  <2>2. [Released(row, "pending") EXCEPT !.wait = d] \in Row
    BY <2>1
  <2> QED
    BY <2>1, <2>2 DEF RetryRow
<1>7. RescheduleRow(row, d) \in Row
  BY <1>2 DEF RescheduleRow
<1> QED
  BY <1>2, <1>3, <1>4, <1>5, <1>6, <1>7

\* A row satisfies the CHECK constraint and the attempt budget on its own.
RowOK(row) ==
    /\ (row.status = "running") <=> (row.lease # NoLease)
    /\ row.status # "running" => row.ttl = 0
    /\ row.status = "pending" => row.attempts < MaxAttempts
    /\ row.status = "running" => row.attempts \in 1 .. MaxAttempts
    /\ row.status = "dead_lettered" => row.attempts = MaxAttempts

\* ... and the statements of the store keep it so.
LEMMA RowsOK ==
    ASSUME NEW row \in Row, RowOK(row), NEW d \in Nat, NEW l \in Leases
    PROVE  /\ RowOK(AbsentRow)
           /\ RowOK(PendingRow(d))
           /\ RowOK(ReapExhausted(row))
           /\ Claimable(row) => RowOK(ClaimRow(row, l))
           /\ row.status = "running" => RowOK(CompleteRow(row))
           /\ row.status = "running" => RowOK(RetryRow(row, d))
           /\ row.status = "running" => RowOK(RescheduleRow(row, d))
<1> USE JobsAssumption DEF JobsAssumption, Row, Statuses, RowOK
<1>1. RowOK(AbsentRow) /\ RowOK(PendingRow(d))
  BY DEF AbsentRow, PendingRow
<1>2. RowOK(ReapExhausted(row))
  BY DEF ReapExhausted, Abandoned, Released
<1>3. Claimable(row) => RowOK(ClaimRow(row, l))
  BY DEF Claimable, Abandoned, ClaimRow
<1>4. row.status = "running" => RowOK(CompleteRow(row))
  BY DEF CompleteRow, Released
<1>5. row.status = "running" => RowOK(RetryRow(row, d))
  BY DEF RetryRow, Released
<1>6. row.status = "running" => RowOK(RescheduleRow(row, d))
  BY DEF RescheduleRow, PendingRow
<1> QED
  BY <1>1, <1>2, <1>3, <1>4, <1>5, <1>6

LEMMA ChecksAreRowOK ==
    StateCheck /\ AttemptBudget <=> \A j \in Jobs : RowOK(job[j])
BY DEF StateCheck, AttemptBudget, RowOK

\* The bookkeeping of available_at order keeps its type.
LEMMA RequeueType ==
    ASSUME NEW moved, TypeOK, Requeue(moved)
    PROVE  ahead' \in [Jobs -> SUBSET Jobs]
BY DEF Requeue, TypeOK

-----------------------------------------------------------------------------
\* A step that only replaces one row by one without a lease (scheduling,
\* replay, cleanup) keeps the invariant.
LEMMA RowReplaced ==
    ASSUME IInv, NEW j \in Jobs, NEW r \in Row, RowOK(r), r.lease = NoLease,
           job' = [job EXCEPT ![j] = r], ahead' \in [Jobs -> SUBSET Jobs],
           worker' = worker, cursor' = cursor, selected' \in SUBSET Jobs
    PROVE  IInv'
<1>1. TypeOK'
  BY DEF IInv, TypeOK
<1>2. \A k \in Jobs : RowOK(job'[k])
  BY ChecksAreRowOK DEF IInv, TypeOK
<1>3. StateCheck' /\ AttemptBudget'
  BY <1>2 DEF StateCheck, AttemptBudget, RowOK
<1>4. LeaseInv'
  BY DEF IInv, TypeOK, LeaseInv
<1> QED
  BY <1>1, <1>3, <1>4 DEF IInv

\* A report, fenced or lost, keeps the invariant.
LEMMA ReleaseStep ==
    ASSUME IInv, NEW w \in Workers, NEW r, Release(w, r),
           Owns(w) => r \in Row /\ RowOK(r) /\ r.lease = NoLease
    PROVE  IInv'
<1> USE DEF Release
<1>1. IdleWorker \in WorkerState
  BY DEF IdleWorker, WorkerState, Outcomes
<1>2. job' \in [Jobs -> Row]
  BY DEF IInv, TypeOK, Owns
<1>3. TypeOK'
  BY <1>1, <1>2, RequeueType DEF IInv, TypeOK
<1>4. \A k \in Jobs : RowOK(job'[k])
  BY ChecksAreRowOK DEF IInv, TypeOK, Owns
<1>5. StateCheck' /\ AttemptBudget'
  BY <1>4 DEF StateCheck, AttemptBudget, RowOK
<1>6. \A k \in Jobs : job'[k] = job[k] \/ job'[k].lease = NoLease
  BY DEF IInv, TypeOK, Owns
<1>7. \A v \in Workers : worker'[v] = IF v = w THEN IdleWorker ELSE worker[v]
  BY DEF IInv, TypeOK
<1>8. LeaseInv'
  BY <1>6, <1>7 DEF IInv, TypeOK, LeaseInv, IdleWorker
<1> QED
  BY <1>3, <1>5, <1>8 DEF IInv

LEMMA ScheduleStep ==
    ASSUME IInv, NEW j \in Jobs, NEW delay \in Delays, Schedule(j, delay)
    PROVE  IInv'
<1>1. PendingRow(delay) \in Row /\ RowOK(PendingRow(delay)) /\ PendingRow(delay).lease = NoLease
  BY JobsAssumption DEF JobsAssumption, PendingRow, Row, Statuses, RowOK
<1>2. ahead' \in [Jobs -> SUBSET Jobs]
  BY RequeueType DEF Schedule, IInv
<1> QED
  BY <1>1, <1>2, RowReplaced DEF Schedule, IInv, TypeOK

LEMMA ReplayStep ==
    ASSUME IInv, NEW j \in Jobs, Replay(j)
    PROVE  IInv'
<1>1. PendingRow(0) \in Row /\ RowOK(PendingRow(0)) /\ PendingRow(0).lease = NoLease
  BY JobsAssumption DEF JobsAssumption, PendingRow, Row, Statuses, RowOK
<1>2. ahead' \in [Jobs -> SUBSET Jobs]
  BY RequeueType DEF Replay, IInv
<1> QED
  BY <1>1, <1>2, RowReplaced DEF Replay, IInv, TypeOK

LEMMA CleanupStep ==
    ASSUME IInv, NEW j \in Jobs, CleanupDelete(j)
    PROVE  IInv'
<1>1. AbsentRow \in Row /\ RowOK(AbsentRow) /\ AbsentRow.lease = NoLease
  BY JobsAssumption DEF JobsAssumption, AbsentRow, Row, Statuses, RowOK
<1>2. ahead' \in [Jobs -> SUBSET Jobs]
  BY RequeueType DEF CleanupDelete, IInv
<1> QED
  BY <1>1, <1>2, RowReplaced DEF CleanupDelete, IInv, TypeOK

LEMMA ReportStep ==
    ASSUME IInv, NEW w \in Workers, Report(w)
    PROVE  IInv'
<1> DEFINE row == job[worker[w].job]
<1>1. Owns(w) => row \in Row /\ RowOK(row) /\ row.status = "running"
  BY ChecksAreRowOK DEF IInv, TypeOK, Owns
<1>2. worker[w].at \in Nat
  BY DEF IInv, TypeOK, WorkerState
<1>3. CASE Complete(w)
  <2>1. Owns(w) => /\ CompleteRow(row) \in Row /\ RowOK(CompleteRow(row))
                   /\ CompleteRow(row).lease = NoLease
    BY <1>1 DEF CompleteRow, Released, Row, Statuses, RowOK
  <2> QED
    BY <2>1, <1>3, ReleaseStep DEF Complete
<1>4. CASE Retry(w)
  <2>1. Owns(w) => /\ RetryRow(row, worker[w].at) \in Row
                   /\ RowOK(RetryRow(row, worker[w].at))
                   /\ RetryRow(row, worker[w].at).lease = NoLease
    BY <1>1, <1>2, JobsAssumption
       DEF JobsAssumption, RetryRow, Released, Row, Statuses, RowOK
  <2> QED
    BY <2>1, <1>4, ReleaseStep DEF Retry
<1>5. CASE Reschedule(w)
  <2>1. Owns(w) => /\ RescheduleRow(row, worker[w].at) \in Row
                   /\ RowOK(RescheduleRow(row, worker[w].at))
                   /\ RescheduleRow(row, worker[w].at).lease = NoLease
    BY <1>1, <1>2, JobsAssumption
       DEF JobsAssumption, RescheduleRow, PendingRow, Row, Statuses, RowOK
  <2> QED
    BY <2>1, <1>5, ReleaseStep DEF Reschedule
<1> QED
  BY <1>3, <1>4, <1>5 DEF Report

\* Dead-lettering abandoned last attempts only takes leases out of rows.
LEMMA ReapedRows ==
    ASSUME IInv, NEW w \in Workers
    PROVE  /\ Reaped(w) \in [Jobs -> Row]
           /\ \A j \in Jobs : RowOK(Reaped(w)[j])
           /\ \A j \in Jobs : Reaped(w)[j] = job[j] \/ Reaped(w)[j].lease = NoLease
<1>1. SUFFICES ASSUME NEW j \in Jobs
               PROVE  /\ ReapExhausted(job[j]) \in Row
                      /\ RowOK(job[j]) /\ RowOK(ReapExhausted(job[j]))
                      /\ \/ ReapExhausted(job[j]) = job[j]
                         \/ ReapExhausted(job[j]).lease = NoLease
  BY DEF Reaped, IInv, TypeOK
<1>2. job[j] \in Row /\ RowOK(job[j])
  BY ChecksAreRowOK DEF IInv, TypeOK
<1> QED
  BY <1>2, JobsAssumption
     DEF JobsAssumption, ReapExhausted, Released, Abandoned, Row, Statuses, RowOK

LEMMA ClaimNoneStep ==
    ASSUME IInv, NEW w \in Workers, ClaimNone(w)
    PROVE  IInv'
<1>1. TypeOK'
  <2>1. cursor' \in [Workers -> Queues]
    BY JobsAssumption DEF JobsAssumption, ClaimNone, IInv, TypeOK, Queues
  <2> QED
    BY <2>1, ReapedRows, RequeueType DEF ClaimNone, IInv, TypeOK
<1>2. StateCheck' /\ AttemptBudget'
  BY ReapedRows DEF ClaimNone, StateCheck, AttemptBudget, RowOK
<1>3. LeaseInv'
  BY ReapedRows DEF ClaimNone, IInv, LeaseInv
<1> QED
  BY <1>1, <1>2, <1>3 DEF IInv

LEMMA ClaimJobStep ==
    ASSUME IInv, NEW w \in Workers, NEW j \in Jobs, ClaimJob(w, j)
    PROVE  IInv'
<1> DEFINE lease == CHOOSE l \in Leases \ LeasesInUse : TRUE
           claimed == ClaimRow(Reaped(w)[j], lease)
<1>1. lease \in Leases /\ lease \notin LeasesInUse
  BY DEF ClaimJob
<1>2. lease # NoLease
  BY <1>1, JobsAssumption DEF JobsAssumption
<1> HIDE DEF lease
<1>3. job' = [Reaped(w) EXCEPT ![j] = claimed]
  BY DEF ClaimJob, lease
<1>4. Reaped(w)[j] \in Row /\ RowOK(Reaped(w)[j]) /\ Claimable(Reaped(w)[j])
  BY ReapedRows DEF ClaimJob, Oldest, Candidates
<1>5. claimed \in Row /\ RowOK(claimed) /\ claimed.lease = lease
  BY <1>1, <1>2, <1>4, JobsAssumption
     DEF JobsAssumption, ClaimRow, Claimable, Abandoned, Row, Statuses, RowOK
<1> HIDE DEF claimed
<1>6. \A k \in Jobs : job'[k] = IF k = j THEN claimed ELSE Reaped(w)[k]
  BY <1>3, ReapedRows
<1>7. \A v \in Workers : worker'[v] =
         IF v = w THEN [pc |-> "handling", job |-> j, lease |-> lease,
                        attempt |-> claimed.attempts, outcome |-> "none", at |-> 0]
         ELSE worker[v]
  BY <1>6 DEF ClaimJob, lease, IInv, TypeOK
<1>8. TypeOK'
  <2>1. job' \in [Jobs -> Row]
    BY <1>3, <1>5, ReapedRows
  <2>2. claimed.attempts \in Nat
    BY <1>5 DEF Row
  <2>3. worker' \in [Workers -> WorkerState]
    BY <1>1, <1>7, <2>2 DEF ClaimJob, IInv, TypeOK, WorkerState, Outcomes
  <2>4. cursor' \in [Workers -> Queues]
    BY JobsAssumption DEF JobsAssumption, ClaimJob, IInv, TypeOK, Queues
  <2> QED
    BY <2>1, <2>3, <2>4, RequeueType DEF ClaimJob, IInv, TypeOK
<1>9. StateCheck' /\ AttemptBudget'
  <2>1. \A k \in Jobs : RowOK(job'[k])
    BY <1>5, <1>6, ReapedRows
  <2> QED
    BY <2>1 DEF StateCheck, AttemptBudget, RowOK
<1>10. LeaseInv'
  <2>1. \A k \in Jobs : job[k].lease # lease
    BY <1>1 DEF LeasesInUse
  <2>2. \A v \in Workers : worker[v].lease # lease
    BY <1>1 DEF LeasesInUse
  <2>3. \A k \in Jobs : k # j => job'[k] = job[k] \/ job'[k].lease = NoLease
    BY <1>6, ReapedRows
  <2>4. job'[j] = claimed /\ claimed.lease = lease
    BY <1>5, <1>6
  <2>5. \A v \in Workers :
          IF worker'[v].pc = "idle" THEN worker'[v] = IdleWorker
          ELSE worker'[v].job \in Jobs /\ worker'[v].lease \in Leases
    BY <1>1, <1>7 DEF IInv, LeaseInv
  <2>6. \A v, u \in Workers :
          worker'[v].lease = worker'[u].lease /\ worker'[v].lease # NoLease => v = u
    BY <1>7, <2>2 DEF IInv, LeaseInv
  <2>7. \A v \in Workers, k \in Jobs :
          job'[k].lease = worker'[v].lease /\ job'[k].lease # NoLease
          => worker'[v].job = k /\ worker'[v].attempt = job'[k].attempts
    BY <1>7, <2>1, <2>2, <2>3, <2>4 DEF IInv, LeaseInv
  <2> QED
    BY <2>5, <2>6, <2>7 DEF LeaseInv
<1> QED
  BY <1>8, <1>9, <1>10 DEF IInv

LEMMA FinishStep ==
    ASSUME IInv, NEW w \in Workers, Finish(w)
    PROVE  IInv'
<1>1. PICK o \in {"ok", "error", "reschedule"} :
         \E at \in ReturnTimes(w, o) : HandlerReturns(w, o, at)
  BY DEF Finish
<1>2. PICK at \in ReturnTimes(w, o) : HandlerReturns(w, o, at)
  BY <1>1
<1>3. worker[w].attempt \in Nat
  BY DEF IInv, TypeOK, WorkerState
<1>4. at \in Nat
  BY <1>2, <1>3, RetryDelaysNat, JobsAssumption DEF JobsAssumption, ReturnTimes
<1>5. \A v \in Workers : worker'[v] =
         IF v = w THEN [pc |-> "reporting", job |-> worker[v].job,
                        lease |-> worker[v].lease, attempt |-> worker[v].attempt,
                        outcome |-> o, at |-> at]
         ELSE worker[v]
  BY <1>2 DEF HandlerReturns, IInv, TypeOK
<1>6. worker' \in [Workers -> WorkerState]
  BY <1>2, <1>4, <1>5 DEF HandlerReturns, IInv, TypeOK, WorkerState, Outcomes
<1>7. TypeOK' /\ StateCheck' /\ AttemptBudget'
  BY <1>2, <1>6 DEF HandlerReturns, IInv, TypeOK, StateCheck, AttemptBudget
<1>8. worker[w].pc = "handling"
  BY <1>2 DEF HandlerReturns
<1>9. \A v \in Workers : /\ worker'[v].job = worker[v].job
                         /\ worker'[v].lease = worker[v].lease
                         /\ worker'[v].attempt = worker[v].attempt
                         /\ v # w => worker'[v] = worker[v]
                         /\ v = w => worker'[v].pc = "reporting"
  <2>1. ASSUME NEW v \in Workers, v = w
        PROVE  /\ worker'[v].job = worker[v].job /\ worker'[v].lease = worker[v].lease
               /\ worker'[v].attempt = worker[v].attempt /\ worker'[v].pc = "reporting"
    <3>1. worker'[w] = [pc |-> "reporting", job |-> worker[w].job,
                        lease |-> worker[w].lease, attempt |-> worker[w].attempt,
                        outcome |-> o, at |-> at]
      BY <1>5
    <3> QED
      BY <2>1, <3>1
  <2>2. ASSUME NEW v \in Workers, v # w PROVE worker'[v] = worker[v]
    BY <1>5, <2>2
  <2> QED
    BY <2>1, <2>2
<1>10. LeaseInv'
  <2>1. job' = job
    BY <1>2 DEF HandlerReturns
  <2>2. worker[w].job \in Jobs /\ worker[w].lease \in Leases
    BY <1>8 DEF IInv, LeaseInv
  <2>3. \A v \in Workers :
          IF worker'[v].pc = "idle" THEN worker'[v] = IdleWorker
          ELSE worker'[v].job \in Jobs /\ worker'[v].lease \in Leases
    BY <1>9, <2>2 DEF IInv, LeaseInv
  <2> QED
    BY <1>9, <2>1, <2>3 DEF IInv, LeaseInv
<1> QED
  BY <1>7, <1>10 DEF IInv

LEMMA CrashStep ==
    ASSUME IInv, NEW w \in Workers, Crash(w)
    PROVE  IInv'
<1>1. IdleWorker \in WorkerState
  BY DEF IdleWorker, WorkerState, Outcomes
<1>2. TypeOK' /\ StateCheck' /\ AttemptBudget'
  BY <1>1 DEF Crash, IInv, TypeOK, StateCheck, AttemptBudget
<1>3. \A v \in Workers : worker'[v] = IF v = w THEN IdleWorker ELSE worker[v]
  BY DEF Crash, IInv, TypeOK
<1>4. LeaseInv'
  BY <1>3 DEF Crash, IInv, LeaseInv, IdleWorker
<1> QED
  BY <1>2, <1>4 DEF IInv

LEMMA ClaimFailsStep ==
    ASSUME IInv, NEW w \in Workers, ClaimFails(w)
    PROVE  IInv'
<1>1. cursor' \in [Workers -> Queues]
  BY JobsAssumption DEF JobsAssumption, ClaimFails, IInv, TypeOK, Queues
<1> QED
  BY <1>1 DEF ClaimFails, IInv, TypeOK, StateCheck, AttemptBudget, LeaseInv

LEMMA TickStep ==
    ASSUME IInv, Tick
    PROVE  IInv'
<1>1. \A j \in Jobs : /\ job'[j].status = job[j].status
                      /\ job'[j].attempts = job[j].attempts
                      /\ job'[j].lease = job[j].lease
                      /\ job'[j].ttl = Elapsed(job[j].ttl)
                      /\ job'[j] \in Row
  BY DEF Tick, IInv, TypeOK, Row, RowLater, Elapsed
<1>2. \A w \in Workers : /\ worker'[w] \in WorkerState
                         /\ worker'[w].pc = worker[w].pc
                         /\ worker'[w].job = worker[w].job
                         /\ worker'[w].lease = worker[w].lease
                         /\ worker'[w].attempt = worker[w].attempt
                         /\ worker[w] = IdleWorker => worker'[w] = IdleWorker
  BY DEF Tick, IInv, TypeOK, WorkerState, IdleWorker, WorkerLater, Elapsed
<1>3. TypeOK'
  BY <1>1, <1>2, RequeueType DEF Tick, IInv, TypeOK
<1>4. StateCheck' /\ AttemptBudget'
  BY <1>1 DEF IInv, StateCheck, AttemptBudget, Elapsed
<1>5. LeaseInv'
  BY <1>1, <1>2 DEF IInv, LeaseInv
<1> QED
  BY <1>3, <1>4, <1>5 DEF IInv

-----------------------------------------------------------------------------
LEMMA InitInv == Init => IInv
<1> SUFFICES ASSUME Init PROVE IInv
  OBVIOUS
<1>1. TypeOK
  BY DEF Init, TypeOK, AbsentRow, Row, Statuses, IdleWorker, WorkerState, Outcomes, Queues
<1>2. StateCheck /\ AttemptBudget /\ LeaseInv
  BY DEF Init, StateCheck, AttemptBudget, LeaseInv, AbsentRow, IdleWorker
<1> QED
  BY <1>1, <1>2 DEF IInv

LEMMA NextInv == IInv /\ [Next]_vars => IInv'
<1> SUFFICES ASSUME IInv, [Next]_vars PROVE IInv'
  OBVIOUS
<1>1. ASSUME NEW j \in Jobs, NEW delay \in Delays, Schedule(j, delay) PROVE IInv'
  BY <1>1, ScheduleStep
<1>2. ASSUME NEW w \in Workers, WorkerStep(w) PROVE IInv'
  BY <1>2, ClaimNoneStep, ClaimJobStep, FinishStep, ReportStep, CrashStep, ClaimFailsStep
     DEF WorkerStep, Poll, Fail
<1>3. ASSUME NEW j \in Jobs, Replay(j) PROVE IInv'
  BY <1>3, ReplayStep
<1>4. CASE CleanupSelect
  BY <1>4 DEF CleanupSelect, IInv, TypeOK, StateCheck, AttemptBudget, LeaseInv
<1>5. ASSUME NEW j \in Jobs, CleanupDelete(j) PROVE IInv'
  BY <1>5, CleanupStep
<1>6. CASE Tick
  BY <1>6, TickStep
<1>7. CASE UNCHANGED vars
  BY <1>7 DEF vars, IInv, TypeOK, StateCheck, AttemptBudget, LeaseInv
<1> QED
  BY <1>1, <1>2, <1>3, <1>4, <1>5, <1>6, <1>7 DEF Next

\* The inductive invariant holds in every reachable state.
THEOREM Invariance == Spec => []IInv
<1> QED
  BY InitInv, NextInv, PTL DEF Spec

\* Every variable keeps its type.
THEOREM TypeCorrect == Spec => []TypeOK
<1>1. IInv => TypeOK
  BY DEF IInv
<1> QED
  BY <1>1, Invariance, PTL

\* No statement violates background_jobs_state_check.
THEOREM StateCheckHolds == Spec => []StateCheck
<1>1. IInv => StateCheck
  BY DEF IInv
<1> QED
  BY <1>1, Invariance, PTL

\* No pending job is out of attempts, and only exhausted jobs are dead-lettered.
THEOREM AttemptBudgetHolds == Spec => []AttemptBudget
<1>1. IInv => AttemptBudget
  BY DEF IInv
<1> QED
  BY <1>1, Invariance, PTL

\* Of all workers that run a job at most one can report on it, and it knows the
\* row's attempt number.
THEOREM SoleOwnerHolds == Spec => []SoleOwner
<1>1. IInv => SoleOwner
  BY DEF IInv, StateCheck, LeaseInv, SoleOwner, Owns
<1> QED
  BY <1>1, Invariance, PTL

-----------------------------------------------------------------------------
\* A lease that has not expired is only given up by its holder, or when the job
\* is re-armed or removed.
THEOREM LeaseRespectedHolds == Spec => LeaseRespected
<1> DEFINE Kept(j) ==
        job[j].status = "running" /\ job[j].ttl > 0 /\ job'[j].lease # job[j].lease
        => \/ \E w \in Workers : Owns(w) /\ worker[w].job = j /\ worker'[w] = IdleWorker
           \/ job'[j].status = "absent"
           \/ j \in Rearmable /\ job'[j] \in {PendingRow(d) : d \in Delays}
<1>1. ASSUME IInv, [Next]_vars, NEW j \in Jobs PROVE Kept(j)
  <2> USE <1>1
  <2> SUFFICES ASSUME job[j].status = "running", job[j].ttl > 0,
                      job'[j].lease # job[j].lease
               PROVE  \/ \E w \in Workers : Owns(w) /\ worker[w].job = j /\ worker'[w] = IdleWorker
                      \/ job'[j].status = "absent"
                      \/ j \in Rearmable /\ job'[j] \in {PendingRow(d) : d \in Delays}
    OBVIOUS
  <2>1. ASSUME NEW i \in Jobs, NEW delay \in Delays, Schedule(i, delay) PROVE Kept(j)
    BY <2>1 DEF Schedule, IInv, TypeOK
  <2>2. ASSUME NEW w \in Workers PROVE Reaped(w)[j] = job[j] /\ ~Claimable(Reaped(w)[j])
    BY <2>2 DEF Reaped, ReapExhausted, Abandoned, Claimable, IInv, TypeOK, Row
  <2>3. ASSUME NEW w \in Workers, Poll(w) PROVE Kept(j)
    <3>1. CASE ClaimNone(w)
      BY <2>2, <3>1 DEF ClaimNone
    <3>2. ASSUME NEW i \in Jobs, ClaimJob(w, i) PROVE Kept(j)
      <4>1. i # j
        BY <2>2, <3>2 DEF ClaimJob, Oldest, Candidates
      <4>2. job'[j] = Reaped(w)[j]
        BY <3>2, <4>1 DEF ClaimJob, Reaped
      <4> QED
        BY <2>2, <4>2
    <3> QED
      BY <2>3, <3>1, <3>2 DEF Poll
  <2>4. ASSUME NEW w \in Workers, NEW r, Release(w, r) PROVE Kept(j)
    <3>1. CASE Owns(w) /\ worker[w].job = j
      <4>1. worker'[w] = IdleWorker
        BY <2>4 DEF Release, IInv, TypeOK
      <4> QED
        BY <3>1, <4>1
    <3>2. CASE ~(Owns(w) /\ worker[w].job = j)
      BY <2>4, <3>2 DEF Release, IInv, TypeOK
    <3> QED
      BY <3>1, <3>2
  <2>5. ASSUME NEW w \in Workers, WorkerStep(w) PROVE Kept(j)
    BY <2>3, <2>4, <2>5
       DEF WorkerStep, Finish, HandlerReturns, Report, Complete, Retry, Reschedule, Fail, Crash, ClaimFails
  <2>6. ASSUME NEW i \in Jobs, Replay(i) PROVE Kept(j)
    BY <2>6 DEF Replay, IInv, TypeOK
  <2>7. ASSUME NEW i \in Jobs, CleanupDelete(i) PROVE Kept(j)
    BY <2>7 DEF CleanupDelete, IInv, TypeOK, AbsentRow
  <2>8. CASE CleanupSelect \/ UNCHANGED vars
    BY <2>8 DEF CleanupSelect, vars
  <2>9. CASE Tick
    BY <2>9 DEF Tick, RowLater
  <2> QED
    BY <2>1, <2>5, <2>6, <2>7, <2>8, <2>9 DEF Next
<1>2. IInv /\ [Next]_vars => [\A j \in Jobs : Kept(j)]_vars
  BY <1>1
<1> QED
  BY <1>2, Invariance, PTL DEF Spec, LeaseRespected
=============================================================================
