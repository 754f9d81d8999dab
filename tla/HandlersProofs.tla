--------------------------- MODULE HandlersProofs ---------------------------
(***************************************************************************)
(* Proofs about the three handlers of background jobs and their use of the *)
(* job table, for any cases, editors, deliveries, workers and leases and   *)
(* for any limits.  Each handler has an inductive invariant of its own;    *)
(* HandlersInv puts them together along MCHandlers.                        *)
(***************************************************************************)
EXTENDS MCHandlers, FiniteSetTheorems, TLAPS

\* The state of every worker is kept by name.
WorkerTable == worker = [w \in Workers |-> worker[w]]

\* A step that changes the state of worker w and of no other.
OnlyWorker(w) ==
  /\ WorkerTable'
  /\ \A v \in Workers \ {w} : worker'[v] = worker[v]

-----------------------------------------------------------------------------
(* Maintenance.                                                              *)

\* A table that a run had to leave rows in gave a full batch, or is the one whose
\* batch is about to be deleted; a full batch is answered with a minute; only a
\* worker that reports has an outcome.
RunInv(w) ==
  /\ \A t \in left[w] :
       \/ full[w]
       \/ picked[w] # {} /\ M!Cleanups[at[w]] = t /\ Cardinality(picked[w]) = Batch
  /\ worker[w].outcome = "reschedule" =>
       /\ worker[w].pc = "reporting" /\ picked[w] = {}
       /\ worker[w].at \in Nat
       /\ full[w] => worker[w].at <= Minute

RunTypes ==
  /\ WorkerTable
  /\ backlog \in [Stocked -> SUBSET (1 .. MaxRows)]
  /\ at = [w \in Workers |-> at[w]]
  /\ picked = [w \in Workers |-> picked[w]]
  /\ full \in [Workers -> BOOLEAN] /\ left = [w \in Workers |-> left[w]]

MaintenanceInv == RunTypes /\ \A w \in Workers : RunInv(w)

LEMMA MaintenanceInit == M!Init => MaintenanceInv
BY DEF M!Init, M!J!Init, M!J!IdleWorker, MaintenanceInv, RunTypes, RunInv, WorkerTable

\* No run moves.
RunsUnmoved == at' = at /\ picked' = picked /\ full' = full /\ left' = left

\* The run of w is over, or was not begun.
RunOver(w) ==
  /\ at' = [at EXCEPT ![w] = 1]
  /\ picked' = [picked EXCEPT ![w] = {}]
  /\ full' = [full EXCEPT ![w] = FALSE]
  /\ left' = [left EXCEPT ![w] = {}]

LEMMA RunEnded ==
  ASSUME MaintenanceInv, NEW w \in Workers, RunOver(w), OnlyWorker(w), backlog' = backlog,
         worker'[w].outcome # "reschedule"
  PROVE  MaintenanceInv'
<1>1. RunTypes'
  BY DEF MaintenanceInv, RunTypes, RunOver, OnlyWorker
<1>2. RunInv(w)'
  BY DEF MaintenanceInv, RunTypes, RunInv, RunOver
<1>3. ASSUME NEW v \in Workers \ {w} PROVE RunInv(v)'
  BY DEF MaintenanceInv, RunTypes, RunInv, RunOver, OnlyWorker
<1> QED
  BY <1>1, <1>2, <1>3 DEF MaintenanceInv

\* The steps of the worker loop and of the job store leave the backlog alone.
LEMMA MaintenanceLoop ==
  ASSUME MaintenanceInv, NEW w \in Workers,
         M!Poll(w) \/ M!Report(w) \/ M!Crash(w) \/ M!ClaimFails(w)
  PROVE  MaintenanceInv'
<1>1. CASE M!Poll(w)
  <2>1. backlog' = backlog /\ RunsUnmoved
    BY <1>1 DEF M!Poll, M!runVars, RunsUnmoved
  <2>2. \/ worker' = worker
        \/ OnlyWorker(w) /\ worker'[w].outcome = "none"
    BY <1>1 DEF M!Poll, M!J!Poll, M!J!ClaimNone, M!J!ClaimJob, OnlyWorker, MaintenanceInv,
                RunTypes, WorkerTable
  <2> QED
    BY <2>1, <2>2 DEF MaintenanceInv, RunTypes, RunInv, RunsUnmoved, WorkerTable, OnlyWorker
<1>2. CASE M!Report(w) \/ M!Crash(w)
  <2>1. backlog' = backlog /\ RunOver(w)
    BY <1>2 DEF M!Report, M!Crash, M!Fresh, RunOver
  <2>2. worker' = [worker EXCEPT ![w] = M!J!IdleWorker]
    BY <1>2 DEF M!Report, M!Crash, M!J!Report, M!J!Crash, M!J!Complete, M!J!Retry,
                M!J!Reschedule, M!J!Release
  <2>3. OnlyWorker(w) /\ worker'[w].outcome = "none"
    BY <2>2 DEF MaintenanceInv, RunTypes, WorkerTable, OnlyWorker, M!J!IdleWorker
  <2> QED
    BY <2>1, <2>3, RunEnded DEF OnlyWorker
<1>3. CASE M!ClaimFails(w)
  <2>1. backlog' = backlog /\ RunsUnmoved /\ worker' = worker
    BY <1>3 DEF M!ClaimFails, M!J!ClaimFails, M!runVars, RunsUnmoved
  <2> QED
    BY <2>1 DEF MaintenanceInv, RunTypes, RunInv, RunsUnmoved, WorkerTable
<1> QED
  BY <1>1, <1>2, <1>3

\* What ORDER BY ... LIMIT chooses is the whole table or a full batch.
LEMMA WholeOrFull ==
  ASSUME NEW snapshot \in SUBSET (1 .. MaxRows), NEW rows, M!IsBatch(rows, snapshot)
  PROVE  /\ rows \in SUBSET (1 .. MaxRows)
         /\ rows # snapshot => rows # {} /\ Cardinality(rows) = Batch
<1> USE HandlersAssumption DEF HandlersAssumption, M!MaintenanceAssumption
<1>1. IsFiniteSet(1 .. MaxRows)
  BY FS_Interval
<1>2. IsFiniteSet(snapshot) /\ IsFiniteSet(rows) /\ rows \subseteq snapshot
  BY <1>1, FS_Subset DEF M!IsBatch
<1>3. /\ Cardinality(snapshot) \in Nat
      /\ Cardinality(rows) = IF Cardinality(snapshot) < Batch THEN Cardinality(snapshot)
                                                             ELSE Batch
  BY <1>2, FS_CardinalityType DEF M!IsBatch, M!Cardinality, Cardinality
<1>4. Cardinality(rows) = Cardinality(snapshot) => rows = snapshot
  BY <1>2, FS_Subset
<1>5. rows = {} => Cardinality(rows) = 0
  BY FS_EmptySet
<1> QED
  BY <1>2, <1>3, <1>4, <1>5

LEMMA MaintenanceHandle ==
  ASSUME MaintenanceInv, NEW w \in Workers, M!Handle(w)
  PROVE  MaintenanceInv'
<1> USE HandlersAssumption DEF HandlersAssumption, M!MaintenanceAssumption
<1>1. ASSUME NEW i, NEW rows, M!ChooseRows(w, i, rows)
      PROVE  MaintenanceInv'
  <2> DEFINE t == M!Cleanups[i]
  <2>1. /\ M!Running(w) /\ t \in Stocked /\ picked[w] = {} /\ M!IsBatch(rows, backlog[t])
        /\ picked' = [picked EXCEPT ![w] = rows]
        /\ at' = [at EXCEPT ![w] = IF rows = {} THEN i + 1 ELSE i]
        /\ left' = [left EXCEPT ![w] = IF rows # backlog[t] THEN @ \cup {t} ELSE @]
        /\ backlog' = backlog /\ full' = full /\ worker' = worker
    BY <1>1 DEF M!ChooseRows, M!jobVars
  <2>2. rows # backlog[t] => rows # {} /\ Cardinality(rows) = Batch
    BY <2>1, WholeOrFull DEF MaintenanceInv, RunTypes
  <2>3. at'[w] = (IF rows = {} THEN i + 1 ELSE i) /\ picked'[w] = rows
    BY <2>1 DEF MaintenanceInv, RunTypes
  <2>4. M!Cleanups[i] = t
    OBVIOUS
  <2> HIDE DEF t
  <2>5. RunTypes'
    BY <2>1 DEF MaintenanceInv, RunTypes, WorkerTable
  <2>6. RunInv(w)'
    <3>1. ASSUME NEW u \in left'[w]
          PROVE  full'[w] \/ (picked'[w] # {} /\ M!Cleanups[at'[w]] = u
                                             /\ Cardinality(picked'[w]) = Batch)
      <4>1. CASE u \in left[w]
        BY <2>1, <4>1 DEF MaintenanceInv, RunInv
      <4>2. CASE u = t /\ rows # backlog[t]
        BY <2>2, <2>3, <2>4, <4>2
      <4> QED
        BY <2>1, <3>1, <4>1, <4>2 DEF MaintenanceInv, RunTypes
    <3>2. worker'[w].outcome # "reschedule"
      BY <2>1 DEF MaintenanceInv, RunInv, M!Running
    <3> QED
      BY <3>1, <3>2 DEF RunInv
  <2>7. ASSUME NEW v \in Workers \ {w} PROVE RunInv(v)'
    BY <2>1 DEF MaintenanceInv, RunTypes, RunInv
  <2> QED
    BY <2>5, <2>6, <2>7 DEF MaintenanceInv
<1>2. CASE M!DeleteRows(w)
  <2> DEFINE t == M!Cleanups[at[w]]
             n == Cardinality(M!Deleted(w, t))
  <2>1. /\ M!Running(w) /\ picked[w] # {}
        /\ backlog' = [backlog EXCEPT ![t] = @ \ M!Deleted(w, t)]
        /\ full' = [full EXCEPT ![w] = full[w] \/ n = Batch]
        /\ left' = [left EXCEPT ![w] = IF picked[w] \subseteq backlog[t] THEN @ ELSE @ \ {t}]
        /\ picked' = [picked EXCEPT ![w] = {}]
        /\ at' = [at EXCEPT ![w] = @ + 1]
        /\ worker' = worker
    BY <1>2 DEF M!DeleteRows, M!WasFull, M!jobVars, M!Cardinality, Cardinality
  <2>2. picked[w] \subseteq backlog[t] => n = Cardinality(picked[w])
    <3>1. picked[w] \subseteq backlog[t] => M!Deleted(w, t) = picked[w]
      BY DEF M!Deleted
    <3> QED
      BY <3>1
  <2>3. M!Cleanups[at[w]] = t
    OBVIOUS
  <2> HIDE DEF n, t
  <2>4. RunTypes'
    BY <2>1 DEF MaintenanceInv, RunTypes, WorkerTable
  <2>5. RunInv(w)'
    <3>1. ASSUME NEW u \in left'[w] PROVE full'[w]
      <4>1. /\ u \in left[w]
            /\ u = t => picked[w] \subseteq backlog[t]
            /\ full'[w] = (full[w] \/ n = Batch)
        BY <2>1, <3>1 DEF MaintenanceInv, RunTypes
      <4>2. full[w] \/ (u = t /\ Cardinality(picked[w]) = Batch)
        BY <2>3, <4>1 DEF MaintenanceInv, RunInv
      <4> QED
        BY <2>2, <4>1, <4>2
    <3>2. worker'[w].outcome # "reschedule"
      BY <2>1 DEF MaintenanceInv, RunInv, M!Running
    <3> QED
      BY <3>1, <3>2 DEF RunInv
  <2>6. ASSUME NEW v \in Workers \ {w} PROVE RunInv(v)'
    BY <2>1 DEF MaintenanceInv, RunTypes, RunInv
  <2> QED
    BY <2>4, <2>5, <2>6 DEF MaintenanceInv
<1>3. CASE M!RunEnds(w)
  <2>1. /\ M!NextDelay(w) \in Nat
        /\ full[w] => M!NextDelay(w) <= Minute
    BY DEF M!NextDelay
  <2>2. /\ backlog' = backlog /\ RunsUnmoved /\ picked[w] = {}
        /\ OnlyWorker(w)
        /\ worker'[w].pc = "reporting" /\ worker'[w].at = M!NextDelay(w)
    BY <1>3 DEF M!RunEnds, M!J!HandlerReturns, M!runVars, RunsUnmoved, OnlyWorker, MaintenanceInv,
                RunTypes, WorkerTable
  <2> QED
    BY <2>1, <2>2 DEF MaintenanceInv, RunTypes, RunInv, RunsUnmoved, WorkerTable, OnlyWorker
<1>4. CASE M!CleanFails(w)
  <2>1. backlog' = backlog /\ RunOver(w)
    BY <1>4 DEF M!CleanFails, M!Fresh, RunOver
  <2>2. PICK delay : M!J!HandlerReturns(w, "error", delay)
    BY <1>4 DEF M!CleanFails
  <2>3. OnlyWorker(w) /\ worker'[w].outcome = "error"
    BY <2>2 DEF M!J!HandlerReturns, OnlyWorker, MaintenanceInv, RunTypes, WorkerTable
  <2> QED
    BY <2>1, <2>3, RunEnded
<1> QED
  BY <1>1, <1>2, <1>3, <1>4 DEF M!Handle

LEMMA MaintenanceStep ==
  ASSUME MaintenanceInv, M!Next
  PROVE  MaintenanceInv'
<1>1. ASSUME NEW t \in Stocked, NEW r \in 1 .. MaxRows, M!Expire(t, r) \/ M!Vanish(t, r)
      PROVE  MaintenanceInv'
  <2>1. RunsUnmoved /\ worker' = worker
    BY <1>1 DEF M!Expire, M!Vanish, M!runVars, M!jobVars, RunsUnmoved
  <2>2. backlog' \in [Stocked -> SUBSET (1 .. MaxRows)]
    BY <1>1 DEF M!Expire, M!Vanish, MaintenanceInv, RunTypes
  <2> QED
    BY <2>1, <2>2 DEF MaintenanceInv, RunTypes, RunInv, RunsUnmoved, WorkerTable
<1>2. CASE M!EnsureMaintenanceJob
  <2>1. backlog' = backlog /\ RunsUnmoved /\ worker' = worker
    BY <1>2 DEF M!EnsureMaintenanceJob, M!J!Schedule, M!runVars, RunsUnmoved
  <2> QED
    BY <2>1 DEF MaintenanceInv, RunTypes, RunInv, RunsUnmoved, WorkerTable
<1>3. CASE M!Tick
  <2>1. /\ backlog' = backlog /\ RunsUnmoved
        /\ worker' = [w \in Workers |-> M!J!WorkerLater(worker[w])]
    BY <1>3 DEF M!Tick, M!J!Tick, M!runVars, RunsUnmoved
  <2>2. ASSUME NEW w \in Workers
        PROVE  /\ worker'[w].pc = worker[w].pc /\ worker'[w].outcome = worker[w].outcome
               /\ worker'[w].at = M!J!Elapsed(worker[w].at)
    BY <2>1 DEF M!J!WorkerLater
  <2>3. \A n \in Nat : M!J!Elapsed(n) \in Nat /\ M!J!Elapsed(n) <= n
    BY DEF M!J!Elapsed
  <2>4. RunTypes'
    BY <2>1 DEF MaintenanceInv, RunTypes, RunsUnmoved, WorkerTable
  <2>5. ASSUME NEW w \in Workers PROVE RunInv(w)'
    <3>1. Minute \in Nat /\ RunInv(w)
      BY HandlersAssumption DEF MaintenanceInv, HandlersAssumption, M!MaintenanceAssumption
    <3> QED
      BY <2>1, <2>2, <2>3, <3>1 DEF RunInv, RunsUnmoved
  <2> QED
    BY <2>4, <2>5 DEF MaintenanceInv
<1> QED
  BY <1>1, <1>2, <1>3, MaintenanceHandle, MaintenanceLoop DEF M!Next

-----------------------------------------------------------------------------
(* Mail.                                                                     *)

\* The workers that may still send the mail of d: one that has loaded a pending
\* row, or will load it.
MaySend(d) ==
  {w \in E!Overtaken(d) : step[w] = "loaded" \/ (step[w] = "start" /\ ~E!NothingToDo(d))}

\* Before the first worker there is none to come: one mail is due without a
\* doubt, to the worker that has the job.
Due(d) == IF E!Overtaken(d) = {} /\ ~E!NothingToDo(d) THEN 0 ELSE 1

\* Each mail that was or may still be sent, beyond the one that is due, has a
\* doubt to its name, until the count of doubts is at its bound.
Covered(d) ==
  doubts[d] = MaxCopies \/ accepted[d] + Cardinality(MaySend(d)) <= doubts[d] + Due(d)

\* A delivery and its job are inserted together.
InsertedTogether ==
  \A d \in Deliveries :
    delivery[d] = "absent" => job[d].status = "absent" /\ E!Overtaken(d) = {}

EmailInv ==
  /\ WorkerTable
  /\ job = [d \in Deliveries |-> job[d]]
  /\ E!TypeOK
  /\ \A w \in Workers : worker[w].pc # "handling" => step[w] = "start"
  /\ InsertedTogether
  /\ \A d \in Deliveries : Covered(d)

LEMMA EmailInit == E!Init => EmailInv
<1> SUFFICES ASSUME E!Init PROVE EmailInv
  OBVIOUS
<1> USE HandlersAssumption DEF HandlersAssumption, E!EmailAssumption
<1>1. \A w \in Workers : worker[w].pc = "idle"
  BY DEF E!Init, E!J!Init, E!J!IdleWorker
<1>2. \A d \in Deliveries : E!Overtaken(d) = {} /\ MaySend(d) = {}
  BY <1>1 DEF E!Overtaken, MaySend
<1>3. \A d \in Deliveries : Covered(d)
  BY <1>2, FS_EmptySet DEF E!Init, Covered, Due
<1>4. E!TypeOK
  BY DEF E!Init, E!TypeOK
<1>5. /\ WorkerTable /\ job = [d \in Deliveries |-> job[d]]
      /\ \A d \in Deliveries : job[d].status = "absent"
      /\ \A w \in Workers : step[w] = "start"
  BY DEF E!Init, E!J!Init, E!J!AbsentRow, WorkerTable
<1> QED
  BY <1>2, <1>3, <1>4, <1>5 DEF EmailInv, InsertedTogether

\* Of the workers there are finitely many, so those that may send can be counted.
LEMMA Counted ==
  ASSUME NEW d
  PROVE  /\ IsFiniteSet(E!Overtaken(d)) /\ Cardinality(E!Overtaken(d)) \in Nat
         /\ IsFiniteSet(MaySend(d)) /\ Cardinality(MaySend(d)) \in Nat
<1>0. IsFiniteSet(Workers)
  BY HandlersAssumption DEF HandlersAssumption, E!EmailAssumption, E!IsFiniteSet, IsFiniteSet
<1>1. E!Overtaken(d) \subseteq Workers /\ MaySend(d) \subseteq Workers
  BY DEF E!Overtaken, MaySend
<1>2. IsFiniteSet(E!Overtaken(d)) /\ IsFiniteSet(MaySend(d))
  BY <1>0, <1>1, FS_Subset
<1> QED
  BY <1>2, FS_CardinalityType

\* Worker w is no longer at its delivery.
Leaves(w) ==
  /\ OnlyWorker(w)
  /\ worker'[w].pc # "handling"
  /\ step' = [step EXCEPT ![w] = "start"]

LEMMA LeaverGone ==
  ASSUME EmailInv, NEW w \in Workers, Leaves(w), NEW d \in Deliveries
  PROVE  /\ E!Overtaken(d)' = E!Overtaken(d) \ {w}
         /\ delivery'[d] = delivery[d] => MaySend(d)' = MaySend(d) \ {w}
         /\ \A v \in Workers : worker'[v].pc # "handling" => step'[v] = "start"
         /\ step' \in [Workers -> {"start", "loaded", "sent"}]
<1>1. E!Overtaken(d)' = E!Overtaken(d) \ {w}
  BY DEF Leaves, OnlyWorker, E!Overtaken
<1>2. step' \in [Workers -> {"start", "loaded", "sent"}]
  BY DEF Leaves, EmailInv, E!TypeOK
<1>3. \A v \in Workers : worker'[v].pc # "handling" => step'[v] = "start"
  BY DEF Leaves, OnlyWorker, EmailInv, E!TypeOK
<1>4. delivery'[d] = delivery[d] => MaySend(d)' = MaySend(d) \ {w}
  BY <1>1 DEF Leaves, MaySend, E!NothingToDo, EmailInv, E!TypeOK, E!Overtaken
<1> QED
  BY <1>1, <1>2, <1>3, <1>4

\* A worker that leaves without having sent gives up the mail it might have sent.
LEMMA LeaverUnsent ==
  ASSUME EmailInv, NEW w \in Workers, Leaves(w), NEW d \in Deliveries,
         step[w] = "sent" => w \notin E!Overtaken(d),
         delivery'[d] = delivery[d], accepted'[d] = accepted[d], doubts'[d] = doubts[d]
  PROVE  Covered(d)'
<1>1. /\ E!Overtaken(d)' = E!Overtaken(d) \ {w} /\ MaySend(d)' = MaySend(d) \ {w}
  BY LeaverGone
<1>2. Cardinality(MaySend(d)) \in Nat /\ IsFiniteSet(MaySend(d))
  BY Counted
<1>3. Cardinality(MaySend(d)') = IF w \in MaySend(d) THEN Cardinality(MaySend(d)) - 1
                                                     ELSE Cardinality(MaySend(d))
  BY <1>1, <1>2, FS_RemoveElement
<1>4. /\ w \notin MaySend(d) => Due(d)' = Due(d)
      /\ Due(d) \in {0, 1} /\ Due(d)' \in {0, 1}
  <2>1. w \notin MaySend(d) => w \notin E!Overtaken(d) \/ E!NothingToDo(d)
    BY DEF MaySend, EmailInv, E!TypeOK
  <2>2. E!NothingToDo(d)' = E!NothingToDo(d)
    BY DEF E!NothingToDo
  <2> QED
    BY <1>1, <2>1, <2>2 DEF Due
<1>5. accepted[d] \in Nat /\ doubts[d] \in Nat /\ MaxCopies \in Nat
  BY HandlersAssumption DEF EmailInv, E!TypeOK, HandlersAssumption, E!EmailAssumption
<1>6. Covered(d)
  BY DEF EmailInv
<1> QED
  BY <1>2, <1>3, <1>4, <1>5, <1>6 DEF Covered

\* A worker that leaves a doubt behind may have had the mail accepted.
LEMMA LeaverDoubted ==
  ASSUME EmailInv, NEW w \in Workers, Leaves(w), NEW d \in Deliveries,
         delivery'[d] = delivery[d], doubts'[d] = E!Plus(doubts[d], 1),
         \/ accepted'[d] = accepted[d]
         \/ accepted'[d] = accepted[d] + 1 /\ w \in MaySend(d)
  PROVE  Covered(d)'
<1>1. MaySend(d)' = MaySend(d) \ {w}
  BY LeaverGone
<1>2. Cardinality(MaySend(d)) \in Nat /\ IsFiniteSet(MaySend(d))
  BY Counted
<1>3. Cardinality(MaySend(d)') = IF w \in MaySend(d) THEN Cardinality(MaySend(d)) - 1
                                                     ELSE Cardinality(MaySend(d))
  BY <1>1, <1>2, FS_RemoveElement
<1>4. Due(d) \in {0, 1} /\ Due(d)' \in {0, 1}
  BY DEF Due
<1>5. /\ accepted[d] \in Nat /\ doubts[d] \in Nat /\ MaxCopies \in Nat
      /\ doubts[d] <= MaxCopies
  BY HandlersAssumption DEF EmailInv, E!TypeOK, HandlersAssumption, E!EmailAssumption
<1>6. Covered(d)
  BY DEF EmailInv
<1> QED
  BY <1>2, <1>3, <1>4, <1>5, <1>6 DEF Covered, E!Plus

\* What handleBackgroundJob returns ends the delivery of w.
LEMMA ReturnLeaves ==
  ASSUME EmailInv, NEW w \in Workers, NEW outcome, E!Returns(w, outcome)
  PROVE  Leaves(w) /\ job' = job
BY DEF E!Returns, E!J!HandlerReturns, Leaves, OnlyWorker, EmailInv, WorkerTable

\* Nothing moves that MailsCovered or InsertedTogether is about.
LEMMA MailUnmoved ==
  ASSUME EmailInv, WorkerTable', step' = step, accepted' = accepted, doubts' = doubts,
         delivery' = delivery,
         \A v \in Workers : worker'[v].pc = worker[v].pc /\ worker'[v].job = worker[v].job,
         job' = [d \in Deliveries |-> job'[d]],
         \A d \in Deliveries : job[d].status = "absent" => job'[d].status = "absent"
  PROVE  EmailInv'
<1>1. \A d \in Deliveries : E!Overtaken(d)' = E!Overtaken(d)
  BY DEF E!Overtaken
<1>2. \A d \in Deliveries : E!NothingToDo(d)' = E!NothingToDo(d)
  BY DEF E!NothingToDo
<1>3. \A d \in Deliveries : MaySend(d)' = MaySend(d) /\ Due(d)' = Due(d)
  BY <1>1, <1>2 DEF MaySend, Due
<1>4. \A d \in Deliveries : Covered(d)'
  BY <1>3 DEF EmailInv, Covered
<1>5. InsertedTogether' /\ E!TypeOK'
  BY <1>1 DEF EmailInv, InsertedTogether, E!TypeOK
<1> QED
  BY <1>4, <1>5 DEF EmailInv

LEMMA EmailHandle ==
  ASSUME EmailInv, NEW w \in Workers, E!Handle(w)
  PROVE  EmailInv'
<1> USE HandlersAssumption DEF HandlersAssumption, E!EmailAssumption
<1> PICK d \in Deliveries :
      \/ E!LoadNothing(w, d) \/ E!LoadPending(w, d) \/ E!SendFails(w, d)
      \/ E!Send(w, d, TRUE) \/ E!Send(w, d, FALSE)
      \/ E!MarkDelivered(w, d) \/ E!MarkFails(w, d)
  BY DEF E!Handle
<1>0. w \in E!Overtaken(d) /\ \A e \in Deliveries \ {d} : w \notin E!Overtaken(e)
  BY DEF E!LoadNothing, E!LoadPending, E!SendFails, E!Send, E!MarkDelivered, E!MarkFails,
         E!Delivering, E!Overtaken
<1>1. delivery[d] # "absent"
  BY <1>0 DEF EmailInv, InsertedTogether
\* The rest of the invariant, once every delivery is covered.
<1>2. ASSUME Leaves(w), job' = job, accepted' \in [Deliveries -> 0 .. MaxCopies],
             doubts' \in [Deliveries -> 0 .. MaxCopies],
             delivery' = delivery \/ delivery' = [delivery EXCEPT ![d] = "delivered"],
             \A e \in Deliveries : Covered(e)'
      PROVE  EmailInv'
  <2>1. \A e \in Deliveries : E!Overtaken(e)' = E!Overtaken(e) \ {w}
    BY <1>2, LeaverGone
  <2>2. /\ \A v \in Workers : worker'[v].pc # "handling" => step'[v] = "start"
        /\ step' \in [Workers -> {"start", "loaded", "sent"}]
    BY <1>2, LeaverGone
  <2>3. E!TypeOK'
    BY <1>2, <2>2 DEF EmailInv, E!TypeOK
  <2>4. InsertedTogether'
    BY <1>2, <2>1 DEF EmailInv, InsertedTogether, E!TypeOK
  <2> QED
    BY <1>2, <2>2, <2>3, <2>4 DEF EmailInv, Leaves, OnlyWorker
<1>3. CASE E!LoadNothing(w, d) \/ E!SendFails(w, d)
  <2>1. /\ step[w] # "sent" /\ delivery' = delivery /\ accepted' = accepted /\ doubts' = doubts
        /\ \E o : E!Returns(w, o)
    BY <1>3 DEF E!LoadNothing, E!SendFails, E!Delivering
  <2>2. Leaves(w) /\ job' = job
    BY <2>1, ReturnLeaves
  <2>3. \A e \in Deliveries : Covered(e)'
    BY <2>1, <2>2, LeaverUnsent
  <2> QED
    BY <1>2, <2>1, <2>2, <2>3 DEF EmailInv, E!TypeOK
<1>4. CASE E!Send(w, d, FALSE) \/ E!MarkFails(w, d)
  <2>1. /\ delivery' = delivery /\ E!Doubt(d)
        /\ E!Returns(w, "error")
        /\ \/ accepted' = accepted
           \/ /\ accepted' = [accepted EXCEPT ![d] = @ + 1]
              /\ accepted[d] < MaxCopies /\ step[w] = "loaded"
    BY <1>4 DEF E!Send, E!MarkFails, E!Delivering
  <2>2. Leaves(w) /\ job' = job
    BY <2>1, ReturnLeaves
  <2>3. /\ doubts' = [doubts EXCEPT ![d] = E!Plus(doubts[d], 1)]
        /\ E!Plus(doubts[d], 1) \in 0 .. MaxCopies
    BY <2>1 DEF E!Doubt, E!Plus, EmailInv, E!TypeOK
  <2>4. step[w] = "loaded" => w \in MaySend(d)
    BY <1>0 DEF MaySend
  <2>5. /\ accepted' \in [Deliveries -> 0 .. MaxCopies]
        /\ doubts' \in [Deliveries -> 0 .. MaxCopies]
    BY <2>1, <2>3 DEF EmailInv, E!TypeOK
  <2>6. Covered(d)'
    BY <2>1, <2>2, <2>3, <2>4, LeaverDoubted DEF EmailInv, E!TypeOK
  <2>7. ASSUME NEW e \in Deliveries \ {d}
        PROVE  Covered(e)'
    BY <1>0, <2>1, <2>2, <2>3, LeaverUnsent DEF EmailInv, E!TypeOK
  <2> QED
    BY <1>2, <2>1, <2>2, <2>5, <2>6, <2>7
<1>5. CASE E!MarkDelivered(w, d)
  <2>1. /\ E!NothingToDo(d)' /\ accepted' = accepted /\ doubts' = doubts
        /\ delivery' = delivery \/ delivery' = [delivery EXCEPT ![d] = "delivered"]
        /\ E!Returns(w, "ok")
    BY <1>1, <1>5 DEF E!MarkDelivered, E!Marked, E!NothingToDo, EmailInv, E!TypeOK
  <2>2. Leaves(w) /\ job' = job
    BY <2>1, ReturnLeaves
  <2>3. Covered(d)'
    <3>1. MaySend(d)' \subseteq MaySend(d)
      <4>1. E!Overtaken(d)' = E!Overtaken(d) \ {w}
        BY <2>2, LeaverGone
      <4>2. \A v \in E!Overtaken(d)' : step'[v] = step[v]
        BY <2>2, <4>1 DEF Leaves, E!Overtaken, EmailInv, E!TypeOK
      <4> QED
        BY <2>1, <4>1, <4>2 DEF MaySend
    <3>2. /\ Cardinality(MaySend(d)') <= Cardinality(MaySend(d))
          /\ Cardinality(MaySend(d)) \in Nat /\ Cardinality(MaySend(d)') \in Nat
      BY <3>1, Counted, FS_Subset, FS_CardinalityType
    <3>3. Due(d)' = 1 /\ Due(d) \in {0, 1}
      BY <2>1 DEF Due
    <3> QED
      BY <2>1, <3>2, <3>3 DEF Covered, EmailInv, E!TypeOK
  <2>4. ASSUME NEW e \in Deliveries \ {d}
        PROVE  Covered(e)'
    <3>1. delivery'[e] = delivery[e]
      BY <2>1 DEF EmailInv, E!TypeOK
    <3> QED
      BY <1>0, <2>1, <2>2, <3>1, LeaverUnsent
  <2> QED
    BY <1>2, <2>1, <2>2, <2>3, <2>4 DEF EmailInv, E!TypeOK
<1>6. CASE E!LoadPending(w, d) \/ E!Send(w, d, TRUE)
  <2>1. /\ delivery' = delivery /\ doubts' = doubts /\ worker' = worker /\ job' = job
        /\ worker[w].pc = "handling"
    BY <1>6 DEF E!LoadPending, E!Send, E!Delivering, E!jobVars
  <2>2. \/ /\ accepted' = accepted /\ step' = [step EXCEPT ![w] = "loaded"]
           /\ ~E!NothingToDo(d) /\ step[w] = "start"
        \/ /\ accepted' = [accepted EXCEPT ![d] = @ + 1] /\ accepted[d] < MaxCopies
           /\ step' = [step EXCEPT ![w] = "sent"] /\ step[w] = "loaded"
    BY <1>6 DEF E!LoadPending, E!Send, E!Delivering
  <2>3. \A e \in Deliveries : /\ E!Overtaken(e)' = E!Overtaken(e)
                              /\ E!NothingToDo(e)' = E!NothingToDo(e)
                              /\ Due(e)' = Due(e)
    BY <2>1 DEF E!Overtaken, E!NothingToDo, Due
  <2>4. E!TypeOK'
    BY <2>1, <2>2 DEF EmailInv, E!TypeOK
  <2>5. InsertedTogether'
    BY <2>1, <2>3 DEF EmailInv, InsertedTogether
  <2>6. \A v \in Workers : worker'[v].pc # "handling" => step'[v] = "start"
    BY <2>1, <2>2 DEF EmailInv, E!TypeOK
  <2>7. ASSUME NEW e \in Deliveries \ {d}
        PROVE  Covered(e)'
    <3>1. MaySend(e)' = MaySend(e)
      <4>1. \A v \in E!Overtaken(e) : step'[v] = step[v]
        BY <1>0, <2>2 DEF E!Overtaken, EmailInv, E!TypeOK
      <4> QED
        BY <2>3, <4>1 DEF MaySend
    <3>2. accepted'[e] = accepted[e]
      BY <2>2 DEF EmailInv, E!TypeOK
    <3> QED
      BY <2>1, <2>3, <3>1, <3>2 DEF EmailInv, Covered
  <2>8. Covered(d)'
    <3>1. CASE step[w] = "start" /\ accepted' = accepted
      <4>1. MaySend(d)' = MaySend(d)
        BY <1>0, <2>2, <2>3, <3>1 DEF MaySend, EmailInv, E!TypeOK, E!Overtaken
      <4> QED
        BY <2>1, <2>3, <3>1, <4>1 DEF EmailInv, Covered
    <3>2. CASE step[w] = "loaded" /\ accepted' = [accepted EXCEPT ![d] = @ + 1]
      <4>1. MaySend(d)' = MaySend(d) \ {w} /\ w \in MaySend(d)
        BY <1>0, <2>2, <2>3, <3>2 DEF MaySend, EmailInv, E!TypeOK, E!Overtaken
      <4>2. /\ Cardinality(MaySend(d)') = Cardinality(MaySend(d)) - 1
            /\ Cardinality(MaySend(d)) \in Nat
        BY <4>1, Counted, FS_RemoveElement
      <4>3. accepted'[d] = accepted[d] + 1 /\ accepted[d] \in Nat /\ doubts[d] \in Nat
        BY <3>2 DEF EmailInv, E!TypeOK
      <4>4. Due(d) \in {0, 1}
        BY DEF Due
      <4> QED
        BY <2>1, <2>3, <4>2, <4>3, <4>4 DEF EmailInv, Covered
    <3> QED
      BY <2>2, <3>1, <3>2
  <2> QED
    BY <2>1, <2>4, <2>5, <2>6, <2>7, <2>8 DEF EmailInv, WorkerTable
<1> QED
  BY <1>3, <1>4, <1>5, <1>6

\* A job that is not there is not claimed, and reaping leaves it alone.
LEMMA EmailReaped ==
  ASSUME NEW w \in Workers
  PROVE  /\ E!J!Reaped(w) = [d \in Deliveries |-> E!J!Reaped(w)[d]]
         /\ \A d \in Deliveries : job[d].status = "absent" => E!J!Reaped(w)[d].status = "absent"
         /\ E!J!Candidates(w) \subseteq Deliveries
         /\ \A d \in E!J!Candidates(w) : job[d].status # "absent"
<1>1. E!J!Reaped(w) = [d \in Deliveries |-> E!J!Reaped(w)[d]]
  BY DEF E!J!Reaped
<1>2. \A d \in Deliveries : job[d].status = "absent" => E!J!Reaped(w)[d].status = "absent"
  BY DEF E!J!Reaped, E!J!ReapExhausted, E!J!Abandoned
<1> QED
  BY <1>1, <1>2 DEF E!J!Candidates, E!J!Claimable, E!J!Abandoned

\* A claim may repeat what the workers it overtakes are doing.
LEMMA EmailPoll ==
  ASSUME EmailInv, NEW w \in Workers, E!Poll(w)
  PROVE  EmailInv'
<1> USE HandlersAssumption DEF HandlersAssumption, E!EmailAssumption
<1>0. \A X : E!Cardinality(X) = Cardinality(X)
  BY DEF E!Cardinality, Cardinality
<1>1. /\ delivery' = delivery /\ step' = step /\ accepted' = accepted
      /\ doubts' = [d \in Deliveries |->
                      IF worker'[w].job = d
                      THEN E!Plus(doubts[d], Cardinality(E!Overtaken(d))) ELSE doubts[d]]
  BY <1>0 DEF E!Poll
<1>2. ASSUME NEW d \in Deliveries
      PROVE  /\ doubts'[d] \in 0 .. MaxCopies
             /\ doubts'[d] = MaxCopies \/ doubts'[d] >= doubts[d]
             /\ worker'[w].job = d => \/ doubts'[d] = MaxCopies
                                      \/ doubts'[d] = doubts[d] + Cardinality(E!Overtaken(d))
  BY <1>1, Counted DEF E!Plus, EmailInv, E!TypeOK
<1>3. E!TypeOK'
  BY <1>1, <1>2 DEF EmailInv, E!TypeOK
<1>4. \A d \in Deliveries : E!NothingToDo(d)' = E!NothingToDo(d)
  BY <1>1 DEF E!NothingToDo
<1>5. worker[w].pc = "idle" /\ step[w] = "start" /\ \A d : w \notin E!Overtaken(d)
  BY DEF E!Poll, E!J!Poll, E!J!ClaimNone, E!J!ClaimJob, EmailInv, E!Overtaken
<1>6. CASE E!J!ClaimNone(w)
  <2>1. worker' = worker /\ job' = E!J!Reaped(w)
    BY <1>6 DEF E!J!ClaimNone
  <2>2. \A d \in Deliveries : E!Overtaken(d)' = E!Overtaken(d)
    BY <2>1 DEF E!Overtaken
  <2>3. \A d \in Deliveries : MaySend(d)' = MaySend(d) /\ Due(d)' = Due(d)
    BY <1>1, <1>4, <2>2 DEF MaySend, Due
  <2>4. ASSUME NEW d \in Deliveries PROVE Covered(d)'
    <3>1. Cardinality(MaySend(d)) \in Nat /\ Due(d) \in {0, 1} /\ accepted[d] \in Nat
          /\ doubts[d] \in Nat
      BY Counted DEF Due, EmailInv, E!TypeOK
    <3> QED
      BY <1>1, <1>2, <2>3, <3>1 DEF EmailInv, Covered, E!TypeOK
  <2>5. InsertedTogether' /\ job' = [d \in Deliveries |-> job'[d]]
    BY <1>1, <2>1, <2>2, EmailReaped DEF EmailInv, InsertedTogether
  <2> QED
    BY <1>1, <1>3, <2>1, <2>4, <2>5 DEF EmailInv, WorkerTable
<1>7. ASSUME NEW j \in Deliveries, E!J!ClaimJob(w, j) PROVE EmailInv'
  <2>1. /\ OnlyWorker(w) /\ worker'[w].pc = "handling" /\ worker'[w].job = j
    BY <1>7 DEF E!J!ClaimJob, OnlyWorker, EmailInv, WorkerTable
  <2>2. /\ j \in E!J!Candidates(w)
        /\ \E lease : job' = [E!J!Reaped(w) EXCEPT ![j] = E!J!ClaimRow(@, lease)]
    BY <1>7 DEF E!J!ClaimJob, E!J!Oldest
  <2>3. /\ E!Overtaken(j)' = E!Overtaken(j) \cup {w}
        /\ \A d \in Deliveries \ {j} : E!Overtaken(d)' = E!Overtaken(d)
    BY <1>5, <2>1 DEF E!Overtaken, OnlyWorker
  <2>4. /\ MaySend(j)' = IF E!NothingToDo(j) THEN MaySend(j) ELSE MaySend(j) \cup {w}
        /\ \A d \in Deliveries \ {j} : MaySend(d)' = MaySend(d) /\ Due(d)' = Due(d)
    BY <1>1, <1>4, <1>5, <2>3 DEF MaySend, Due
  <2>5. /\ delivery[j] # "absent"
        /\ job' = [d \in Deliveries |-> job'[d]]
        /\ \A d \in Deliveries \ {j} : job[d].status = "absent" => job'[d].status = "absent"
    BY <2>2, EmailReaped DEF EmailInv, InsertedTogether
  <2>6. InsertedTogether'
    BY <1>1, <2>3, <2>5 DEF EmailInv, InsertedTogether
  <2>7. \A v \in Workers : worker'[v].pc # "handling" => step'[v] = "start"
    BY <1>1, <2>1 DEF OnlyWorker, EmailInv
  <2>8. ASSUME NEW d \in Deliveries \ {j} PROVE Covered(d)'
    <3>1. doubts'[d] = doubts[d]
      BY <1>1, <2>1
    <3> QED
      BY <1>1, <2>4, <3>1 DEF EmailInv, Covered
  <2>9. Covered(j)'
    <3>1. /\ Cardinality(MaySend(j)) \in Nat /\ accepted[j] \in Nat /\ doubts[j] \in Nat
          /\ Cardinality(E!Overtaken(j)) \in Nat
      BY Counted DEF EmailInv, E!TypeOK
    <3>2. Cardinality(MaySend(j)') \in Cardinality(MaySend(j)) .. Cardinality(MaySend(j)) + 1
      <4>1. CASE E!NothingToDo(j)
        BY <2>4, <3>1, <4>1
      <4>2. CASE ~E!NothingToDo(j)
        <5>1. MaySend(j)' = MaySend(j) \cup {w} /\ w \notin MaySend(j)
          BY <1>5, <2>4, <4>2 DEF MaySend
        <5>2. Cardinality(MaySend(j)') = Cardinality(MaySend(j)) + 1
          BY <5>1, Counted, FS_AddElement
        <5> QED
          BY <3>1, <5>2
      <4> QED
        BY <4>1, <4>2
    <3>3. Due(j)' = 1
      BY <2>3 DEF Due
    <3>4. CASE E!NothingToDo(j)
      <4>1. MaySend(j)' = MaySend(j) /\ Due(j) = 1
        BY <2>4, <3>4 DEF Due
      <4> QED
        BY <1>1, <1>2, <2>1, <3>1, <3>3, <4>1 DEF EmailInv, Covered
    <3>5. CASE ~E!NothingToDo(j) /\ E!Overtaken(j) = {}
      <4>1. Due(j) = 0
        BY <3>5 DEF Due
      <4> QED
        BY <1>1, <1>2, <3>1, <3>2, <3>3, <4>1 DEF EmailInv, Covered, E!TypeOK
    <3>6. CASE ~E!NothingToDo(j) /\ E!Overtaken(j) # {}
      <4>1. Cardinality(E!Overtaken(j)) # 0
        BY <3>6, Counted, FS_EmptySet
      <4>2. Due(j) = 1
        BY <3>6 DEF Due
      <4> QED
        BY <1>1, <1>2, <2>1, <3>1, <3>2, <3>3, <4>1, <4>2 DEF EmailInv, Covered
    <3> QED
      BY <3>4, <3>5, <3>6
  <2> QED
    BY <1>3, <2>1, <2>5, <2>6, <2>7, <2>8, <2>9 DEF EmailInv, OnlyWorker
<1> QED
  BY <1>6, <1>7 DEF E!Poll, E!J!Poll

LEMMA EmailCrash ==
  ASSUME EmailInv, NEW w \in Workers, E!Crash(w)
  PROVE  EmailInv'
<1> USE HandlersAssumption DEF HandlersAssumption, E!EmailAssumption
<1>1. /\ delivery' = delivery /\ accepted' = accepted /\ job' = job
      /\ doubts' = [d \in Deliveries |->
                      IF E!Delivering(w, d, "sent") THEN E!Plus(doubts[d], 1) ELSE doubts[d]]
  BY DEF E!Crash, E!J!Crash
<1>2. Leaves(w)
  BY DEF E!Crash, E!J!Crash, E!J!IdleWorker, Leaves, OnlyWorker, EmailInv, WorkerTable
<1>3. ASSUME NEW d \in Deliveries PROVE Covered(d)' /\ doubts'[d] \in 0 .. MaxCopies
  <2>1. CASE E!Delivering(w, d, "sent")
    <3>1. doubts'[d] = E!Plus(doubts[d], 1)
      BY <1>1, <2>1
    <3>2. Covered(d)'
      BY <1>1, <1>2, <3>1, LeaverDoubted
    <3> QED
      BY <3>1, <3>2 DEF E!Plus, EmailInv, E!TypeOK
  <2>2. CASE ~E!Delivering(w, d, "sent")
    <3>1. step[w] = "sent" => w \notin E!Overtaken(d)
      BY <2>2 DEF E!Delivering, E!Overtaken
    <3>2. doubts'[d] = doubts[d]
      BY <1>1, <2>2
    <3> QED
      BY <1>1, <1>2, <3>1, <3>2, LeaverUnsent DEF EmailInv, E!TypeOK
  <2> QED
    BY <2>1, <2>2
<1>4. \A d \in Deliveries : E!Overtaken(d)' = E!Overtaken(d) \ {w}
  BY <1>2, LeaverGone
<1>5. /\ \A v \in Workers : worker'[v].pc # "handling" => step'[v] = "start"
      /\ step' \in [Workers -> {"start", "loaded", "sent"}]
  <2>1. step' = [step EXCEPT ![w] = "start"]
    BY <1>2 DEF Leaves
  <2> QED
    BY <1>2, <2>1 DEF Leaves, OnlyWorker, EmailInv, E!TypeOK
<1>6. E!TypeOK'
  BY <1>1, <1>3, <1>5 DEF EmailInv, E!TypeOK
<1>7. InsertedTogether'
  BY <1>1, <1>4 DEF EmailInv, InsertedTogether
<1> QED
  BY <1>1, <1>2, <1>3, <1>5, <1>6, <1>7 DEF EmailInv, Leaves, OnlyWorker

LEMMA EmailReport ==
  ASSUME EmailInv, NEW w \in Workers, E!Report(w)
  PROVE  EmailInv'
<1>1. /\ delivery' = delivery /\ accepted' = accepted /\ doubts' = doubts /\ step' = step
      /\ worker[w].pc = "reporting"
      /\ worker' = [worker EXCEPT ![w] = E!J!IdleWorker]
  BY DEF E!Report, E!mailVars, E!J!Report, E!J!Complete, E!J!Retry, E!J!Reschedule, E!J!Release
<1>2. \E row : job' = IF E!J!Owns(w) THEN [job EXCEPT ![worker[w].job] = row] ELSE job
  BY DEF E!Report, E!J!Report, E!J!Complete, E!J!Retry, E!J!Reschedule, E!J!Release
<1>3. /\ job' = [d \in Deliveries |-> job'[d]]
      /\ \A d \in Deliveries : job[d].status = "absent" => job'[d].status = "absent"
  BY <1>2 DEF E!J!Owns, EmailInv
<1>4. Leaves(w)
  BY <1>1 DEF E!J!IdleWorker, Leaves, OnlyWorker, EmailInv, WorkerTable, E!TypeOK
<1>5. \A d \in Deliveries : w \notin E!Overtaken(d)
  BY <1>1 DEF E!Overtaken
<1>6. \A d \in Deliveries : Covered(d)'
  BY <1>1, <1>4, <1>5, LeaverUnsent
<1>7. \A d \in Deliveries : E!Overtaken(d)' = E!Overtaken(d)
  <2>1. \A d \in Deliveries : E!Overtaken(d)' = E!Overtaken(d) \ {w}
    BY <1>4, LeaverGone
  <2> QED
    BY <1>5, <2>1
<1>8. \A v \in Workers : worker'[v].pc # "handling" => step'[v] = "start"
  BY <1>1 DEF EmailInv, WorkerTable
<1>9. InsertedTogether' /\ E!TypeOK'
  BY <1>1, <1>3, <1>7 DEF EmailInv, InsertedTogether, E!TypeOK
<1> QED
  BY <1>3, <1>4, <1>6, <1>8, <1>9 DEF EmailInv, Leaves, OnlyWorker

\* A row is inserted with its job, or removed after it was delivered: it is as
\* deliverable as before.
LEMMA EmailRows ==
  ASSUME EmailInv, NEW d \in Deliveries,
         E!ScheduleEmailDelivery(d) \/ E!CleanupDelivery(d)
  PROVE  EmailInv'
<1>1. /\ step' = step /\ accepted' = accepted /\ doubts' = doubts /\ worker' = worker
      /\ \/ delivery[d] = "absent" /\ delivery' = [delivery EXCEPT ![d] = "pending"]
         \/ delivery[d] = "delivered" /\ delivery' = [delivery EXCEPT ![d] = "removed"]
  BY DEF E!ScheduleEmailDelivery, E!CleanupDelivery, E!J!Schedule, E!jobVars
<1>2. /\ job' = [e \in Deliveries |-> job'[e]]
      /\ \A e \in Deliveries \ {d} : job'[e] = job[e]
  BY DEF E!ScheduleEmailDelivery, E!CleanupDelivery, E!J!Schedule, E!jobVars, EmailInv
<1>3. \A e \in Deliveries : /\ E!Overtaken(e)' = E!Overtaken(e)
                            /\ E!NothingToDo(e)' = E!NothingToDo(e)
  BY <1>1 DEF E!Overtaken, E!NothingToDo, EmailInv, E!TypeOK
<1>4. \A e \in Deliveries : MaySend(e)' = MaySend(e) /\ Due(e)' = Due(e)
  BY <1>1, <1>3 DEF MaySend, Due
<1>5. \A e \in Deliveries : Covered(e)'
  BY <1>1, <1>4 DEF EmailInv, Covered
<1>6. E!TypeOK'
  BY <1>1 DEF EmailInv, E!TypeOK
<1>7. InsertedTogether'
  BY <1>1, <1>2, <1>3 DEF EmailInv, InsertedTogether, E!TypeOK
<1> QED
  BY <1>1, <1>2, <1>5, <1>6, <1>7 DEF EmailInv, WorkerTable

\* The other steps of the job store leave the mails alone.
LEMMA EmailStore ==
  ASSUME EmailInv,
         \/ \E w \in Workers : E!ClaimFails(w)
         \/ \E d \in Deliveries : E!Replay(d)
         \/ E!CleanupJobs \/ E!Tick
  PROVE  EmailInv'
<1>1. delivery' = delivery /\ step' = step /\ accepted' = accepted /\ doubts' = doubts
  BY DEF E!ClaimFails, E!Replay, E!CleanupJobs, E!Tick, E!mailVars
<1>2. CASE E!Tick
  <2>1. /\ WorkerTable' /\ job' = [d \in Deliveries |-> job'[d]]
        /\ \A v \in Workers : worker'[v].pc = worker[v].pc /\ worker'[v].job = worker[v].job
        /\ \A d \in Deliveries : job'[d].status = job[d].status
    BY <1>2 DEF E!Tick, E!J!Tick, E!J!WorkerLater, E!J!RowLater, WorkerTable
  <2> QED
    BY <1>1, <2>1, MailUnmoved
<1>3. CASE ~E!Tick
  <2>1. worker' = worker
    BY <1>3 DEF E!ClaimFails, E!Replay, E!CleanupJobs, E!J!ClaimFails, E!J!Replay,
                E!J!CleanupSelect, E!J!CleanupDelete
  <2>2. /\ job' = [d \in Deliveries |-> job'[d]]
        /\ \A d \in Deliveries : job[d].status = "absent" => job'[d].status = "absent"
    BY <1>3 DEF E!ClaimFails, E!Replay, E!CleanupJobs, E!J!ClaimFails, E!J!Replay,
                E!J!CleanupSelect, E!J!CleanupDelete, E!J!AbsentRow, EmailInv
  <2> QED
    BY <1>1, <2>1, <2>2, MailUnmoved DEF EmailInv, WorkerTable
<1> QED
  BY <1>2, <1>3

LEMMA EmailStep ==
  ASSUME EmailInv, E!Next
  PROVE  EmailInv'
BY EmailHandle, EmailPoll, EmailCrash, EmailReport, EmailRows, EmailStore DEF E!Next

-----------------------------------------------------------------------------
(* Support cases.                                                            *)

\* A closed case has a retention that is under way, another has none.
RetentionInv ==
  \A c \in Cases :
    IF case[c].status = "closed" THEN case[c].retention \in 0 .. Retention
                                 ELSE case[c].retention = NoTime

\* The version of a row identifies what a reader saw of it.
ViewInv ==
  \A e \in Editors, c \in Cases :
    editor[e].case = c =>
      /\ case[c].status # "absent"
      /\ editor[e].seen.version \in Nat
      /\ S!Exists(c) =>
           /\ editor[e].seen.version <= case[c].version
           /\ editor[e].seen.version = case[c].version => editor[e].seen = S!View(c)

RowsInv ==
  /\ editor = [e \in Editors |-> editor[e]]
  /\ S!RowsOK /\ RetentionInv /\ ViewInv

\* An attempt is counted when its row is claimed.
AttemptsInv ==
  \A c \in Cases : job[c].attempts \in Nat /\ (job[c].status = "running" => job[c].attempts > 0)

\* The job of a closed case is there; it does not wait longer than the case is
\* kept; and a report that counts neither completes it nor postpones it further.
Purgeable(c) ==
  /\ job[c].status \in {"pending", "running", "dead_lettered"}
  /\ job[c].status = "pending" /\ job[c].attempts = 0 => job[c].wait \in 0 .. case[c].retention
  /\ \A w \in Workers :
       S!J!Owns(w) /\ worker[w].job = c /\ worker[w].pc = "reporting"
       => /\ worker[w].outcome # "ok"
          /\ worker[w].outcome = "reschedule" => worker[w].at \in 0 .. case[c].retention

Kept(c) == c \notin orphaned /\ case[c].status = "closed"

JobsInv ==
  /\ WorkerTable
  /\ job = [c \in Cases |-> job[c]]
  /\ AttemptsInv
  /\ \A c \in Cases : Kept(c) => Purgeable(c)

SupportInv == RowsInv /\ JobsInv

\* The inductive invariant gives what the run checks.
LEMMA SupportScheduled == SupportInv => S!ClosedIsScheduled
BY HandlersAssumption DEF SupportInv, RowsInv, JobsInv, RetentionInv, Kept, Purgeable,
   S!ClosedIsScheduled, S!J!Owns, HandlersAssumption, S!SupportAssumption

LEMMA SupportInit == S!Init => SupportInv
<1> SUFFICES ASSUME S!Init PROVE SupportInv
  OBVIOUS
<1> USE HandlersAssumption DEF HandlersAssumption, S!SupportAssumption
<1>1. \A c \in Cases : case[c] = S!GoneCase("absent") /\ S!GoneCase("absent") \in S!Case
  BY DEF S!Init, S!GoneCase, S!Case
<1>2. S!RowsOK
  BY <1>1 DEF S!Init, S!RowsOK
<1>3. RetentionInv
  BY <1>1 DEF RetentionInv, S!GoneCase
<1>4. ViewInv /\ editor = [e \in Editors |-> editor[e]]
  BY DEF S!Init, ViewInv, S!NothingRead
<1>5. WorkerTable /\ job = [c \in Cases |-> job[c]] /\ AttemptsInv
  BY DEF S!Init, S!J!Init, S!J!AbsentRow, WorkerTable, AttemptsInv
<1>6. \A c \in Cases : ~Kept(c)
  BY <1>1 DEF Kept, S!GoneCase
<1> QED
  BY <1>2, <1>3, <1>4, <1>5, <1>6 DEF SupportInv, RowsInv, JobsInv

\* A change of a case that counts its version up is seen by its readers as one.
LEMMA Versioned ==
  ASSUME RowsInv, NEW c \in Cases, S!Exists(c), NEW r \in S!Case,
         case' = [case EXCEPT ![c] = r],
         r.status \in S!LiveStatuses, r.version = case[c].version + 1,
         IF r.status = "closed" THEN r.retention \in 0 .. Retention ELSE r.retention = NoTime,
         editor' = editor, orphaned' \subseteq Cases
  PROVE  RowsInv'
<1>1. /\ case'[c] = r
      /\ \A b \in Cases \ {c} : case'[b] = case[b]
      /\ case' \in [Cases -> S!Case]
  BY DEF RowsInv, S!RowsOK
<1>2. S!RowsOK'
  BY <1>1 DEF RowsInv, S!RowsOK
<1>3. RetentionInv'
  BY <1>1 DEF RowsInv, RetentionInv
<1>4. case[c].version \in Nat /\ r.status # "absent"
  BY DEF RowsInv, S!RowsOK, S!Case, S!LiveStatuses, S!ActiveStatuses
<1>5. ASSUME NEW e \in Editors, editor[e].case = c
      PROVE  /\ case[c].status # "absent" /\ editor[e].seen.version \in Nat
             /\ editor[e].seen.version < case'[c].version
  BY <1>1, <1>4, <1>5 DEF RowsInv, ViewInv
<1>6. \A b \in Cases \ {c} : S!Exists(b)' = S!Exists(b) /\ S!View(b)' = S!View(b)
  BY <1>1 DEF S!Exists, S!View
<1>7. ASSUME NEW e \in Editors, NEW b \in Cases \ {c}, editor[e].case = b
      PROVE  /\ case[b].status # "absent" /\ editor[e].seen.version \in Nat
             /\ S!Exists(b) =>
                  /\ editor[e].seen.version <= case[b].version
                  /\ editor[e].seen.version = case[b].version => editor[e].seen = S!View(b)
  BY <1>7 DEF RowsInv, ViewInv
<1>8. ViewInv'
  BY <1>1, <1>4, <1>5, <1>6, <1>7 DEF ViewInv
<1> QED
  BY <1>2, <1>3, <1>8 DEF RowsInv

\* What is not about a kept case leaves its job as it is.
LEMMA JobsUntouched ==
  ASSUME SupportInv, job' = job, worker' = worker,
         \A c \in Cases : Kept(c)' => Kept(c) /\ case'[c].retention = case[c].retention
  PROVE  JobsInv'
<1>1. \A w \in Workers : S!J!Owns(w)' = S!J!Owns(w)
  BY DEF S!J!Owns
<1>2. ASSUME NEW c \in Cases, Kept(c)' PROVE Purgeable(c)'
  BY <1>1, <1>2 DEF SupportInv, JobsInv, Purgeable
<1> QED
  BY <1>2 DEF SupportInv, JobsInv, WorkerTable, AttemptsInv

\* Messages, attachments and references leave the status, the deadline and the
\* job of a case alone.
LEMMA SupportEdit ==
  ASSUME SupportInv, NEW c \in Cases,
         S!AddMessage(c) \/ S!AddAttachment(c) \/ S!AddReference(c) \/ S!RemoveReference(c)
  PROVE  SupportInv'
<1> USE HandlersAssumption DEF HandlersAssumption, S!SupportAssumption
<1>0. case \in [Cases -> S!Case]
  BY DEF SupportInv, RowsInv, S!RowsOK
<1>1. /\ S!Exists(c) /\ editor' = editor /\ orphaned' = orphaned
      /\ job' = job /\ worker' = worker
  BY DEF S!AddMessage, S!AddAttachment, S!AddReference, S!RemoveReference, S!SetReferences,
         S!Exists, S!LiveStatuses, S!jobVars
<1>2. PICK r \in S!Case : /\ case' = [case EXCEPT ![c] = r]
                          /\ r.status = case[c].status /\ r.retention = case[c].retention
                          /\ r.version = case[c].version + 1
  <2>1. CASE S!AddMessage(c)
    <3>1. S!WithMessage(case[c]) \in S!Case
      BY <1>0, <2>1 DEF S!AddMessage, S!HasRoom, S!WithMessage, S!Case
    <3> QED
      BY <2>1, <3>1 DEF S!AddMessage, S!WithMessage
  <2>2. CASE S!AddAttachment(c)
    <3> DEFINE r == [status |-> case[c].status, retention |-> case[c].retention,
                     messages |-> case[c].messages, attachments |-> case[c].attachments + 1,
                     references |-> case[c].references, version |-> case[c].version + 1]
    <3>1. r \in S!Case
      BY <1>0, <2>2 DEF S!AddAttachment, S!Case
    <3>2. case' = [case EXCEPT ![c] = r]
      BY <2>2 DEF S!AddAttachment
    <3> QED
      BY <3>1, <3>2
  <2>3. ASSUME NEW n \in 0 .. ReferenceLimit, S!SetReferences(c, n)
        PROVE  \E r \in S!Case : /\ case' = [case EXCEPT ![c] = r]
                                 /\ r.status = case[c].status /\ r.retention = case[c].retention
                                 /\ r.version = case[c].version + 1
    <3> DEFINE r == [status |-> case[c].status, retention |-> case[c].retention,
                     messages |-> case[c].messages, attachments |-> case[c].attachments,
                     references |-> n, version |-> case[c].version + 1]
    <3>1. r \in S!Case
      BY <1>0, <2>3 DEF S!Case
    <3>2. case' = [case EXCEPT ![c] = r]
      BY <2>3 DEF S!SetReferences
    <3> QED
      BY <3>1, <3>2
  <2>4. case[c].references \in 0 .. ReferenceLimit
    BY <1>0 DEF S!Case
  <2> QED
    BY <2>1, <2>2, <2>3, <2>4 DEF S!AddReference, S!RemoveReference
<1>3. RowsInv'
  <2>1. /\ r.status \in S!LiveStatuses
        /\ IF r.status = "closed" THEN r.retention \in 0 .. Retention ELSE r.retention = NoTime
    BY <1>1, <1>2 DEF S!Exists, SupportInv, RowsInv, RetentionInv
  <2>2. RowsInv /\ orphaned' \subseteq Cases
    BY <1>1 DEF SupportInv, RowsInv, S!RowsOK
  <2> QED
    BY <1>1, <1>2, <2>1, <2>2, Versioned
<1>4. JobsInv'
  <2>1. \A b \in Cases : Kept(b)' => Kept(b) /\ case'[b].retention = case[b].retention
    BY <1>0, <1>1, <1>2 DEF Kept
  <2> QED
    BY <1>1, <2>1, JobsUntouched
<1> QED
  BY <1>3, <1>4 DEF SupportInv

LEMMA SupportCreate ==
  ASSUME SupportInv, NEW c \in Cases, NEW n \in {0, 1}, S!Create(c, n)
  PROVE  SupportInv'
<1> USE HandlersAssumption DEF HandlersAssumption, S!SupportAssumption
<1> DEFINE r == [status |-> "open", retention |-> NoTime, messages |-> 1,
                 attachments |-> n, references |-> 0, version |-> 1]
<1>1. /\ case[c].status = "absent" /\ case' = [case EXCEPT ![c] = r]
      /\ editor' = editor /\ orphaned' = orphaned /\ job' = job /\ worker' = worker
  BY DEF S!Create, S!jobVars
<1>2. r \in S!Case
  BY DEF S!Case, S!LiveStatuses, S!ActiveStatuses
<1>3. r.status = "open" /\ r.retention = NoTime
  OBVIOUS
<1> HIDE DEF r
<1>4. /\ case'[c] = r /\ case' \in [Cases -> S!Case]
      /\ \A b \in Cases \ {c} : case'[b] = case[b]
  BY <1>1, <1>2 DEF SupportInv, RowsInv, S!RowsOK
<1>5. S!RowsOK' /\ RetentionInv'
  BY <1>1, <1>3, <1>4 DEF SupportInv, RowsInv, S!RowsOK, RetentionInv
<1>6. \A e \in Editors : editor[e].case # c
  BY <1>1 DEF SupportInv, RowsInv, ViewInv
<1>7. ViewInv'
  <2>1. \A b \in Cases \ {c} : S!Exists(b)' = S!Exists(b) /\ S!View(b)' = S!View(b)
    BY <1>4 DEF S!Exists, S!View
  <2> QED
    BY <1>1, <1>4, <1>6, <2>1 DEF SupportInv, RowsInv, ViewInv
<1>8. JobsInv'
  <2>1. \A b \in Cases : Kept(b)' => Kept(b) /\ case'[b].retention = case[b].retention
    BY <1>1, <1>3, <1>4 DEF Kept
  <2> QED
    BY <1>1, <2>1, JobsUntouched
<1> QED
  BY <1>1, <1>5, <1>7, <1>8 DEF SupportInv, RowsInv

LEMMA SupportRead ==
  ASSUME SupportInv, NEW e \in Editors, NEW c \in Cases, S!Read(e, c)
  PROVE  SupportInv'
<1>1. /\ S!Exists(c) /\ case' = case /\ orphaned' = orphaned /\ job' = job /\ worker' = worker
      /\ editor' = [editor EXCEPT ![e] = [case |-> c, seen |-> S!View(c)]]
  BY DEF S!Read, S!jobVars
<1>2. /\ editor' = [d \in Editors |-> editor'[d]]
      /\ editor'[e].case = c /\ editor'[e].seen = S!View(c)
      /\ \A d \in Editors \ {e} : editor'[d] = editor[d]
  BY <1>1 DEF SupportInv, RowsInv
<1>3. S!View(c).version = case[c].version /\ case[c].version \in Nat
      /\ case[c].status # "absent"
  BY <1>1 DEF S!View, SupportInv, RowsInv, S!RowsOK, S!Case, S!Exists, S!LiveStatuses,
              S!ActiveStatuses
<1>4. \A b \in Cases : S!Exists(b)' = S!Exists(b) /\ S!View(b)' = S!View(b)
  BY <1>1 DEF S!Exists, S!View
<1>5. ViewInv'
  BY <1>1, <1>2, <1>3, <1>4 DEF SupportInv, RowsInv, ViewInv
<1>6. S!RowsOK' /\ RetentionInv'
  BY <1>1, <1>2 DEF SupportInv, RowsInv, S!RowsOK, RetentionInv
<1>7. JobsInv'
  BY <1>1, JobsUntouched DEF Kept
<1> QED
  BY <1>2, <1>5, <1>6, <1>7 DEF SupportInv, RowsInv

\* Closing a case, and any later change of it, gives it a job that waits as
\* long as the case is kept, and whoever ran the old one has lost it.
LEMMA Rearmed ==
  ASSUME SupportInv, NEW c \in Cases, S!Rearm(c),
         case'[c].retention \in 0 .. Retention,
         \A b \in Cases \ {c} : Kept(b)' => Kept(b) /\ case'[b].retention = case[b].retention
  PROVE  JobsInv'
<1> USE HandlersAssumption DEF HandlersAssumption, S!SupportAssumption
<1>1. /\ job' = [job EXCEPT ![c] = S!J!PendingRow(case'[c].retention)]
      /\ worker' = worker
  BY DEF S!Rearm, S!J!Schedule
<1>2. /\ job' = [b \in Cases |-> job'[b]]
      /\ job'[c] = S!J!PendingRow(case'[c].retention)
      /\ \A b \in Cases \ {c} : job'[b] = job[b]
  BY <1>1 DEF SupportInv, JobsInv
<1>3. /\ job'[c].status = "pending" /\ job'[c].attempts = 0
      /\ job'[c].wait = case'[c].retention
  BY <1>2 DEF S!J!PendingRow
<1>4. AttemptsInv'
  BY <1>2, <1>3 DEF SupportInv, JobsInv, AttemptsInv
<1>5. \A w \in Workers :
        /\ worker[w].job = c => ~S!J!Owns(w)'
        /\ worker[w].job # c => S!J!Owns(w)' = S!J!Owns(w)
  BY <1>1, <1>2, <1>3 DEF S!J!Owns
<1>6. Purgeable(c)'
  BY <1>1, <1>3, <1>5 DEF Purgeable
<1>7. ASSUME NEW b \in Cases \ {c}, Kept(b)' PROVE Purgeable(b)'
  <2>1. Purgeable(b) /\ case'[b].retention = case[b].retention
    BY <1>7 DEF SupportInv, JobsInv
  <2> QED
    BY <1>1, <1>2, <1>5, <2>1 DEF Purgeable
<1> QED
  BY <1>1, <1>2, <1>4, <1>6, <1>7 DEF SupportInv, JobsInv, WorkerTable

LEMMA SupportUpdate ==
  ASSUME SupportInv, NEW e \in Editors, NEW c \in Cases,
         S!ChangeField(e, c) \/ \E status \in S!LiveStatuses : S!ChangeStatus(e, c, status)
  PROVE  SupportInv'
<1> USE HandlersAssumption DEF HandlersAssumption, S!SupportAssumption
<1>0. /\ case \in [Cases -> S!Case] /\ S!Exists(c) /\ case[c] \in S!Case
      /\ IF case[c].status = "closed" THEN case[c].retention \in 0 .. Retention
                                      ELSE case[c].retention = NoTime
  BY DEF SupportInv, RowsInv, S!RowsOK, RetentionInv, S!ChangeField, S!ChangeStatus, S!Deadline, S!Fresh
<1>1. PICK r \in S!Case :
        /\ case' = [case EXCEPT ![c] = r]
        /\ r.status \in S!LiveStatuses /\ r.version = case[c].version + 1
        /\ IF r.status = "closed" THEN r.retention \in 0 .. Retention ELSE r.retention = NoTime
        /\ IF r.status = "closed" THEN S!Rearm(c) ELSE job' = job /\ worker' = worker
        /\ orphaned' = orphaned \/ orphaned' = orphaned \ {c}
        /\ editor' = editor
  <2>1. CASE S!ChangeField(e, c)
    <3> DEFINE r == [case[c] EXCEPT !.version = case[c].version + 1]
    <3>1. /\ r \in S!Case /\ r.status = case[c].status /\ r.retention = case[c].retention
          /\ r.version = case[c].version + 1
      BY <1>0 DEF S!Case
    <3>2. /\ case' = [case EXCEPT ![c] = r] /\ editor' = editor
          /\ IF case[c].status = "closed" THEN S!Rearm(c) ELSE job' = job /\ worker' = worker
          /\ orphaned' = orphaned \/ orphaned' = orphaned \ {c}
      BY <1>0, <2>1 DEF S!ChangeField, S!jobVars
    <3>3. case[c].status \in S!LiveStatuses
      BY <1>0 DEF S!Exists
    <3> HIDE DEF r
    <3> QED
      BY <1>0, <3>1, <3>2, <3>3
  <2>2. ASSUME NEW status \in S!LiveStatuses, S!ChangeStatus(e, c, status)
        PROVE  \E r \in S!Case :
        /\ case' = [case EXCEPT ![c] = r]
        /\ r.status \in S!LiveStatuses /\ r.version = case[c].version + 1
        /\ IF r.status = "closed" THEN r.retention \in 0 .. Retention ELSE r.retention = NoTime
        /\ IF r.status = "closed" THEN S!Rearm(c) ELSE job' = job /\ worker' = worker
        /\ orphaned' = orphaned \/ orphaned' = orphaned \ {c}
        /\ editor' = editor
    <3> DEFINE r == [status |-> status,
                     retention |-> IF status = "closed" THEN Retention ELSE NoTime,
                     messages |-> case[c].messages, attachments |-> case[c].attachments,
                     references |-> case[c].references, version |-> case[c].version + 1]
    <3>1. r \in S!Case
      BY <1>0 DEF S!Case
    <3>2. /\ case' = [case EXCEPT ![c] = r] /\ editor' = editor
          /\ IF status = "closed" THEN S!Rearm(c) ELSE job' = job /\ worker' = worker
          /\ orphaned' = orphaned \ {c}
      BY <2>2 DEF S!ChangeStatus, S!Deadline, S!jobVars
    <3>3. /\ r.status = status /\ r.version = case[c].version + 1
          /\ IF status = "closed" THEN r.retention \in 0 .. Retention ELSE r.retention = NoTime
      OBVIOUS
    <3> HIDE DEF r
    <3> QED
      BY <3>1, <3>2, <3>3
  <2> QED
    BY <2>1, <2>2
<1>2. RowsInv'
  <2>1. RowsInv /\ orphaned' \subseteq Cases
    BY <1>1 DEF SupportInv, RowsInv, S!RowsOK
  <2> QED
    BY <1>0, <1>1, <2>1, Versioned
<1>3. case'[c] = r /\ \A b \in Cases \ {c} : case'[b] = case[b]
  BY <1>0, <1>1
<1>4. \A b \in Cases \ {c} : Kept(b)' => Kept(b) /\ case'[b].retention = case[b].retention
  BY <1>1, <1>3 DEF Kept
<1>5. CASE r.status = "closed"
  <2>1. JobsInv'
    BY <1>1, <1>3, <1>4, <1>5, Rearmed
  <2> QED
    BY <1>2, <2>1 DEF SupportInv
<1>6. CASE r.status # "closed"
  <2>1. ~Kept(c)'
    BY <1>3, <1>6 DEF Kept
  <2>2. JobsInv'
    BY <1>1, <1>4, <1>6, <2>1, JobsUntouched
  <2> QED
    BY <1>2, <2>2 DEF SupportInv
<1> QED
  BY <1>5, <1>6

\* A handler that returns: what it returned for a kept case is no "ok", and no
\* later deadline than the case's.
LEMMA Returned ==
  ASSUME SupportInv, NEW w \in Workers, NEW outcome, NEW when,
         S!J!HandlerReturns(w, outcome, when),
         \A c \in Cases : Kept(c)' => Kept(c) /\ case'[c].retention = case[c].retention,
         \A c \in Cases : Kept(c)' /\ worker[w].job = c =>
            outcome # "ok" /\ (outcome = "reschedule" => when \in 0 .. case[c].retention)
  PROVE  JobsInv'
<1>1. /\ job' = job /\ OnlyWorker(w)
      /\ worker'[w].job = worker[w].job /\ worker'[w].lease = worker[w].lease
      /\ worker'[w].outcome = outcome /\ worker'[w].at = when
  BY DEF S!J!HandlerReturns, OnlyWorker, SupportInv, JobsInv, WorkerTable
<1>2. \A v \in Workers : S!J!Owns(v)' = S!J!Owns(v) /\ worker'[v].job = worker[v].job
  BY <1>1 DEF OnlyWorker, S!J!Owns
<1>3. ASSUME NEW c \in Cases, Kept(c)' PROVE Purgeable(c)'
  <2>1. Purgeable(c) /\ case'[c].retention = case[c].retention
    BY <1>3 DEF SupportInv, JobsInv
  <2>2. worker[w].job = c =>
           outcome # "ok" /\ (outcome = "reschedule" => when \in 0 .. case[c].retention)
    BY <1>3
  <2> QED
    BY <1>1, <1>2, <2>1, <2>2 DEF Purgeable, OnlyWorker
<1> QED
  BY <1>1, <1>3 DEF SupportInv, JobsInv, OnlyWorker, AttemptsInv

LEMMA SupportHandle ==
  ASSUME SupportInv, NEW w \in Workers, S!Handle(w) \/ S!HandleFails(w)
  PROVE  SupportInv'
<1> USE HandlersAssumption DEF HandlersAssumption, S!SupportAssumption
<1>1. ASSUME NEW when, S!PurgeFails(w, when) PROVE SupportInv'
  <2>1. case' = case /\ editor' = editor /\ orphaned' = orphaned
    BY <1>1 DEF S!PurgeFails
  <2>2. RowsInv'
    BY <2>1 DEF SupportInv, RowsInv, S!RowsOK, RetentionInv, ViewInv, S!Exists, S!View
  <2>3. JobsInv'
    BY <1>1, <2>1, Returned DEF S!PurgeFails, Kept
  <2> QED
    BY <2>2, <2>3 DEF SupportInv
<1>2. ASSUME NEW c \in Cases, S!Defer(w, c) \/ S!Skip(w, c) PROVE SupportInv'
  <2>1. /\ case' = case /\ editor' = editor /\ orphaned' = orphaned /\ worker[w].job = c
    BY <1>2 DEF S!Defer, S!Skip
  <2>2. RowsInv'
    BY <2>1 DEF SupportInv, RowsInv, S!RowsOK, RetentionInv, ViewInv, S!Exists, S!View
  <2>3. \A b \in Cases : Kept(b)' => Kept(b) /\ case'[b].retention = case[b].retention
    BY <2>1 DEF Kept
  <2>4. CASE S!Defer(w, c)
    <3>1. S!J!HandlerReturns(w, "reschedule", case[c].retention)
      BY <2>4 DEF S!Defer
    <3>2. case[c].retention \in 0 .. case[c].retention
      BY <2>4 DEF S!Defer, S!Deferred, SupportInv, RowsInv, RetentionInv
    <3>3. JobsInv'
      BY <2>1, <2>3, <3>1, <3>2, Returned
    <3> QED
      BY <2>2, <3>3 DEF SupportInv
  <2>5. CASE S!Skip(w, c)
    <3>1. S!J!HandlerReturns(w, "ok", 0)
      BY <2>5 DEF S!Skip
    <3>2. ~Kept(c)'
      BY <2>1, <2>5 DEF S!Skip, S!Due, S!Deferred, SupportInv, RowsInv, RetentionInv, Kept
    <3>3. JobsInv'
      BY <2>1, <2>3, <3>1, <3>2, Returned
    <3> QED
      BY <2>2, <3>3 DEF SupportInv
  <2> QED
    BY <1>2, <2>4, <2>5
<1>3. ASSUME NEW c \in Cases, S!Purge(w, c) PROVE SupportInv'
  <2> DEFINE r == S!GoneCase("purged")
  <2>1. /\ case' = [case EXCEPT ![c] = r] /\ editor' = editor
        /\ orphaned' = orphaned \ {c} /\ worker[w].job = c
        /\ S!J!HandlerReturns(w, "ok", 0)
    BY <1>3 DEF S!Purge
  <2>2. r \in S!Case /\ r.status = "purged" /\ r.retention = NoTime
    BY DEF S!GoneCase, S!Case
  <2> HIDE DEF r
  <2>3. /\ case'[c] = r /\ \A b \in Cases \ {c} : case'[b] = case[b]
    BY <2>1 DEF SupportInv, RowsInv, S!RowsOK
  <2>4. S!RowsOK' /\ RetentionInv'
    BY <2>1, <2>2, <2>3 DEF SupportInv, RowsInv, S!RowsOK, RetentionInv
  <2>5. /\ ~S!Exists(c)'
        /\ \A b \in Cases \ {c} : S!Exists(b)' = S!Exists(b) /\ S!View(b)' = S!View(b)
    BY <2>2, <2>3 DEF S!Exists, S!View, S!LiveStatuses, S!ActiveStatuses
  <2>6. ViewInv'
    BY <2>1, <2>2, <2>3, <2>5 DEF SupportInv, RowsInv, ViewInv
  <2>7. /\ ~Kept(c)'
        /\ \A b \in Cases : Kept(b)' => Kept(b) /\ case'[b].retention = case[b].retention
    BY <2>1, <2>2, <2>3 DEF Kept
  <2>8. JobsInv'
    BY <2>1, <2>7, Returned
  <2> QED
    BY <2>1, <2>4, <2>6, <2>8 DEF SupportInv, RowsInv
<1> QED
  BY <1>1, <1>2, <1>3 DEF S!Handle, S!HandleFails

\* The statement of Claim that gives up exhausted jobs.
LEMMA SupportReaped ==
  ASSUME SupportInv, NEW w \in Workers
  PROVE  /\ S!J!Reaped(w) = [c \in Cases |-> S!J!Reaped(w)[c]]
         /\ \A c \in Cases :
              /\ S!J!Reaped(w)[c].attempts = job[c].attempts
              /\ \/ S!J!Reaped(w)[c] = job[c]
                 \/ job[c].status = "running" /\ S!J!Reaped(w)[c].status = "dead_lettered"
BY DEF S!J!Reaped, S!J!ReapExhausted, S!J!Abandoned, S!J!Released

LEMMA SupportPoll ==
  ASSUME SupportInv, NEW w \in Workers, S!Poll(w)
  PROVE  SupportInv'
<1> USE HandlersAssumption DEF HandlersAssumption, S!SupportAssumption
<1>1. case' = case /\ editor' = editor /\ orphaned' = orphaned
  BY DEF S!Poll
<1>2. RowsInv'
  BY <1>1 DEF SupportInv, RowsInv, S!RowsOK, RetentionInv, ViewInv, S!Exists, S!View
<1>3. \A c \in Cases : Kept(c)' => Kept(c) /\ Purgeable(c)
  BY <1>1 DEF Kept, SupportInv, JobsInv
<1>4. CASE S!J!ClaimNone(w)
  <2>1. job' = S!J!Reaped(w) /\ worker' = worker
    BY <1>4 DEF S!J!ClaimNone
  <2>2. AttemptsInv'
    BY <2>1, SupportReaped DEF SupportInv, JobsInv, AttemptsInv
  <2>3. ASSUME NEW c \in Cases, Kept(c)' PROVE Purgeable(c)'
    <3>1. Purgeable(c)
      BY <1>3, <2>3
    <3>2. \/ job'[c] = job[c]
          \/ job'[c].status = "dead_lettered"
      BY <2>1, SupportReaped
    <3>3. \A v \in Workers : S!J!Owns(v)' /\ worker[v].job = c => S!J!Owns(v)
      BY <2>1, <3>2 DEF S!J!Owns
    <3> QED
      BY <1>1, <2>1, <3>1, <3>2, <3>3 DEF Purgeable
  <2> QED
    BY <1>2, <2>1, <2>2, <2>3, SupportReaped DEF SupportInv, JobsInv, WorkerTable
<1>5. ASSUME NEW j \in Cases, S!J!ClaimJob(w, j) PROVE SupportInv'
  <2>1. PICK lease \in Leases \ S!J!LeasesInUse :
          /\ job' = [S!J!Reaped(w) EXCEPT ![j] = S!J!ClaimRow(@, lease)]
          /\ OnlyWorker(w) /\ worker'[w].pc = "handling" /\ worker'[w].job = j
    BY <1>5 DEF S!J!ClaimJob, OnlyWorker, SupportInv, JobsInv, WorkerTable
  <2>2. /\ job' = [c \in Cases |-> job'[c]]
        /\ job'[j] = S!J!ClaimRow(S!J!Reaped(w)[j], lease)
        /\ \A c \in Cases \ {j} : job'[c] = S!J!Reaped(w)[c]
    BY <2>1, SupportReaped
  <2>3. /\ job'[j].status = "running" /\ job'[j].attempts = job[j].attempts + 1
        /\ job'[j].lease = lease
    BY <2>2, SupportReaped DEF S!J!ClaimRow
  <2>4. AttemptsInv'
    BY <2>2, <2>3, SupportReaped DEF SupportInv, JobsInv, AttemptsInv
  <2>5. \A v \in Workers \ {w} : worker'[v] = worker[v] /\ worker[v].lease # lease
    BY <2>1 DEF OnlyWorker, S!J!LeasesInUse
  <2>6. ASSUME NEW c \in Cases, Kept(c)' PROVE Purgeable(c)'
    <3>1. Purgeable(c)
      BY <1>3, <2>6
    <3>2. CASE c = j
      BY <2>1, <2>3, <2>5, <3>2 DEF Purgeable, S!J!Owns
    <3>3. CASE c # j
      <4>1. \/ job'[c] = job[c]
            \/ job'[c].status = "dead_lettered"
        BY <2>2, <3>3, SupportReaped
      <4>2. \A v \in Workers \ {w} : S!J!Owns(v)' /\ worker[v].job = c => S!J!Owns(v)
        BY <2>5, <4>1 DEF S!J!Owns
      <4> QED
        BY <1>1, <2>1, <2>5, <3>1, <3>3, <4>1, <4>2 DEF Purgeable
    <3> QED
      BY <3>2, <3>3
  <2> QED
    BY <1>2, <2>1, <2>2, <2>4, <2>6 DEF SupportInv, JobsInv, OnlyWorker
<1> QED
  BY <1>4, <1>5 DEF S!Poll, S!J!Poll

\* A report that counts gives a kept case a row that is as it should be.
LEMMA SupportReport ==
  ASSUME SupportInv, NEW w \in Workers, S!Report(w)
  PROVE  SupportInv'
<1> USE HandlersAssumption DEF HandlersAssumption, S!SupportAssumption
<1>1. case' = case /\ editor' = editor /\ orphaned' = orphaned
  BY DEF S!Report
<1>2. RowsInv'
  BY <1>1 DEF SupportInv, RowsInv, S!RowsOK, RetentionInv, ViewInv, S!Exists, S!View
<1>3. PICK row :
        /\ job' = IF S!J!Owns(w) THEN [job EXCEPT ![worker[w].job] = row] ELSE job
        /\ \/ row = S!J!CompleteRow(job[worker[w].job]) /\ worker[w].outcome = "ok"
           \/ row = S!J!RetryRow(job[worker[w].job], worker[w].at)
           \/ /\ row = S!J!RescheduleRow(job[worker[w].job], worker[w].at)
              /\ worker[w].outcome = "reschedule"
  BY DEF S!Report, S!J!Report, S!J!Complete, S!J!Retry, S!J!Reschedule, S!J!Release
<1>4. /\ worker[w].pc = "reporting" /\ OnlyWorker(w)
      /\ worker'[w] = S!J!IdleWorker
  BY DEF S!Report, S!J!Report, S!J!Complete, S!J!Retry, S!J!Reschedule, S!J!Release,
         OnlyWorker, SupportInv, JobsInv, WorkerTable
<1>5. worker'[w].pc = "idle"
  BY <1>4 DEF S!J!IdleWorker
<1>6. ASSUME S!J!Owns(w)
      PROVE  /\ worker[w].job \in Cases
             /\ row.attempts \in Nat /\ row.status # "running"
             /\ Kept(worker[w].job) =>
                  /\ row.status \in {"pending", "dead_lettered"}
                  /\ row.status = "pending" /\ row.attempts = 0
                     => row.wait \in 0 .. case[worker[w].job].retention
  <2> DEFINE c == worker[w].job
  <2>1. c \in Cases /\ job[c].status = "running"
    BY <1>6 DEF S!J!Owns
  <2>2. job[c].attempts \in Nat /\ job[c].attempts > 0
    BY <2>1 DEF SupportInv, JobsInv, AttemptsInv
  <2>3. Kept(c) => /\ worker[w].outcome # "ok"
                   /\ worker[w].outcome = "reschedule" =>
                        worker[w].at \in 0 .. case[c].retention
    BY <1>4, <1>6, <2>1 DEF SupportInv, JobsInv, Purgeable
  <2> HIDE DEF c
  <2>4. CASE row = S!J!CompleteRow(job[c]) /\ worker[w].outcome = "ok"
    BY <2>1, <2>2, <2>3, <2>4 DEF S!J!CompleteRow, S!J!Released, c
  <2>5. CASE row = S!J!RetryRow(job[c], worker[w].at)
    BY <2>1, <2>2, <2>5 DEF S!J!RetryRow, S!J!Released, c
  <2>6. CASE row = S!J!RescheduleRow(job[c], worker[w].at) /\ worker[w].outcome = "reschedule"
    BY <2>1, <2>2, <2>3, <2>6 DEF S!J!RescheduleRow, S!J!PendingRow, c
  <2> QED
    BY <1>3, <2>4, <2>5, <2>6 DEF c
<1>7. /\ job' = [c \in Cases |-> job'[c]]
      /\ \A c \in Cases : \/ job'[c] = job[c] /\ ~(S!J!Owns(w) /\ worker[w].job = c)
                          \/ job'[c] = row /\ S!J!Owns(w) /\ worker[w].job = c
  BY <1>3, <1>6 DEF SupportInv, JobsInv
<1>8. AttemptsInv'
  BY <1>6, <1>7 DEF SupportInv, JobsInv, AttemptsInv
<1>9. ASSUME NEW c \in Cases, Kept(c)' PROVE Purgeable(c)'
  <2>1. Purgeable(c) /\ Kept(c)
    BY <1>1, <1>9 DEF Kept, SupportInv, JobsInv
  <2>2. CASE job'[c] = job[c]
    <3>1. \A v \in Workers \ {w} : S!J!Owns(v)' /\ worker[v].job = c => S!J!Owns(v)
      BY <1>4, <2>2 DEF S!J!Owns, OnlyWorker
    <3> QED
      BY <1>1, <1>4, <1>5, <2>1, <2>2, <3>1 DEF Purgeable, OnlyWorker
  <2>3. CASE job'[c] = row /\ S!J!Owns(w) /\ worker[w].job = c
    <3>1. \A v \in Workers : worker'[v].job = c => ~S!J!Owns(v)'
      BY <1>6, <2>3 DEF S!J!Owns
    <3> QED
      BY <1>1, <1>6, <2>1, <2>3, <3>1 DEF Purgeable
  <2> QED
    BY <1>7, <2>2, <2>3
<1> QED
  BY <1>2, <1>4, <1>7, <1>8, <1>9 DEF SupportInv, JobsInv, OnlyWorker

\* The other steps of the job store: a crash, a failed claim, a replay and the
\* cleanup of completed jobs, which notes the kept case it takes the job from.
LEMMA SupportStore ==
  ASSUME SupportInv,
         \/ \E w \in Workers : S!Fail(w)
         \/ \E c \in Cases : S!Replay(c) \/ S!CleanupDelete(c)
         \/ S!CleanupSelect
  PROVE  SupportInv'
<1> USE HandlersAssumption DEF HandlersAssumption, S!SupportAssumption
<1>1. case' = case /\ editor' = editor /\ orphaned \subseteq orphaned' /\ orphaned' \subseteq Cases
  BY DEF S!Fail, S!Replay, S!CleanupDelete, S!CleanupSelect, SupportInv, RowsInv, S!RowsOK
<1>2. RowsInv'
  BY <1>1 DEF SupportInv, RowsInv, S!RowsOK, RetentionInv, ViewInv, S!Exists, S!View
<1>3. \A c \in Cases : Kept(c)' => Kept(c) /\ case'[c].retention = case[c].retention
  BY <1>1 DEF Kept
<1>4. CASE S!CleanupSelect \/ \E w \in Workers : S!J!ClaimFails(w)
  BY <1>2, <1>3, <1>4, JobsUntouched DEF S!CleanupSelect, S!J!CleanupSelect, S!J!ClaimFails,
                                         SupportInv
<1>5. ASSUME NEW w \in Workers, S!J!Crash(w) PROVE SupportInv'
  <2>1. job' = job /\ OnlyWorker(w) /\ worker'[w].pc = "idle"
    BY <1>5 DEF S!J!Crash, S!J!IdleWorker, OnlyWorker, SupportInv, JobsInv, WorkerTable
  <2>2. \A v \in Workers \ {w} : worker'[v] = worker[v] /\ S!J!Owns(v)' = S!J!Owns(v)
    BY <2>1 DEF OnlyWorker, S!J!Owns
  <2>3. ASSUME NEW c \in Cases, Kept(c)' PROVE Purgeable(c)'
    <3>1. Purgeable(c) /\ case'[c].retention = case[c].retention
      BY <1>3, <2>3 DEF SupportInv, JobsInv
    <3> QED
      BY <2>1, <2>2, <3>1 DEF Purgeable
  <2> QED
    BY <1>2, <2>1, <2>3 DEF SupportInv, JobsInv, OnlyWorker, AttemptsInv
<1>6. ASSUME NEW c \in Cases, S!Replay(c) \/ S!CleanupDelete(c) PROVE SupportInv'
  <2>1. /\ worker' = worker
        /\ job' = [b \in Cases |-> job'[b]]
        /\ job'[c].status # "running" /\ job'[c].attempts = 0
        /\ \A b \in Cases \ {c} : job'[b] = job[b]
    BY <1>6 DEF S!Replay, S!CleanupDelete, S!J!Replay, S!J!CleanupDelete, S!J!PendingRow,
                S!J!AbsentRow, SupportInv, JobsInv
  <2>2. AttemptsInv'
    BY <2>1 DEF SupportInv, JobsInv, AttemptsInv
  <2>3. ASSUME NEW b \in Cases \ {c}, Kept(b)' PROVE Purgeable(b)'
    <3>1. Purgeable(b) /\ case'[b].retention = case[b].retention
      BY <1>3, <2>3 DEF SupportInv, JobsInv
    <3>2. \A v \in Workers : worker[v].job = b => S!J!Owns(v)' = S!J!Owns(v)
      BY <2>1 DEF S!J!Owns
    <3> QED
      BY <2>1, <3>1, <3>2 DEF Purgeable
  <2>4. ASSUME Kept(c)' PROVE Purgeable(c)'
    <3>1. CASE S!Replay(c)
      <4>1. job'[c].status = "pending" /\ job'[c].wait = 0
        BY <3>1 DEF S!Replay, S!J!Replay, S!J!PendingRow, SupportInv, JobsInv
      <4>2. 0 \in 0 .. case'[c].retention
        BY <1>1, <2>4 DEF Kept, SupportInv, RowsInv, RetentionInv
      <4>3. \A v \in Workers : worker'[v].job = c => ~S!J!Owns(v)'
        BY <2>1 DEF S!J!Owns
      <4> QED
        BY <4>1, <4>2, <4>3 DEF Purgeable
    <3>2. CASE S!CleanupDelete(c)
      BY <2>4, <3>2 DEF S!CleanupDelete, Kept
    <3> QED
      BY <1>6, <3>1, <3>2
  <2> QED
    BY <1>2, <2>1, <2>2, <2>3, <2>4 DEF SupportInv, JobsInv, WorkerTable
<1> QED
  BY <1>4, <1>5, <1>6 DEF S!Fail, S!J!Fail

\* The clock brings the deadline of a case and of its job nearer together.
LEMMA SupportTick ==
  ASSUME SupportInv, S!Tick
  PROVE  SupportInv'
<1> USE HandlersAssumption DEF HandlersAssumption, S!SupportAssumption
<1>1. /\ editor' = editor /\ orphaned' = orphaned
      /\ case' = [c \in Cases |-> case'[c]] /\ job' = [c \in Cases |-> job'[c]]
      /\ WorkerTable'
  BY DEF S!Tick, S!J!Tick, WorkerTable
<1>3. ASSUME NEW w \in Workers
      PROVE  /\ worker'[w].pc = worker[w].pc /\ worker'[w].job = worker[w].job
             /\ worker'[w].lease = worker[w].lease /\ worker'[w].outcome = worker[w].outcome
             /\ worker'[w].at = S!J!Elapsed(worker[w].at)
  BY DEF S!Tick, S!J!Tick, S!J!WorkerLater
<1>4. \A n \in Nat : S!J!Elapsed(n) \in Nat /\ S!J!Elapsed(n) <= n
  BY DEF S!J!Elapsed
<1>5. \A m, n \in Nat : m <= n => S!J!Elapsed(m) <= S!J!Elapsed(n)
  BY DEF S!J!Elapsed
<1>6. ASSUME NEW c \in Cases
      PROVE  /\ case'[c] \in S!Case /\ case'[c].status = case[c].status
             /\ case[c].status = "closed" =>
                  /\ case[c].retention \in Nat /\ case[c].retention <= Retention
                  /\ case'[c].retention = S!J!Elapsed(case[c].retention)
             /\ case[c].status # "closed" => case'[c].retention = NoTime
             /\ S!Exists(c)' = S!Exists(c) /\ S!View(c)' = S!View(c)
             /\ case'[c].version = case[c].version
  <2> DEFINE later == IF case[c].retention = NoTime THEN NoTime
                      ELSE S!J!Elapsed(case[c].retention)
  <2>1. case'[c] = [status |-> case[c].status, retention |-> later,
                    messages |-> case[c].messages, attachments |-> case[c].attachments,
                    references |-> case[c].references, version |-> case[c].version]
    BY DEF S!Tick
  <2>2. IF case[c].status = "closed" THEN case[c].retention \in 0 .. Retention
                                     ELSE case[c].retention = NoTime
    BY DEF SupportInv, RowsInv, RetentionInv
  <2>3. /\ later \in Nat \cup {NoTime}
        /\ case[c].status = "closed" => later = S!J!Elapsed(case[c].retention)
        /\ case[c].status # "closed" => later = NoTime
    BY <1>4, <2>2
  <2> HIDE DEF later
  <2>4. case'[c] \in S!Case
    BY <2>1, <2>3 DEF S!Case, SupportInv, RowsInv, S!RowsOK
  <2>5. S!Exists(c)' = S!Exists(c) /\ S!View(c)' = S!View(c)
    BY <2>1 DEF S!Exists, S!View
  <2> QED
    BY <2>1, <2>2, <2>3, <2>4, <2>5
<1>7. RowsInv'
  <2>1. S!RowsOK'
    BY <1>1, <1>6 DEF SupportInv, RowsInv, S!RowsOK
  <2>2. RetentionInv'
    BY <1>4, <1>6 DEF RetentionInv
  <2>3. ViewInv'
    BY <1>1, <1>6 DEF SupportInv, RowsInv, ViewInv
  <2> QED
    BY <1>1, <2>1, <2>2, <2>3 DEF SupportInv, RowsInv
<1>8. ASSUME NEW c \in Cases
      PROVE  /\ job'[c].status = job[c].status /\ job'[c].attempts = job[c].attempts
             /\ job'[c].lease = job[c].lease /\ job'[c].wait = S!J!Elapsed(job[c].wait)
  BY DEF S!Tick, S!J!Tick, S!J!RowLater
<1>9. \A w \in Workers : S!J!Owns(w)' = S!J!Owns(w)
  BY <1>3, <1>8 DEF S!J!Owns
<1>10. ASSUME NEW c \in Cases, Kept(c)' PROVE Purgeable(c)'
  <2>1. Kept(c) /\ Purgeable(c)
    BY <1>1, <1>6, <1>10 DEF Kept, SupportInv, JobsInv
  <2>2. \A n \in 0 .. case[c].retention : S!J!Elapsed(n) \in 0 .. case'[c].retention
    BY <1>4, <1>5, <1>6, <2>1 DEF Kept
  <2> QED
    BY <1>3, <1>8, <1>9, <2>1, <2>2 DEF Purgeable
<1>11. AttemptsInv'
  BY <1>8 DEF SupportInv, JobsInv, AttemptsInv
<1> QED
  BY <1>1, <1>7, <1>10, <1>11 DEF SupportInv, JobsInv

LEMMA SupportStep ==
  ASSUME SupportInv, S!Next
  PROVE  SupportInv'
BY SupportEdit, SupportCreate, SupportRead, SupportUpdate, SupportHandle, SupportPoll,
   SupportReport, SupportStore, SupportTick DEF S!Next

-----------------------------------------------------------------------------
(* The three together.                                                       *)

HandlersInv ==
  /\ part \in {"support", "email", "maintenance"}
  /\ part = "support" => SupportInv
  /\ part = "email" => EmailInv
  /\ part = "maintenance" => MaintenanceInv

LEMMA HandlersInit == Init => HandlersInv
BY SupportInit, EmailInit, MaintenanceInit DEF Init, HandlersInv

LEMMA HandlersNext == HandlersInv /\ [Next]_vars => HandlersInv'
<1> SUFFICES ASSUME HandlersInv, [Next]_vars PROVE HandlersInv'
  OBVIOUS
<1>1. CASE Next
  BY <1>1, SupportStep, EmailStep, MaintenanceStep DEF Next, HandlersInv
<1>2. CASE UNCHANGED vars
  <2>1. /\ part' = part /\ case' = case /\ editor' = editor /\ orphaned' = orphaned
        /\ delivery' = delivery /\ step' = step /\ accepted' = accepted /\ doubts' = doubts
        /\ backlog' = backlog /\ RunsUnmoved
        /\ job' = job /\ worker' = worker
    BY <1>2 DEF vars, supportVars, emailVars, maintenanceVars, jobVars, RunsUnmoved
  <2>2. CASE part = "support"
    <3>1. RowsInv'
      BY <2>1, <2>2 DEF HandlersInv, SupportInv, RowsInv, S!RowsOK, RetentionInv, ViewInv,
                        S!Exists, S!View
    <3>2. JobsInv'
      BY <2>1, <2>2, JobsUntouched DEF HandlersInv, Kept
    <3> QED
      BY <2>1, <2>2, <3>1, <3>2 DEF HandlersInv, SupportInv
  <2>3. CASE part = "email"
    BY <2>1, <2>3, MailUnmoved DEF HandlersInv, EmailInv, WorkerTable
  <2>4. CASE part = "maintenance"
    BY <2>1, <2>4 DEF HandlersInv, MaintenanceInv, RunTypes, RunInv, RunsUnmoved, WorkerTable
  <2> QED
    BY <2>2, <2>3, <2>4 DEF HandlersInv
<1> QED
  BY <1>1, <1>2

LEMMA HandlersInvariant == Spec => []HandlersInv
BY HandlersInit, HandlersNext, PTL DEF Spec

\* A closed case always has a purge job that will run by the end of its
\* retention, or a dead-lettered one, whatever edits and workers race with it.
THEOREM ClosedIsScheduledHolds == Spec => []ClosedIsScheduled
<1>1. HandlersInv => ClosedIsScheduled
  BY SupportScheduled DEF HandlersInv, ClosedIsScheduled
<1> QED
  BY <1>1, HandlersInvariant, PTL

\* A mail that was sent more than once has a doubt for each further copy.
THEOREM DuplicatesExplainedHolds == Spec => []DuplicatesExplained
<1>1. ASSUME EmailInv, NEW d \in Deliveries
      PROVE  accepted[d] <= 1 + doubts[d]
  <2>1. /\ accepted[d] \in 0 .. MaxCopies /\ doubts[d] \in 0 .. MaxCopies /\ MaxCopies \in Nat
        /\ Covered(d)
    BY <1>1, HandlersAssumption DEF EmailInv, E!TypeOK, HandlersAssumption, E!EmailAssumption
  <2>2. Cardinality(MaySend(d)) \in Nat /\ Due(d) \in {0, 1}
    BY Counted DEF Due
  <2> QED
    BY <2>1, <2>2 DEF Covered
<1>2. HandlersInv => DuplicatesExplained
  BY <1>1 DEF HandlersInv, DuplicatesExplained, E!DuplicatesExplained
<1> QED
  BY <1>2, HandlersInvariant, PTL

\* A cleanup run that left rows behind in any table has the next run follow
\* after a minute.
THEOREM BacklogSoonHolds == Spec => []BacklogSoon
<1>1. HandlersInv => BacklogSoon
  BY DEF HandlersInv, MaintenanceInv, RunInv, BacklogSoon, M!BacklogSoon
<1> QED
  BY <1>1, HandlersInvariant, PTL

\* The time a case has been closed and the time that is left to it make up its
\* retention.
ClosedInv ==
  /\ closedFor \in [Cases -> 0 .. Retention]
  /\ \A c \in Cases :
       case[c].status = "closed" => case[c].retention + closedFor[c] >= Retention

LEMMA ClosedTyped ==
  ASSUME ClosedInv, S!Next
  PROVE  closedFor' \in [Cases -> 0 .. Retention]
<1> USE HandlersAssumption DEF HandlersAssumption, S!SupportAssumption, ClosedInv
<1>1. CASE closedFor' = closedFor
  BY <1>1
<1>2. CASE \/ \E e \in Editors, b \in Cases, s \in S!LiveStatuses : S!ChangeStatus(e, b, s)
           \/ \E w \in Workers, b \in Cases : S!Purge(w, b)
  BY <1>2 DEF S!ChangeStatus, S!Purge
<1>3. CASE S!Tick
  BY <1>3 DEF S!Tick
<1> QED
  BY <1>1, <1>2, <1>3
  DEF S!Next, S!AddMessage, S!AddAttachment, S!AddReference, S!RemoveReference, S!SetReferences,
      S!Create, S!ChangeField, S!Replay, S!CleanupDelete, S!Read, S!Poll, S!Handle,
      S!HandleFails, S!PurgeFails, S!Defer, S!Skip, S!Report, S!Fail, S!CleanupSelect

\* What a step does to the time c has been closed.
LEMMA ClosedStep ==
  ASSUME SupportInv, ClosedInv, S!Next, NEW c \in Cases
  PROVE  /\ case'[c].status = "closed" => case'[c].retention + closedFor'[c] >= Retention
         /\ S!Exists(c) /\ ~S!Exists(c)' => closedFor[c] = Retention
<1> USE HandlersAssumption DEF HandlersAssumption, S!SupportAssumption
<1>1. case \in [Cases -> S!Case]
  BY DEF SupportInv, RowsInv, S!RowsOK
<1>2. /\ case[c].status = "closed" => case[c].retention \in 0 .. Retention
      /\ closedFor[c] \in 0 .. Retention /\ Retention \in Nat
  BY DEF SupportInv, RowsInv, RetentionInv, ClosedInv
<1>3. CASE case' = case /\ closedFor' = closedFor
  BY <1>3 DEF ClosedInv, S!Exists
<1>4. CASE \E b \in Cases : \/ S!AddMessage(b) \/ S!AddAttachment(b)
                            \/ S!AddReference(b) \/ S!RemoveReference(b)
  <2>1. /\ closedFor' = closedFor
        /\ case'[c].status = case[c].status /\ case'[c].retention = case[c].retention
    BY <1>1, <1>4 DEF S!AddMessage, S!AddAttachment, S!AddReference, S!RemoveReference,
                      S!SetReferences, S!WithMessage
  <2> QED
    BY <2>1 DEF ClosedInv, S!Exists
<1>5. CASE \E b \in Cases, n \in {0, 1} : S!Create(b, n)
  <2>1. /\ closedFor' = closedFor
        /\ case'[c] = case[c] \/ (case'[c].status = "open" /\ "open" \in S!LiveStatuses)
    BY <1>1, <1>5 DEF S!Create, S!LiveStatuses, S!ActiveStatuses
  <2> QED
    BY <2>1 DEF ClosedInv, S!Exists
<1>6. CASE \E e \in Editors, b \in Cases : S!ChangeField(e, b)
  <2>1. /\ closedFor' = closedFor
        /\ case'[c].status = case[c].status /\ case'[c].retention = case[c].retention
    BY <1>1, <1>6 DEF S!ChangeField, S!Case
  <2> QED
    BY <2>1 DEF ClosedInv, S!Exists
<1>7. CASE \E e \in Editors, b \in Cases, s \in S!LiveStatuses : S!ChangeStatus(e, b, s)
  <2> PICK e \in Editors, b \in Cases, s \in S!LiveStatuses : S!ChangeStatus(e, b, s)
    BY <1>7
  <2>1. /\ closedFor' = [closedFor EXCEPT ![b] = 0]
        /\ b # c => case'[c] = case[c]
        /\ b = c => case'[c].status = s
        /\ b = c /\ s = "closed" => case'[c].retention = Retention
    BY <1>1 DEF S!ChangeStatus, S!Deadline
  <2>2. b = c => closedFor'[c] = 0
    BY <2>1 DEF ClosedInv
  <2>3. b # c => closedFor'[c] = closedFor[c]
    BY <2>1 DEF ClosedInv
  <2> QED
    BY <1>2, <2>1, <2>2, <2>3 DEF ClosedInv, S!Exists
<1>8. CASE S!Tick
  <2>1. /\ closedFor' = [b \in Cases |-> IF case[b].status = "closed" /\ closedFor[b] < Retention
                                         THEN closedFor[b] + 1 ELSE closedFor[b]]
        /\ case'[c].status = case[c].status
        /\ case[c].retention # NoTime => case'[c].retention = S!J!Elapsed(case[c].retention)
    BY <1>8 DEF S!Tick
  <2>2. ASSUME case[c].status = "closed"
        PROVE  case'[c].retention + closedFor'[c] >= Retention
    <3>1. /\ case'[c].retention = S!J!Elapsed(case[c].retention)
          /\ case[c].retention + closedFor[c] >= Retention
      BY <1>2, <2>1, <2>2 DEF ClosedInv
    <3>2. closedFor'[c] = IF closedFor[c] < Retention THEN closedFor[c] + 1 ELSE closedFor[c]
      BY <2>1, <2>2
    <3> QED
      BY <1>2, <2>2, <3>1, <3>2 DEF S!J!Elapsed
  <2> QED
    BY <2>1, <2>2 DEF S!Exists
<1>9. CASE \E w \in Workers, b \in Cases : S!Purge(w, b)
  <2> PICK w \in Workers, b \in Cases : S!Purge(w, b)
    BY <1>9
  <2>1. /\ closedFor' = [closedFor EXCEPT ![b] = 0]
        /\ b # c => case'[c] = case[c]
        /\ b = c => case'[c].status = "purged"
        /\ b = c => case[c].status = "closed" /\ case[c].retention = 0
    BY <1>1 DEF S!Purge, S!Due, S!GoneCase
  <2>2. b # c => closedFor'[c] = closedFor[c]
    BY <2>1 DEF ClosedInv
  <2>3. b = c => closedFor[c] = Retention
    BY <1>2, <2>1 DEF ClosedInv
  <2> QED
    BY <2>1, <2>2, <2>3 DEF ClosedInv, S!Exists
<1> QED
  BY <1>3, <1>4, <1>5, <1>6, <1>7, <1>8, <1>9
  DEF S!Next, S!Replay, S!CleanupDelete, S!Read, S!Poll, S!Handle, S!HandleFails,
      S!PurgeFails, S!Defer, S!Skip, S!Report, S!Fail, S!CleanupSelect

\* A case is purged only after it has been closed, without a break, for the whole
\* of its retention.
THEOREM KeptForRetentionHolds == Spec => KeptForRetention
<1> DEFINE Held == part = "support" => ClosedInv
<1>1. Init => Held
  BY HandlersAssumption DEF Init, S!Init, ClosedInv, S!GoneCase, HandlersAssumption,
                            S!SupportAssumption
<1>2. HandlersInv /\ Held /\ [Next]_vars => Held'
  <2>1. ASSUME part = "support", SupportInv, ClosedInv, S!Next
        PROVE  ClosedInv'
    BY <2>1, ClosedStep, ClosedTyped DEF ClosedInv
  <2>2. UNCHANGED vars /\ Held => Held'
    BY DEF vars, supportVars, ClosedInv
  <2> QED
    BY <2>1, <2>2 DEF Next, HandlersInv
<1>3. HandlersInv /\ Held /\ [Next]_vars => [part = "support" => S!PurgesAfterRetention]_vars
  BY ClosedStep DEF HandlersInv, Next, S!PurgesAfterRetention
<1> QED
  BY <1>1, <1>2, <1>3, HandlersInvariant, PTL DEF Spec, KeptForRetention

\* Whoever changes the status of a case has seen what it was: an If-Match that
\* is accepted names the version, and the version identifies the view.
THEOREM DecidedAsSeenHolds == Spec => DecidedAsSeen
<1>1. ASSUME SupportInv, S!Next, NEW c \in Cases, S!Exists(c), S!Exists(c)',
             case'[c].status # case[c].status
      PROVE  \E e \in Editors : editor[e].case = c /\ editor[e].seen = S!View(c)
  <2>1. case \in [Cases -> S!Case]
    BY <1>1 DEF SupportInv, RowsInv, S!RowsOK
  <2>2. ASSUME NEW e \in Editors, NEW b \in Cases, NEW s \in S!LiveStatuses,
               S!ChangeStatus(e, b, s)
        PROVE  editor[e].case = c /\ editor[e].seen = S!View(c)
    <3>1. b = c
      BY <1>1, <2>1, <2>2 DEF S!ChangeStatus
    <3>2. editor[e].case = c /\ case[c].version = editor[e].seen.version
      BY <2>2, <3>1 DEF S!ChangeStatus, S!Deadline, S!Fresh
    <3> QED
      BY <1>1, <3>2 DEF SupportInv, RowsInv, ViewInv
  <2>3. CASE ~ \E e \in Editors, b \in Cases, s \in S!LiveStatuses : S!ChangeStatus(e, b, s)
    <3>1. CASE case' = case
      BY <1>1, <3>1
    <3>2. CASE \E b \in Cases : \/ S!AddMessage(b) \/ S!AddAttachment(b)
                                \/ S!AddReference(b) \/ S!RemoveReference(b)
      BY <1>1, <2>1, <3>2 DEF S!AddMessage, S!AddAttachment, S!AddReference, S!RemoveReference,
                              S!SetReferences, S!WithMessage
    <3>3. CASE \E b \in Cases, n \in {0, 1} : S!Create(b, n)
      BY <1>1, <2>1, <3>3 DEF S!Create, S!Exists, S!LiveStatuses, S!ActiveStatuses
    <3>4. CASE \E e \in Editors, b \in Cases : S!ChangeField(e, b)
      BY <1>1, <2>1, <3>4 DEF S!ChangeField, S!Case
    <3>5. CASE S!Tick
      BY <1>1, <3>5 DEF S!Tick
    <3>6. CASE \E w \in Workers, b \in Cases : S!Purge(w, b)
      BY <1>1, <2>1, <3>6 DEF S!Purge, S!GoneCase, S!Exists, S!LiveStatuses, S!ActiveStatuses
    <3> QED
      BY <1>1, <2>3, <3>1, <3>2, <3>3, <3>4, <3>5, <3>6
      DEF S!Next, S!Replay, S!CleanupDelete, S!Read, S!Poll, S!Handle, S!HandleFails,
          S!PurgeFails, S!Defer, S!Skip, S!Report, S!Fail, S!CleanupSelect
  <2> QED
    BY <2>2, <2>3
<1>2. HandlersInv /\ [Next]_vars => [part = "support" => S!DecidesAsSeen]_vars
  BY <1>1 DEF HandlersInv, Next, S!DecidesAsSeen
<1> QED
  BY <1>2, HandlersInvariant, PTL DEF Spec, DecidedAsSeen

-----------------------------------------------------------------------------
(* The handlers implement BackgroundJobs.                                    *)

LEMMA SupportUsesJobs ==
  ASSUME SupportInv, S!Next
  PROVE  S!J!Next \/ UNCHANGED jobVars
<1> USE HandlersAssumption DEF HandlersAssumption, S!SupportAssumption
<1>1. CASE UNCHANGED jobVars
  BY <1>1
<1>2. ASSUME NEW c \in Cases, S!Rearm(c), case'[c].retention \in 0 .. Retention
      PROVE  S!J!Next
  BY <1>2 DEF S!Rearm, S!J!Next
<1>3. ASSUME NEW e \in Editors, NEW c \in Cases, S!ChangeField(e, c)
      PROVE  S!J!Next \/ UNCHANGED jobVars
  <2>1. case[c].status = "closed" => case'[c].retention \in 0 .. Retention
    <3>1. case[c] \in S!Case /\ case'[c] = [case[c] EXCEPT !.version = @ + 1]
      BY <1>3 DEF S!ChangeField, SupportInv, RowsInv, S!RowsOK
    <3>2. case'[c].retention = case[c].retention
      BY <3>1 DEF S!Case
    <3> QED
      BY <3>2 DEF SupportInv, RowsInv, RetentionInv
  <2> QED
    BY <1>2, <1>3, <2>1 DEF S!ChangeField, S!jobVars, jobVars
<1>4. ASSUME NEW e \in Editors, NEW c \in Cases, NEW s \in S!LiveStatuses,
             S!ChangeStatus(e, c, s)
      PROVE  S!J!Next \/ UNCHANGED jobVars
  <2>1. s = "closed" => case'[c].retention \in 0 .. Retention
    BY <1>4 DEF S!ChangeStatus, S!Deadline, SupportInv, RowsInv, S!RowsOK
  <2> QED
    BY <1>2, <1>4, <2>1 DEF S!ChangeStatus, S!Deadline, S!jobVars, jobVars
<1>5. ASSUME NEW w \in Workers, S!Handle(w) \/ S!HandleFails(w)
      PROVE  S!J!Next
  <2>1. \E o \in {"ok", "error", "reschedule"} :
           \E when \in S!J!ReturnTimes(w, o) : S!J!HandlerReturns(w, o, when)
    BY <1>5 DEF S!Handle, S!HandleFails, S!Purge, S!Defer, S!Skip, S!PurgeFails,
                S!J!HandlerReturns
  <2> QED
    BY <2>1 DEF S!J!Next, S!J!WorkerStep, S!J!Finish
<1>6. ASSUME NEW w \in Workers, S!Poll(w) \/ S!Report(w) \/ S!Fail(w)
      PROVE  S!J!Next
  BY <1>6 DEF S!Poll, S!Report, S!Fail, S!J!Next, S!J!WorkerStep
<1>7. ASSUME \/ \E c \in Cases : S!Replay(c) \/ S!CleanupDelete(c)
             \/ S!CleanupSelect \/ S!Tick
      PROVE  S!J!Next
  BY <1>7 DEF S!Replay, S!CleanupDelete, S!CleanupSelect, S!Tick, S!J!Next
<1> QED
  BY <1>1, <1>3, <1>4, <1>5, <1>6, <1>7
  DEF S!Next, S!AddMessage, S!AddAttachment, S!AddReference, S!RemoveReference,
      S!SetReferences, S!Create, S!Read, S!jobVars, jobVars

LEMMA EmailUsesJobs ==
  ASSUME E!Next
  PROVE  E!J!Next \/ UNCHANGED jobVars
<1>1. ASSUME NEW w \in Workers, NEW o \in {"ok", "error"}, E!Returns(w, o)
      PROVE  E!J!Next
  BY <1>1 DEF E!Returns, E!J!Next, E!J!WorkerStep, E!J!Finish
<1>2. ASSUME NEW w \in Workers, E!Handle(w)
      PROVE  E!J!Next \/ UNCHANGED jobVars
  BY <1>1, <1>2 DEF E!Handle, E!LoadNothing, E!LoadPending, E!SendFails, E!Send,
                    E!MarkDelivered, E!MarkFails, E!jobVars, jobVars
<1>3. ASSUME NEW w \in Workers, E!Poll(w) \/ E!Report(w) \/ E!Crash(w) \/ E!ClaimFails(w)
      PROVE  E!J!Next
  BY <1>3 DEF E!Poll, E!Report, E!Crash, E!ClaimFails, E!J!Next, E!J!WorkerStep, E!J!Fail
<1>4. ASSUME NEW d \in Deliveries,
             E!ScheduleEmailDelivery(d) \/ E!Replay(d) \/ E!CleanupDelivery(d)
      PROVE  E!J!Next \/ UNCHANGED jobVars
  BY <1>4 DEF E!ScheduleEmailDelivery, E!Replay, E!CleanupDelivery, E!J!Next, E!jobVars, jobVars
<1>5. ASSUME E!CleanupJobs \/ E!Tick
      PROVE  E!J!Next
  BY <1>5 DEF E!CleanupJobs, E!Tick, E!J!Next
<1> QED
  BY <1>2, <1>3, <1>4, <1>5 DEF E!Next

LEMMA MaintenanceUsesJobs ==
  ASSUME M!Next
  PROVE  M!J!Next \/ UNCHANGED jobVars
<1>1. ASSUME NEW w \in Workers, NEW o \in {"error", "reschedule"}, NEW when,
             M!J!HandlerReturns(w, o, when)
      PROVE  M!J!Next
  BY <1>1 DEF M!J!HandlerReturns, M!J!Next, M!J!WorkerStep, M!J!Finish
<1>2. ASSUME NEW w \in Workers, M!Handle(w)
      PROVE  M!J!Next \/ UNCHANGED jobVars
  BY <1>1, <1>2 DEF M!Handle, M!ChooseRows, M!DeleteRows, M!RunEnds, M!CleanFails, M!jobVars, jobVars
<1>3. ASSUME NEW w \in Workers, M!Poll(w) \/ M!Report(w) \/ M!Crash(w) \/ M!ClaimFails(w)
      PROVE  M!J!Next
  BY <1>3 DEF M!Poll, M!Report, M!Crash, M!ClaimFails, M!J!Next, M!J!WorkerStep, M!J!Fail
<1>4. ASSUME M!EnsureMaintenanceJob \/ M!Tick
             \/ \E t \in Stocked, r \in 1 .. MaxRows : M!Expire(t, r) \/ M!Vanish(t, r)
      PROVE  M!J!Next \/ UNCHANGED jobVars
  BY <1>4 DEF M!EnsureMaintenanceJob, M!Tick, M!Expire, M!Vanish, M!J!Next, M!jobVars, jobVars
<1> QED
  BY <1>2, <1>3, <1>4 DEF M!Next

\* The handlers and the requests around them use the job table only as
\* BackgroundJobs allows, so what is proved of it there holds beside each of them.
THEOREM ImplementsJobsHolds == Spec => ImplementsJobs
<1>1. Init => /\ part = "support" => S!J!Init
              /\ part = "email" => E!J!Init
              /\ part = "maintenance" => M!J!Init
  BY DEF Init, S!Init, E!Init, M!Init
<1>2. HandlersInv /\ [Next]_vars =>
        [/\ part = "support" => S!J!Next \/ UNCHANGED jobVars
         /\ part = "email" => E!J!Next \/ UNCHANGED jobVars
         /\ part = "maintenance" => M!J!Next \/ UNCHANGED jobVars]_vars
  BY SupportUsesJobs, EmailUsesJobs, MaintenanceUsesJobs DEF HandlersInv, Next
<1> QED
  BY <1>1, <1>2, HandlersInvariant, PTL DEF Spec, ImplementsJobs

=============================================================================
