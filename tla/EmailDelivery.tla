--------------------------- MODULE EmailDelivery ---------------------------
(***************************************************************************)
(* Delivery of verification, reset and invitation mails                    *)
(* (internal/api/email_delivery.go).  A mail is a row of email_deliveries  *)
(* and a job that carries only its uid; deliverEmail is the handler of     *)
(* that job.  The job side is BackgroundJobs, with one job per delivery:   *)
(* a worker that lost its lease goes on sending, since nothing cancels it. *)
(***************************************************************************)
EXTENDS Integers, FiniteSets

CONSTANTS
  Deliveries,
  MaxCopies,   \* bound: mails of one delivery that the server accepts
  Workers, Leases, NoLease, NoJob, MaxAttempts, LeaseDuration

\* What the constants have to satisfy.
EmailAssumption == MaxCopies \in Nat /\ IsFiniteSet(Workers)

VARIABLES
  delivery,  \* email_deliveries: the status of each row
  step,      \* how far each worker's deliverEmail is
  accepted,  \* mails the SMTP server has accepted, by delivery
  doubts,    \* attempts that may leave an accepted mail unrecorded, up to MaxCopies
  job, ahead, worker, cursor, selected   \* see BackgroundJobs

jobVars == <<job, ahead, worker, cursor, selected>>
mailVars == <<delivery, step, accepted, doubts>>
vars == <<mailVars, jobVars>>

J == INSTANCE BackgroundJobs
       WITH Jobs <- Deliveries, NumQueues <- 1, QueueOf <- [d \in Deliveries |-> 0],
            Rearmable <- {}, Recurring <- {}, Delays <- {0}

Init ==
  /\ delivery = [d \in Deliveries |-> "absent"]
  /\ step = [w \in Workers |-> "start"]
  /\ accepted = [d \in Deliveries |-> 0]
  /\ doubts = [d \in Deliveries |-> 0]
  /\ J!Init

\* scheduleEmailDelivery, in the transaction of the proof: the row and its job.
ScheduleEmailDelivery(d) ==
  /\ delivery[d] = "absent"
  /\ delivery' = [delivery EXCEPT ![d] = "pending"]
  /\ J!Schedule(d, 0)
  /\ UNCHANGED <<step, accepted, doubts>>

----------------------------------------------------------------------------
(* deliverEmail, run by worker w on the delivery d of its job.             *)

Delivering(w, d, s) == worker[w].pc = "handling" /\ worker[w].job = d /\ step[w] = s

Plus(n, m) == IF n + m < MaxCopies THEN n + m ELSE MaxCopies
Doubt(d) == doubts' = [doubts EXCEPT ![d] = Plus(@, 1)]
Returns(w, outcome) ==
  /\ \E at \in J!ReturnTimes(w, outcome) : J!HandlerReturns(w, outcome, at)
  /\ step' = [step EXCEPT ![w] = "start"]

\* The row is gone or delivered: the job is done.
\* (Faulty variants: the status is not looked at, or misread.)
NothingToDoNever(d) == FALSE
NothingToDo(d) == delivery[d] \in {"removed", "delivered"}

LoadNothing(w, d) ==
  /\ Delivering(w, d, "start") /\ NothingToDo(d)
  /\ Returns(w, "ok")
  /\ UNCHANGED <<delivery, accepted, doubts>>

LoadPending(w, d) ==
  /\ Delivering(w, d, "start") /\ ~NothingToDo(d)
  /\ step' = [step EXCEPT ![w] = "loaded"]
  /\ UNCHANGED <<delivery, accepted, doubts, jobVars>>

\* The row cannot be read, opened or rendered, or Send ends before the server
\* has the message.
SendFails(w, d) ==
  /\ step[w] \in {"start", "loaded"} /\ Delivering(w, d, step[w])
  /\ Returns(w, "error")
  /\ UNCHANGED <<delivery, accepted, doubts>>

\* Send: the server accepts the message.  When its answer to DATA or QUIT is
\* lost the attempt fails all the same.
Send(w, d, answered) ==
  /\ Delivering(w, d, "loaded") /\ accepted[d] < MaxCopies
  /\ accepted' = [accepted EXCEPT ![d] = @ + 1]
  /\ \/ answered /\ step' = [step EXCEPT ![w] = "sent"] /\ UNCHANGED <<doubts, jobVars>>
     \/ ~answered /\ Returns(w, "error") /\ Doubt(d)
  /\ UNCHANGED delivery

\* UPDATE ... WHERE status='pending'
\* (Faulty variant: no row matches.)
MarkedNot(d) == delivery
Marked(d) == IF delivery[d] = "pending" THEN [delivery EXCEPT ![d] = "delivered"] ELSE delivery
MarkDelivered(w, d) ==
  /\ Delivering(w, d, "sent")
  /\ delivery' = Marked(d)
  /\ Returns(w, "ok")
  /\ UNCHANGED <<accepted, doubts>>

MarkFails(w, d) ==
  /\ Delivering(w, d, "sent")
  /\ Returns(w, "error") /\ Doubt(d)
  /\ UNCHANGED <<delivery, accepted>>

Handle(w) == \E d \in Deliveries :
  \/ LoadNothing(w, d) \/ LoadPending(w, d) \/ SendFails(w, d)
  \/ Send(w, d, TRUE) \/ Send(w, d, FALSE) \/ MarkDelivered(w, d) \/ MarkFails(w, d)

----------------------------------------------------------------------------
(* The worker loop and the maintenance job around it.                      *)

\* A worker that takes over a job whose worker is still at it may repeat it.
Overtaken(d) == {v \in Workers : worker[v].job = d /\ worker[v].pc = "handling"}
Poll(w) ==
  /\ J!Poll(w)
  /\ doubts' = [d \in Deliveries |-> IF worker'[w].job = d
                                     THEN Plus(doubts[d], Cardinality(Overtaken(d))) ELSE doubts[d]]
  /\ UNCHANGED <<delivery, step, accepted>>

Report(w) == J!Report(w) /\ UNCHANGED mailVars

\* A crash between the server's answer and the UPDATE leaves a doubt.
Crash(w) ==
  /\ J!Crash(w)
  /\ doubts' = [d \in Deliveries |-> IF Delivering(w, d, "sent") THEN Plus(doubts[d], 1) ELSE doubts[d]]
  /\ step' = [step EXCEPT ![w] = "start"]
  /\ UNCHANGED <<delivery, accepted>>

ClaimFails(w) == J!ClaimFails(w) /\ UNCHANGED mailVars
Replay(d) == J!Replay(d) /\ UNCHANGED mailVars
CleanupJobs == \/ J!CleanupSelect /\ UNCHANGED mailVars
               \/ \E d \in Deliveries : J!CleanupDelete(d) /\ UNCHANGED mailVars

\* email_deliveries in runMaintenanceCleanup; the thirty days are left open.
CleanupDelivery(d) ==
  /\ delivery[d] = "delivered"
  /\ delivery' = [delivery EXCEPT ![d] = "removed"]
  /\ UNCHANGED <<step, accepted, doubts, jobVars>>

Tick == J!Tick /\ UNCHANGED mailVars

Next ==
  \/ \E d \in Deliveries : ScheduleEmailDelivery(d) \/ Replay(d) \/ CleanupDelivery(d)
  \/ \E w \in Workers : Handle(w) \/ Poll(w) \/ Report(w) \/ Crash(w) \/ ClaimFails(w)
  \/ CleanupJobs
  \/ Tick

Spec == Init /\ [][Next]_vars

----------------------------------------------------------------------------
(* Properties.                                                             *)

\* The rows, the steps of deliverEmail and the counters are of their types.
TypeOK ==
  /\ delivery \in [Deliveries -> {"absent", "pending", "delivered", "removed"}]
  /\ step \in [Workers -> {"start", "loaded", "sent"}]
  /\ accepted \in [Deliveries -> 0 .. MaxCopies]
  /\ doubts \in [Deliveries -> 0 .. MaxCopies]

\* A duplicate has a cause: an answer that was lost, an UPDATE that failed, a
\* crash after the answer or a lease that ran out while a worker was sending.
\* A report that is lost after the UPDATE causes none (README: "the stable
\* message ID permits correlation").
DuplicatesExplained == \A d \in Deliveries : accepted[d] <= 1 + doubts[d]

=============================================================================
