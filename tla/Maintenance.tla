---------------------------- MODULE Maintenance ----------------------------
(***************************************************************************)
(* The job maintenance.cleanup (internal/api/maintenance.go): one row of   *)
(* background_jobs, inserted when a replica starts, whose handler runs one *)
(* bounded DELETE per table and has the job come back.  The job side is    *)
(* BackgroundJobs with this one job.  Each DELETE takes two steps: it      *)
(* chooses the rows on its snapshot, and deletes those that are still      *)
(* there, so that a run which outlived its lease and the run after it may  *)
(* choose the same rows.  What a row must have behind it to be deleted     *)
(* (its lifetime and its retention) is the action Expire; that a chosen    *)
(* row is deleted though it was put to use again is the matter of the      *)
(* tables' own modules (BackgroundJobs, Idempotency, RateLimiter).         *)
(***************************************************************************)
EXTENDS Integers, FiniteSets, Sequences

CONSTANTS
  Stocked,      \* tables that have rows to delete in the instance
  Batch,        \* maintenanceCleanupBatch
  Minute, Hour, \* delays of the next run, in ticks
  MaxRows,      \* bound: rows of a table that expire, in the order of its ORDER BY
  Global,       \* the job
  Workers, Leases, NoLease, NoJob, MaxAttempts, LeaseDuration

VARIABLES
  backlog,  \* rows of each table that may be deleted
  expired,  \* rows of each table that have expired so far
  at,       \* the statement each worker's run is at, in Cleanups
  picked,   \* the rows that statement has chosen and not deleted yet
  full,     \* batchWasFull of each run
  left,     \* tables with more rows than the run could choose, though none of
            \* those it chose was gone when it came to delete them
  job, ahead, worker, cursor, selected   \* see BackgroundJobs

jobVars == <<job, ahead, worker, cursor, selected>>
runVars == <<at, picked, full, left>>
vars == <<backlog, expired, runVars, jobVars>>

J == INSTANCE BackgroundJobs
       WITH Jobs <- {Global}, NumQueues <- 1, QueueOf <- [j \in {Global} |-> 0],
            Rearmable <- {}, Recurring <- {Global}, Delays <- {0, Minute, Hour}

\* The statements of a run, in their order.
Cleanups ==
  <<"idempotency_records", "rate_limit_buckets", "project_user_login_attempts",
    "webauthn_ceremonies", "tenant_member_login_attempts",
    "tenant_member_webauthn_ceremonies", "tenant_member_email_verifications",
    "tenant_member_password_resets", "tenant_member_sessions", "project_user_sessions",
    "oauth_authorization_requests", "oauth_authorization_codes", "oauth_access_tokens",
    "tenant_invitations", "email_deliveries", "background_jobs">>

\* What the constants have to satisfy.
MaintenanceAssumption ==
  /\ Batch \in Nat \ {0} /\ Minute \in Nat /\ Hour \in Nat /\ Minute <= Hour /\ MaxRows \in Nat
  /\ Stocked \subseteq {Cleanups[i] : i \in DOMAIN Cleanups}

\* Only the statements that can find rows are steps of their own; the others
\* delete nothing and are passed over.
PassedOver(from, to) == \A i \in from .. to : Cleanups[i] \notin Stocked

Init ==
  /\ backlog = [t \in Stocked |-> {}]
  /\ expired = [t \in Stocked |-> {}]
  /\ at = [w \in Workers |-> 1]
  /\ picked = [w \in Workers |-> {}]
  /\ full = [w \in Workers |-> FALSE]
  /\ left = [w \in Workers |-> {}]
  /\ J!Init

Expire(t, r) ==
  /\ r \notin expired[t]
  /\ expired' = [expired EXCEPT ![t] = @ \cup {r}]
  /\ backlog' = [backlog EXCEPT ![t] = @ \cup {r}]
  /\ UNCHANGED <<runVars, jobVars>>

\* A row goes without a cleanup: with its member or application (ON DELETE
\* CASCADE), or by the statement of a worker that crashed after sending it.
Vanish(t, r) ==
  /\ r \in backlog[t]
  /\ backlog' = [backlog EXCEPT ![t] = @ \ {r}]
  /\ UNCHANGED <<expired, runVars, jobVars>>

\* INSERT ... ON CONFLICT DO NOTHING: a job that is there stays as it is.
EnsureMaintenanceJob ==
  /\ J!Schedule(Global, 0)
  /\ UNCHANGED <<backlog, expired, runVars>>

----------------------------------------------------------------------------
(* runMaintenanceCleanup.                                                  *)

Running(w) == worker[w].pc = "handling"
Fresh(w) == /\ at' = [at EXCEPT ![w] = 1]
            /\ picked' = [picked EXCEPT ![w] = {}]
            /\ full' = [full EXCEPT ![w] = FALSE]
            /\ left' = [left EXCEPT ![w] = {}]

\* WITH expired AS (SELECT ... ORDER BY ... LIMIT): the first rows of the
\* snapshot, a batch of them if there are as many.
IsBatch(rows, snapshot) ==
  /\ rows \subseteq snapshot
  /\ Cardinality(rows) = IF Cardinality(snapshot) < Batch THEN Cardinality(snapshot) ELSE Batch
  /\ \A r \in rows, q \in snapshot \ rows : r < q

\* A statement that finds nothing is over.
ChooseRows(w, i, rows) ==
  /\ Running(w) /\ picked[w] = {}
  /\ Cleanups[i] \in Stocked /\ PassedOver(at[w], i - 1)
  /\ IsBatch(rows, backlog[Cleanups[i]])
  /\ picked' = [picked EXCEPT ![w] = rows]
  /\ at' = [at EXCEPT ![w] = IF rows = {} THEN i + 1 ELSE i]
  /\ left' = [left EXCEPT ![w] =
                 IF rows # backlog[Cleanups[i]] THEN @ \cup {Cleanups[i]} ELSE @]
  /\ UNCHANGED <<backlog, expired, full, jobVars>>

\* DELETE ... USING expired: the chosen rows that are still there.
\* (Faulty variant: nothing matches.)
DeletedNothing(w, t) == {}
Deleted(w, t) == picked[w] \cap backlog[t]

\* Whether any batch of the run was full, by RowsAffected.
\* (Faulty variant: only the last batch counts.)
WasFullLast(w, n) == n = Batch
WasFull(w, n) == full[w] \/ n = Batch

DeleteRows(w) ==
  /\ Running(w) /\ picked[w] # {}
  /\ LET t == Cleanups[at[w]] IN
     /\ backlog' = [backlog EXCEPT ![t] = @ \ Deleted(w, t)]
     /\ full' = [full EXCEPT ![w] = WasFull(w, Cardinality(Deleted(w, t)))]
     /\ left' = [left EXCEPT ![w] = IF picked[w] \subseteq backlog[t] THEN @ ELSE @ \ {t}]
  /\ picked' = [picked EXCEPT ![w] = {}]
  /\ at' = [at EXCEPT ![w] = @ + 1]
  /\ UNCHANGED <<expired, jobVars>>

\* A statement fails: those before it are committed, those after it are not run.
CleanFails(w) ==
  /\ Running(w)
  /\ \E delay \in J!ReturnTimes(w, "error") : J!HandlerReturns(w, "error", delay)
  /\ Fresh(w)
  /\ UNCHANGED <<backlog, expired>>

NextDelay(w) == IF full[w] THEN Minute ELSE Hour
RunEnds(w) ==
  /\ Running(w) /\ picked[w] = {} /\ PassedOver(at[w], Len(Cleanups))
  /\ J!HandlerReturns(w, "reschedule", NextDelay(w))
  /\ UNCHANGED <<backlog, expired, runVars>>

Handle(w) ==
  \/ \E i \in at[w] .. Len(Cleanups), rows \in SUBSET (1 .. MaxRows) : ChooseRows(w, i, rows)
  \/ DeleteRows(w) \/ RunEnds(w) \/ CleanFails(w)

----------------------------------------------------------------------------
(* The worker loop around it.                                              *)

Poll(w) == J!Poll(w) /\ UNCHANGED <<backlog, expired, runVars>>
Report(w) == J!Report(w) /\ Fresh(w) /\ UNCHANGED <<backlog, expired>>
Crash(w) == J!Crash(w) /\ Fresh(w) /\ UNCHANGED <<backlog, expired>>
ClaimFails(w) == J!ClaimFails(w) /\ UNCHANGED <<backlog, expired, runVars>>
Tick == J!Tick /\ UNCHANGED <<backlog, expired, runVars>>

Next ==
  \/ \E t \in Stocked, r \in 1 .. MaxRows : Expire(t, r) \/ Vanish(t, r)
  \/ EnsureMaintenanceJob
  \/ \E w \in Workers : Handle(w) \/ Poll(w) \/ Report(w) \/ Crash(w) \/ ClaimFails(w)
  \/ Tick

Spec == Init /\ [][Next]_vars

----------------------------------------------------------------------------
(* Properties.                                                             *)

\* The backlog and what a run knows are of their types.
TypeOK ==
  /\ backlog \in [Stocked -> SUBSET (1 .. MaxRows)]
  /\ expired \in [Stocked -> SUBSET (1 .. MaxRows)]
  /\ at \in [Workers -> 1 .. Len(Cleanups) + 1]
  /\ picked \in [Workers -> SUBSET (1 .. MaxRows)]
  /\ full \in [Workers -> BOOLEAN] /\ left \in [Workers -> SUBSET Stocked]

\* Whichever table it is that a run had to leave rows in, the next run follows
\* after a minute (README: "A full batch reschedules after one minute"), also
\* when other runs overlap with it, other batches were not full and rows went
\* under other statements.  The exception is a table whose chosen rows were
\* partly gone when they were to be deleted: RowsAffected is then less than a
\* batch though rows remain, and they wait for an hour.
BacklogSoon ==
  \A w \in Workers :
    worker[w].outcome = "reschedule" /\ left[w] # {} => worker[w].at <= Minute

=============================================================================
