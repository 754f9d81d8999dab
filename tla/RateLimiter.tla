---------------------------- MODULE RateLimiter ----------------------------
(***************************************************************************)
(* The fixed-window rate limiter shared by all replicas                    *)
(* (internal/store/rate_limits.go), as takeRateLimit and resetRateLimit of *)
(* internal/api/server.go use it, with the deletion of expired buckets by  *)
(* the maintenance job (internal/api/maintenance.go).                      *)
(*                                                                         *)
(* Take is one upsert under the lock of the bucket's row, but it reads     *)
(* clock_timestamp() once per column, and the clock may move in between.   *)
(* The cleanup is one statement, but its subquery chooses buckets from a   *)
(* snapshot and the DELETE then compares only their keys: a bucket that    *)
(* Take renews in between is deleted all the same.                         *)
(***************************************************************************)
EXTENDS Naturals, FiniteSets, FiniteSetsExt

CONSTANTS
  Keys,      \* pairs of policy and key_hash
  Limit,     \* the policy's allowance
  Window,    \* its window, in ticks of the clock
  Batch,     \* LIMIT of the cleanup
  MaxTime,   \* bound: the last instant
  MaxBurst   \* bound: requests per key and instant that are let through

\* What the constants have to satisfy.
RateLimiterAssumption ==
  /\ Limit \in Nat \ {0} /\ Window \in Nat \ {0} /\ Batch \in Nat \ {0}
  /\ MaxTime \in Nat /\ MaxBurst \in Nat

VARIABLES
  now,      \* clock_timestamp() of the database
  bucket,   \* rate_limit_buckets: request_count and expires_at by key
  chosen,   \* keys the cleanup's subquery has chosen
  granted,  \* requests of each key let through before each instant, since its last reset
  lost      \* how often the cleanup deleted a bucket in its window

vars == <<now, bucket, chosen, granted, lost>>

NoBucket == [count |-> 0, expires |-> 0]
Live(k) == bucket[k] # NoBucket /\ now < bucket[k].expires
NoGrants == [i \in 0 .. MaxTime + 1 |-> 0]

Init ==
  /\ now = 0
  /\ bucket = [k \in Keys |-> NoBucket]
  /\ chosen = {}
  /\ granted = [k \in Keys |-> NoGrants]
  /\ lost = [k \in Keys |-> 0]

----------------------------------------------------------------------------
(* Take.                                                                   *)

\* The CASE of request_count, at the first reading of the clock.
NextCount(k) == IF Live(k) THEN Min({bucket[k].count + 1, Limit + 1}) ELSE 1

\* The CASE of expires_at, at a reading of the clock that may be a later one.
NextExpiryKept(k, later) ==
  IF bucket[k] = NoBucket THEN later + Window ELSE bucket[k].expires
NextExpiry(k, later) ==
  IF bucket[k] # NoBucket /\ later < bucket[k].expires
  THEN bucket[k].expires ELSE later + Window

Allowed(k) == NextCount(k) <= Limit

\* One more request of the key was let through, at instant t.
Granted(k, t) ==
  [granted EXCEPT ![k] = [i \in 0 .. MaxTime + 1 |-> IF t < i THEN @[i] + 1 ELSE @[i]]]

\* The upsert, and what takeRateLimit makes of its result: the request is let
\* through or refused with 429.  A failure of the database lets nothing through
\* (503) and changes nothing.
Take(k, later) ==
  /\ later \in {now, now + 1} /\ later <= MaxTime
  /\ Allowed(k) => granted[k][later + 1] - granted[k][later] < MaxBurst
  /\ bucket' = [bucket EXCEPT ![k] = [count |-> NextCount(k), expires |-> NextExpiry(k, later)]]
  /\ granted' = IF Allowed(k) THEN Granted(k, later) ELSE granted
  /\ now' = later
  /\ UNCHANGED <<chosen, lost>>

----------------------------------------------------------------------------
(* Reset, after a password that was right.                                 *)

Reset(k) ==
  /\ bucket[k] # NoBucket
  /\ bucket' = [bucket EXCEPT ![k] = NoBucket]
  /\ granted' = [granted EXCEPT ![k] = NoGrants]
  /\ UNCHANGED <<now, chosen, lost>>

----------------------------------------------------------------------------
(* The cleanup.                                                            *)

Expired == {k \in Keys : bucket[k] # NoBucket /\ bucket[k].expires <= now}

\* ORDER BY expires_at LIMIT: no bucket is left that expired before a chosen one.
Oldest(S) ==
  /\ S \subseteq Expired
  /\ Cardinality(S) = Min({Batch, Cardinality(Expired)})
  /\ \A k \in S, j \in Expired \ S : bucket[k].expires <= bucket[j].expires

ChooseExpired(S) ==
  /\ chosen = {} /\ S # {}
  /\ Oldest(S)
  /\ chosen' = S
  /\ UNCHANGED <<now, bucket, granted, lost>>

DeleteChosen ==
  /\ chosen # {}
  /\ bucket' = [k \in Keys |-> IF k \in chosen THEN NoBucket ELSE bucket[k]]
  /\ lost' = [k \in Keys |-> IF k \in chosen /\ Live(k) THEN lost[k] + 1 ELSE lost[k]]
  /\ chosen' = {}
  /\ UNCHANGED <<now, granted>>

----------------------------------------------------------------------------
Tick ==
  /\ now < MaxTime
  /\ now' = now + 1
  /\ UNCHANGED <<bucket, chosen, granted, lost>>

Next ==
  \/ \E k \in Keys, later \in now .. now + 1 : Take(k, later)
  \/ \E k \in Keys : Reset(k)
  \/ \E S \in SUBSET Keys : ChooseExpired(S)
  \/ DeleteChosen
  \/ Tick

Spec == Init /\ [][Next]_vars

----------------------------------------------------------------------------
(* Properties.                                                             *)

\* Requests let through from instant t to before instant u.
Between(k, t, u) == granted[k][Min({u, MaxTime + 1})] - granted[k][t]

\* The columns are of their types; the counter of Take stays at limit+1
\* however many requests are refused, and no window ends later than one
\* window from now.
TypeOK ==
  /\ now \in 0 .. MaxTime
  /\ \A k \in Keys : bucket[k] = NoBucket \/
       (bucket[k].count \in 1 .. Limit + 1 /\ bucket[k].expires \in 1 .. now + Window)
  /\ chosen \subseteq Keys
  /\ \A k \in Keys : lost[k] \in Nat

\* Two fixed windows meet in any stretch of a window's length, so it sees at
\* most twice the limit; every live bucket that the cleanup deletes costs one
\* limit more, and nothing else does: not the edge of the window at which
\* Take's readings of the clock differ, nor refusals.
GrantsBounded ==
  \A k \in Keys, t \in 0 .. MaxTime : Between(k, t, t + Window) <= (2 + lost[k]) * Limit

=============================================================================
