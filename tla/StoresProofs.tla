---------------------------- MODULE StoresProofs ----------------------------
(***************************************************************************)
(* Proofs about what replicas share (MCStores): idempotency records, for   *)
(* any sets of keys, requests, callers and UIDs and any lease duration and *)
(* retention; the schema's history; rate-limit buckets; and lists that are *)
(* read page by page.                                                      *)
(***************************************************************************)
EXTENDS MCStores, FiniteSetTheorems, WellFoundedInduction, TLAPS

-----------------------------------------------------------------------------
(* Idempotency records.                                                    *)


\* A stored response within its retention is that of a retained mutation (also
\* for the keys in `lost', which CommittedIffReplayable leaves out).
CompletedHasEffect ==
    \A k \in Keys :
        rec[k].state = "completed" /\ rec[k].exp > 0
        => [resp |-> rec[k].response, hash |-> rec[k].hash, exp |-> rec[k].exp] \in effects[k]

\* Lease UIDs are not shared: the handler that holds the lease of a record in
\* processing was started for that key and that request.
LeaseInv ==
    /\ \A c \in Clients : req[c].pc = "working" => req[c].lease \in Uids
    /\ \A c, d \in Clients :
          req[c].pc = "working" /\ req[d].pc = "working" /\ req[c].lease = req[d].lease => c = d
    /\ \A c \in Clients, k \in Keys :
          /\ req[c].pc = "working" /\ rec[k].state = "processing"
          /\ rec[k].lease = req[c].lease
          => req[c].key = k /\ req[c].hash = rec[k].hash

IInv == TypeOK /\ CommittedIffReplayable /\ CompletedHasEffect /\ LeaseInv

-----------------------------------------------------------------------------
LEMMA AbsentType == AbsentRecord \in Record
<1>1. AnyHash \in Hashes
  BY IdempotencyAssumption DEF IdempotencyAssumption, AnyHash
<1> QED
  BY <1>1 DEF AbsentRecord, Record

LEMMA ProcessingType ==
    ASSUME NEW h \in Hashes, NEW u \in Uids
    PROVE  ProcessingRecord(h, u) \in Record
BY IdempotencyAssumption DEF IdempotencyAssumption, ProcessingRecord, Record

\* What the steps do to the request they advance.
LEMMA AdvanceEffect ==
    ASSUME TypeOK, NEW c \in Clients, NEW pc, NEW u, Advance(c, pc, u)
    PROVE  \A d \in Clients :
              /\ req'[d].key = req[d].key /\ req'[d].hash = req[d].hash
              /\ d # c => req'[d] = req[d]
              /\ d = c => req'[d].pc = pc /\ req'[d].lease = u
<1>1. \A d \in Clients : req'[d] = IF d = c
         THEN [pc |-> pc, key |-> req[d].key, hash |-> req[d].hash, lease |-> u]
         ELSE req[d]
  BY DEF Advance, TypeOK
<1>2. ASSUME NEW d \in Clients, d = c
      PROVE  /\ req'[d].pc = pc /\ req'[d].lease = u
             /\ req'[d].key = req[d].key /\ req'[d].hash = req[d].hash
  <2>1. req'[c] = [pc |-> pc, key |-> req[c].key, hash |-> req[c].hash, lease |-> u]
    BY <1>1
  <2> QED
    BY <1>2, <2>1
<1>3. ASSUME NEW d \in Clients, d # c PROVE req'[d] = req[d]
  BY <1>1, <1>3
<1> QED
  BY <1>2, <1>3

LEMMA AdvanceType ==
    ASSUME TypeOK, NEW c \in Clients, NEW u \in Uids \cup {NoUid},
           NEW pc \in {"sending", "working", "committed", "retry", "answered", "conflict"},
           Advance(c, pc, u)
    PROVE  req' \in [Clients -> Request]
BY DEF Advance, TypeOK, Request

\* A step that leaves the records and the mutations alone, and after which a
\* request is at work only if it was, with the same lease, keeps the invariant.
LEMMA RequestOnly ==
    ASSUME IInv, rec' = rec, effects' = effects, lost' = lost,
           selected' \in SUBSET Keys, req' \in [Clients -> Request],
           \A c \in Clients : req'[c].pc = "working" => req'[c] = req[c]
    PROVE  IInv'
<1>1. TypeOK'
  BY DEF IInv, TypeOK
<1>2. CommittedIffReplayable' /\ CompletedHasEffect'
  BY DEF IInv, CommittedIffReplayable, CompletedHasEffect
<1>3. LeaseInv'
  BY DEF IInv, LeaseInv
<1> QED
  BY <1>1, <1>2, <1>3 DEF IInv

\* Every step of a handler or caller other than claiming and committing.
LEMMA AdvanceStep ==
    ASSUME IInv, NEW c \in Clients, NEW u \in Uids \cup {NoUid},
           NEW pc \in {"sending", "committed", "retry", "answered", "conflict"},
           Advance(c, pc, u), UNCHANGED <<rec, effects, selected, lost>>
    PROVE  IInv'
<1>1. TypeOK
  BY DEF IInv
<1>2. req' \in [Clients -> Request]
  BY <1>1, AdvanceType
<1>3. \A d \in Clients : req'[d].pc = "working" => req'[d] = req[d]
  BY <1>1, AdvanceEffect
<1> QED
  BY <1>1, <1>2, <1>3, RequestOnly DEF TypeOK

-----------------------------------------------------------------------------
LEMMA ClaimStep ==
    ASSUME IInv, NEW c \in Clients, BeginClaim(c)
    PROVE  IInv'
<1> DEFINE u == CHOOSE x \in Uids \ UidsInUse : TRUE
           k == req[c].key
           h == req[c].hash
<1>1. u \in Uids /\ u \notin UidsInUse
  BY DEF BeginClaim
<1>2. TypeOK /\ k \in Keys /\ h \in Hashes
  BY DEF IInv, TypeOK, Request
<1>3. rec' = [rec EXCEPT ![k] = ProcessingRecord(h, u)]
  BY DEF BeginClaim
<1>4. Advance(c, "working", u)
  BY DEF BeginClaim
<1>5. effects' = effects /\ selected' = selected /\ lost' = lost
  BY DEF BeginClaim
<1>6. MayClaim(rec[k], h)
  BY DEF BeginClaim
<1> HIDE DEF u, k, h
<1>7. TypeOK'
  <2>1. req' \in [Clients -> Request]
    BY <1>1, <1>2, <1>4, AdvanceType
  <2>2. ProcessingRecord(h, u) \in Record
    BY <1>1, <1>2, ProcessingType
  <2> QED
    BY <1>2, <1>3, <1>5, <2>1, <2>2 DEF TypeOK
<1>8. \A i \in Keys : rec'[i] = IF i = k THEN ProcessingRecord(h, u) ELSE rec[i]
  BY <1>2, <1>3 DEF TypeOK
<1>9. /\ ProcessingRecord(h, u).state = "processing"
      /\ ProcessingRecord(h, u).lease = u /\ ProcessingRecord(h, u).hash = h
  BY DEF ProcessingRecord
<1>10. CommittedIffReplayable'
  <2>1. ~(rec[k].state = "completed" /\ rec[k].exp > 0)
    BY <1>2, <1>6 DEF MayClaim, TypeOK, Record
  <2>2. k \notin lost => effects[k] = {}
    BY <1>2, <2>1 DEF IInv, CommittedIffReplayable
  <2>3. ASSUME NEW i \in Keys \ lost
        PROVE  effects'[i] = IF rec'[i].state = "completed" /\ rec'[i].exp > 0
                 THEN {[resp |-> rec'[i].response, hash |-> rec'[i].hash, exp |-> rec'[i].exp]}
                 ELSE {}
    <3>1. CASE i = k
      BY <1>5, <1>8, <1>9, <2>2, <2>3, <3>1
    <3>2. CASE i # k
      BY <1>5, <1>8, <2>3, <3>2 DEF IInv, CommittedIffReplayable
    <3> QED
      BY <3>1, <3>2
  <2> QED
    BY <1>5, <2>3 DEF CommittedIffReplayable
<1>11. CompletedHasEffect'
  BY <1>5, <1>8, <1>9 DEF IInv, CompletedHasEffect
<1>12. LeaseInv'
  <2>1. \A d \in Clients : req[d].lease # u
    BY <1>1 DEF UidsInUse
  <2>2. \A i \in Keys : rec[i].lease # u
    BY <1>1 DEF UidsInUse
  <2>3. \A d \in Clients :
          /\ req'[d].key = req[d].key /\ req'[d].hash = req[d].hash
          /\ d # c => req'[d] = req[d]
          /\ d = c => req'[d].pc = "working" /\ req'[d].lease = u
    BY <1>2, <1>4, AdvanceEffect
  <2>4. \A d \in Clients : req'[d].pc = "working" => req'[d].lease \in Uids
    BY <1>1, <2>3 DEF IInv, LeaseInv
  <2>5. \A d, e \in Clients :
          req'[d].pc = "working" /\ req'[e].pc = "working" /\ req'[d].lease = req'[e].lease => d = e
    BY <2>1, <2>3 DEF IInv, LeaseInv
  <2>6. ASSUME NEW d \in Clients, NEW i \in Keys, req'[d].pc = "working",
               rec'[i].state = "processing", rec'[i].lease = req'[d].lease
        PROVE  req'[d].key = i /\ req'[d].hash = rec'[i].hash
    <3>1. CASE d = c
      <4>1. i = k
        BY <1>8, <2>2, <2>3, <2>6, <3>1
      <4> QED
        BY <1>8, <1>9, <2>3, <3>1, <4>1 DEF k, h
    <3>2. CASE d # c
      <4>1. i # k
        BY <1>8, <1>9, <2>1, <2>3, <2>6, <3>2
      <4> QED
        BY <1>8, <2>3, <2>6, <3>2, <4>1 DEF IInv, LeaseInv
    <3> QED
      BY <3>1, <3>2
  <2> QED
    BY <2>4, <2>5, <2>6 DEF LeaseInv
<1> QED
  BY <1>7, <1>10, <1>11, <1>12 DEF IInv

LEMMA CommitStep ==
    ASSUME IInv, NEW c \in Clients, Commit(c)
    PROVE  IInv'
<1> DEFINE u == req[c].lease
           k == req[c].key
           h == req[c].hash
           new == {[resp |-> u, hash |-> h, exp |-> n] : n \in {rec[k].exp} \ {0}}
<1>1. TypeOK /\ k \in Keys /\ h \in Hashes /\ rec[k] \in Record /\ rec[k].exp \in Nat
  BY DEF IInv, TypeOK, Request, Record
<1>2. /\ rec[k].state = "processing" /\ rec[k].lease = u
      /\ u \in Uids /\ rec[k].hash = h
  BY <1>1 DEF IInv, LeaseInv, Commit, Owns
<1>3. rec' = [rec EXCEPT ![k] = CompletedRecord(rec[k], u)]
  BY <1>1 DEF Commit
<1>4. effects' = [effects EXCEPT ![k] = effects[k] \cup new]
  BY <1>1 DEF Commit
<1>5. Advance(c, "committed", u) /\ selected' = selected /\ lost' = lost
  BY DEF Commit
<1>6. /\ rec[k].exp > 0 => new = {[resp |-> u, hash |-> h, exp |-> rec[k].exp]}
      /\ rec[k].exp = 0 => new = {}
  BY <1>1
<1>7. new \in SUBSET Effect
  BY <1>1, <1>2 DEF Effect
<1> HIDE DEF u, k, h, new
<1>8. CompletedRecord(rec[k], u) =
         [state |-> "completed", hash |-> h, lease |-> u, ttl |-> rec[k].ttl,
          exp |-> rec[k].exp, response |-> u]
  BY <1>2 DEF CompletedRecord
<1>9. CompletedRecord(rec[k], u) \in Record
  BY <1>1, <1>2, <1>8 DEF Record
<1>10. \A i \in Keys : /\ i # k => rec'[i] = rec[i] /\ effects'[i] = effects[i]
                       /\ i = k => /\ rec'[i] = CompletedRecord(rec[k], u)
                                   /\ effects'[i] = effects[k] \cup new
  BY <1>1, <1>3, <1>4 DEF TypeOK
<1>11. TypeOK'
  <2>1. req' \in [Clients -> Request]
    BY <1>1, <1>2, <1>5, AdvanceType
  <2>2. effects' \in [Keys -> SUBSET Effect]
    BY <1>1, <1>4, <1>7 DEF TypeOK
  <2>3. rec' \in [Keys -> Record]
    BY <1>1, <1>3, <1>9 DEF TypeOK
  <2> QED
    BY <1>1, <1>5, <2>1, <2>2, <2>3 DEF TypeOK
<1>12. CommittedIffReplayable'
  <2>1. k \notin lost => effects[k] = {}
    BY <1>1, <1>2 DEF IInv, CommittedIffReplayable
  <2>2. ASSUME NEW i \in Keys \ lost
        PROVE  effects'[i] = IF rec'[i].state = "completed" /\ rec'[i].exp > 0
                 THEN {[resp |-> rec'[i].response, hash |-> rec'[i].hash, exp |-> rec'[i].exp]}
                 ELSE {}
    <3>1. CASE i = k
      <4>1. effects'[i] = new
        BY <1>10, <2>1, <2>2, <3>1
      <4>2. /\ rec'[i].state = "completed" /\ rec'[i].response = u
            /\ rec'[i].hash = h /\ rec'[i].exp = rec[k].exp
        BY <1>8, <1>10, <3>1
      <4> QED
        BY <1>1, <1>6, <4>1, <4>2
    <3>2. CASE i # k
      BY <1>10, <2>2, <3>2 DEF IInv, CommittedIffReplayable
    <3> QED
      BY <3>1, <3>2
  <2> QED
    BY <1>5, <2>2 DEF CommittedIffReplayable
<1>13. CompletedHasEffect'
  <2>1. ASSUME NEW i \in Keys, rec'[i].state = "completed", rec'[i].exp > 0
        PROVE  [resp |-> rec'[i].response, hash |-> rec'[i].hash, exp |-> rec'[i].exp] \in effects'[i]
    <3>1. CASE i = k
      <4>1. /\ rec'[i].response = u /\ rec'[i].hash = h /\ rec'[i].exp = rec[k].exp
        BY <1>8, <1>10, <3>1
      <4> QED
        BY <1>6, <1>10, <2>1, <3>1, <4>1
    <3>2. CASE i # k
      BY <1>10, <2>1, <3>2 DEF IInv, CompletedHasEffect
    <3> QED
      BY <3>1, <3>2
  <2> QED
    BY <2>1 DEF CompletedHasEffect
<1>14. LeaseInv'
  <2>1. \A d \in Clients : /\ req'[d].pc = "working" => req'[d] = req[d]
                           /\ req'[d].key = req[d].key /\ req'[d].hash = req[d].hash
    BY <1>1, <1>5, AdvanceEffect
  <2>2. \A i \in Keys : rec'[i].state = "processing" => rec'[i] = rec[i]
    BY <1>8, <1>10
  <2> QED
    BY <2>1, <2>2 DEF IInv, LeaseInv
<1> QED
  BY <1>11, <1>12, <1>13, <1>14 DEF IInv

LEMMA CleanupStep ==
    ASSUME IInv, NEW k \in Keys, CleanupDelete(k)
    PROVE  IInv'
<1>1. TypeOK
  BY DEF IInv
<1>2. AbsentRecord.state = "absent"
  BY DEF AbsentRecord
<1>3. \A i \in Keys : rec'[i] = IF i = k THEN AbsentRecord ELSE rec[i]
  BY <1>1 DEF CleanupDelete, TypeOK
<1>4. TypeOK'
  BY <1>1, AbsentType DEF CleanupDelete, TypeOK
<1>5. effects' = effects /\ req' = req
  BY DEF CleanupDelete
<1>6. \A i \in Keys \ lost' : i \in Keys \ lost
  BY DEF CleanupDelete
<1>7. k \notin lost' => effects[k] = {}
  <2>1. k \notin lost' => k \notin lost /\ ~(rec[k].state = "completed" /\ rec[k].exp > 0)
    BY DEF CleanupDelete
  <2> QED
    BY <2>1 DEF IInv, CommittedIffReplayable
<1>8. CommittedIffReplayable'
  <2>1. ASSUME NEW i \in Keys \ lost'
        PROVE  effects'[i] = IF rec'[i].state = "completed" /\ rec'[i].exp > 0
                 THEN {[resp |-> rec'[i].response, hash |-> rec'[i].hash, exp |-> rec'[i].exp]}
                 ELSE {}
    <3>1. CASE i = k
      BY <1>2, <1>3, <1>5, <1>7, <2>1, <3>1
    <3>2. CASE i # k
      <4>1. i \in Keys \ lost
        BY <1>6, <2>1
      <4> QED
        BY <1>3, <1>5, <3>2, <4>1 DEF IInv, CommittedIffReplayable
    <3> QED
      BY <3>1, <3>2
  <2> QED
    BY <2>1 DEF CommittedIffReplayable
<1>9. CompletedHasEffect'
  BY <1>2, <1>3, <1>5 DEF IInv, CompletedHasEffect
<1>10. LeaseInv'
  BY <1>2, <1>3, <1>5 DEF IInv, LeaseInv
<1> QED
  BY <1>4, <1>8, <1>9, <1>10 DEF IInv

LEMMA RecordLaterFields ==
    ASSUME NEW r
    PROVE  /\ RecordLater(r).state = r.state /\ RecordLater(r).hash = r.hash
           /\ RecordLater(r).lease = r.lease /\ RecordLater(r).response = r.response
           /\ RecordLater(r).exp = Elapsed(r.exp)
BY DEF RecordLater

LEMMA ElapsedValue ==
    ASSUME NEW n \in Nat
    PROVE  /\ n > 1 => Elapsed(n) = n - 1 /\ Elapsed(n) > 0
           /\ Elapsed(n) > 0 => n > 1
BY DEF Elapsed

LEMMA TickStep ==
    ASSUME IInv, Tick
    PROVE  IInv'
<1> DEFINE later(e) == [resp |-> e.resp, hash |-> e.hash, exp |-> e.exp - 1]
           after(S) == {later(e) : e \in {x \in S : x.exp > 1}}
<1>1. TypeOK
  BY DEF IInv
<1>2. \A k \in Keys : effects'[k] = after(effects[k])
  BY DEF Tick
<1>3. \A k \in Keys : rec'[k] = RecordLater(rec[k])
  BY DEF Tick
<1>4. \A k \in Keys : /\ rec'[k].state = rec[k].state /\ rec'[k].hash = rec[k].hash
                      /\ rec'[k].lease = rec[k].lease /\ rec'[k].response = rec[k].response
                      /\ rec'[k].exp = Elapsed(rec[k].exp)
  BY <1>3, RecordLaterFields
<1>5. \A k \in Keys : rec[k].exp \in Nat
  BY <1>1 DEF TypeOK, Record
<1>6. TypeOK'
  <2>1. \A k \in Keys : RecordLater(rec[k]) \in Record
    BY <1>1 DEF TypeOK, Record, RecordLater, Elapsed
  <2>2. ASSUME NEW k \in Keys, NEW e \in effects[k], e.exp > 1 PROVE later(e) \in Effect
    <3>1. e \in Effect
      BY <1>1, <2>2 DEF TypeOK
    <3> QED
      BY <2>2, <3>1 DEF Effect
  <2>3. \A k \in Keys : after(effects[k]) \in SUBSET Effect
    BY <2>2
  <2>4. effects' \in [Keys -> SUBSET Effect]
    BY <2>3 DEF Tick
  <2> QED
    BY <1>1, <2>1, <2>4 DEF Tick, TypeOK
<1>7. CompletedHasEffect'
  <2>1. ASSUME NEW k \in Keys, rec'[k].state = "completed", rec'[k].exp > 0
        PROVE  [resp |-> rec'[k].response, hash |-> rec'[k].hash, exp |-> rec'[k].exp] \in effects'[k]
    <3> DEFINE e == [resp |-> rec[k].response, hash |-> rec[k].hash, exp |-> rec[k].exp]
    <3>1. rec[k].exp > 1 /\ rec'[k].exp = rec[k].exp - 1
      <4>1. rec[k].exp \in Nat /\ rec'[k].exp = Elapsed(rec[k].exp)
        BY <1>4, <1>5
      <4> QED
        BY <2>1, <4>1, ElapsedValue
    <3>2. e \in effects[k] /\ e.exp > 1
      <4>1. rec[k].state = "completed" /\ rec[k].exp > 0
        BY <1>4, <1>5, <2>1, <3>1
      <4> QED
        BY <3>1, <4>1 DEF IInv, CompletedHasEffect
    <3>3. later(e) \in after(effects[k])
      BY <3>2
    <3>4. later(e) = [resp |-> rec'[k].response, hash |-> rec'[k].hash, exp |-> rec'[k].exp]
      BY <1>4, <3>1
    <3> QED
      BY <1>2, <3>3, <3>4
  <2> QED
    BY <2>1 DEF CompletedHasEffect
<1>8. CommittedIffReplayable'
  <2>1. ASSUME NEW k \in Keys \ lost'
        PROVE  effects'[k] = IF rec'[k].state = "completed" /\ rec'[k].exp > 0
                 THEN {[resp |-> rec'[k].response, hash |-> rec'[k].hash, exp |-> rec'[k].exp]}
                 ELSE {}
    <3>1. CASE k \in lost
      <4>1. effects'[k] = {}
        BY <2>1, <3>1 DEF Tick
      <4>2. ~(rec'[k].state = "completed" /\ rec'[k].exp > 0)
        BY <1>7, <4>1 DEF CompletedHasEffect
      <4> QED
        BY <4>1, <4>2
    <3>2. CASE k \notin lost
      <4> DEFINE e == [resp |-> rec[k].response, hash |-> rec[k].hash, exp |-> rec[k].exp]
      <4>1. effects[k] = IF rec[k].state = "completed" /\ rec[k].exp > 0 THEN {e} ELSE {}
        BY <3>2 DEF IInv, CommittedIffReplayable
      <4>2. CASE rec[k].state = "completed" /\ rec[k].exp > 1
        <5>1. effects'[k] = {later(e)}
          <6>1. effects[k] = {e}
            BY <1>5, <4>1, <4>2
          <6>2. {x \in effects[k] : x.exp > 1} = {e}
            BY <4>2, <6>1
          <6>3. after(effects[k]) = {later(e)}
            BY <6>2, Zenon
          <6> QED
            BY <1>2, <6>3
        <5>2. rec'[k].state = "completed" /\ rec'[k].exp = rec[k].exp - 1 /\ rec'[k].exp > 0
          BY <1>4, <1>5, <4>2, ElapsedValue
        <5>3. later(e) = [resp |-> rec'[k].response, hash |-> rec'[k].hash, exp |-> rec'[k].exp]
          BY <1>4, <5>2
        <5> QED
          BY <5>1, <5>2, <5>3
      <4>3. CASE ~(rec[k].state = "completed" /\ rec[k].exp > 1)
        <5>1. effects'[k] = {}
          BY <1>2, <1>5, <4>1, <4>3
        <5>2. ~(rec'[k].state = "completed" /\ rec'[k].exp > 0)
          BY <1>4, <1>5, <4>3, ElapsedValue
        <5> QED
          BY <5>1, <5>2
      <4> QED
        BY <4>2, <4>3
    <3> QED
      BY <3>1, <3>2
  <2> QED
    BY <2>1 DEF CommittedIffReplayable
<1>9. LeaseInv'
  BY <1>4 DEF Tick, IInv, LeaseInv
<1> QED
  BY <1>6, <1>7, <1>8, <1>9 DEF IInv

-----------------------------------------------------------------------------
LEMMA InitInv == Init => IInv
<1> SUFFICES ASSUME Init PROVE IInv
  OBVIOUS
<1>1. TypeOK
  BY AbsentType DEF Init, TypeOK, Request
<1>2. CommittedIffReplayable /\ CompletedHasEffect /\ LeaseInv
  BY DEF Init, CommittedIffReplayable, CompletedHasEffect, LeaseInv, AbsentRecord
<1> QED
  BY <1>1, <1>2 DEF IInv

LEMMA NextInv == IInv /\ [Next]_vars => IInv'
<1> SUFFICES ASSUME IInv, [Next]_vars PROVE IInv'
  OBVIOUS
<1>1. ASSUME NEW c \in Clients, Begin(c) PROVE IInv'
  <2>1. CASE BeginClaim(c)
    BY <2>1, ClaimStep
  <2>2. CASE BeginConflict(c)
    BY <2>2, AdvanceStep DEF BeginConflict
  <2>3. CASE BeginReplay(c)
    <3>1. rec[req[c].key].response \in Uids \cup {NoUid}
      BY DEF IInv, TypeOK, Record, Request
    <3> QED
      BY <2>3, <3>1, AdvanceStep DEF BeginReplay
  <2>4. CASE BeginInProgress(c)
    BY <2>4, AdvanceStep DEF BeginInProgress
  <2> QED
    BY <1>1, <2>1, <2>2, <2>3, <2>4 DEF Begin
<1>2. ASSUME NEW c \in Clients, Finish(c) PROVE IInv'
  BY <1>2, CommitStep, AdvanceStep DEF Finish, CommitLost
<1>3. ASSUME NEW c \in Clients, Fail(c) PROVE IInv'
  BY <1>3, AdvanceStep DEF Fail, BeginFails, Abort, LoseResponse
<1>4. ASSUME NEW c \in Clients, Respond(c) \/ Resend(c) PROVE IInv'
  <2>1. req[c].lease \in Uids \cup {NoUid}
    BY DEF IInv, TypeOK, Request
  <2> QED
    BY <1>4, <2>1, AdvanceStep DEF Respond, Resend
<1>5. ASSUME NEW c \in Clients, NEW k \in Keys, NEW h \in Hashes, NewRequest(c, k, h) PROVE IInv'
  <2>1. \A d \in Clients : req'[d] = IF d = c
           THEN [pc |-> "sending", key |-> k, hash |-> h, lease |-> NoUid] ELSE req[d]
    BY <1>5 DEF NewRequest, IInv, TypeOK
  <2>2. req' \in [Clients -> Request]
    BY <1>5 DEF NewRequest, IInv, TypeOK, Request
  <2>3. \A d \in Clients : req'[d].pc = "working" => req'[d] = req[d]
    BY <2>1
  <2> QED
    BY <1>5, <2>2, <2>3, RequestOnly DEF NewRequest, IInv, TypeOK
<1>6. CASE CleanupSelect
  <2>1. \A c \in Clients : req'[c] = req[c]
    BY <1>6 DEF CleanupSelect
  <2> QED
    BY <1>6, <2>1, RequestOnly DEF CleanupSelect, IInv, TypeOK
<1>7. ASSUME NEW k \in Keys, CleanupDelete(k) PROVE IInv'
  BY <1>7, CleanupStep
<1>8. CASE Tick
  BY <1>8, TickStep
<1>9. CASE UNCHANGED vars
  BY <1>9, RequestOnly DEF vars, IInv, TypeOK
<1> QED
  BY <1>1, <1>2, <1>3, <1>4, <1>5, <1>6, <1>7, <1>8, <1>9 DEF Next

\* The inductive invariant holds in every reachable state.
THEOREM Invariance == Spec => []IInv
<1> QED
  BY InitInv, NextInv, PTL DEF Spec

\* Every variable keeps its type.
THEOREM TypeCorrect == Spec => []TypeOK
<1>1. IInv => TypeOK
  BY DEF IInv
<1> QED
  BY <1>1, Invariance, PTL

\* There is no crash window: what is committed is replayable, and only that.
THEOREM CommittedIffReplayableHolds == Spec => []CommittedIffReplayable
<1>1. IInv => CommittedIffReplayable
  BY DEF IInv
<1> QED
  BY <1>1, Invariance, PTL

-----------------------------------------------------------------------------
(* What callers are answered.                                              *)

\* The lease of a handler at work has been given to nobody else: no caller has
\* it, and no stored response and no mutation is known by it.
FreshInv ==
    \A c \in Clients : req[c].pc = "working" =>
        /\ \A d \in Clients : req[d].lease = req[c].lease => d = c
        /\ \A k \in Keys : rec[k].response # req[c].lease
        /\ \A k \in Keys : \A e \in effects[k] : e.resp # req[c].lease

\* A response belongs to one request: retained mutations of a key that share it
\* were asked for by the same one, and whoever was answered by it has sent it.
AnswerInv ==
    /\ \A k \in Keys : \A e, f \in effects[k] : e.resp = f.resp => e.hash = f.hash
    /\ \A c \in Clients : req[c].pc \in {"committed", "answered"} =>
          \A e \in effects[req[c].key] : e.resp = req[c].lease => e.hash = req[c].hash

AInv == FreshInv /\ AnswerInv

\* A step that leaves records and mutations alone, in which a request is
\* answered only by what answered it before, keeps the invariant.
LEMMA AnswersKept ==
    ASSUME TypeOK, AInv, rec' = rec, effects' = effects,
           \A c \in Clients :
             \/ req'[c] = req[c]
             \/ req'[c].pc \in {"sending", "retry", "conflict"} /\ req'[c].lease = NoUid
             \/ /\ req[c].pc = "committed" /\ req'[c].pc = "answered"
                /\ req'[c].lease = req[c].lease
                /\ req'[c].key = req[c].key /\ req'[c].hash = req[c].hash,
           LeaseInv
    PROVE  AInv'
<1>1. FreshInv'
  <2> SUFFICES ASSUME NEW c \in Clients, req'[c].pc = "working"
               PROVE  /\ \A d \in Clients : req'[d].lease = req'[c].lease => d = c
                      /\ \A k \in Keys : rec[k].response # req'[c].lease
                      /\ \A k \in Keys : \A e \in effects[k] : e.resp # req'[c].lease
    BY DEF FreshInv
  <2>1. req'[c] = req[c]
    OBVIOUS
  <2>2. req[c].lease # NoUid
    BY <2>1, IdempotencyAssumption DEF LeaseInv
  <2> QED
    BY <2>1, <2>2 DEF AInv, FreshInv
<1>2. AnswerInv'
  BY DEF AInv, AnswerInv
<1> QED
  BY <1>1, <1>2 DEF AInv

\* The steps of handlers and callers that leave the record as it is.
LEMMA AnswersAdvance ==
    ASSUME IInv, AInv, NEW c \in Clients, UNCHANGED <<rec, effects>>,
           NEW pc, NEW u, Advance(c, pc, u),
           \/ pc \in {"sending", "retry", "conflict"} /\ u = NoUid
           \/ req[c].pc = "committed" /\ pc = "answered" /\ u = req[c].lease
    PROVE  AInv'
<1>1. TypeOK /\ LeaseInv
  BY DEF IInv
<1>2. \A d \in Clients :
         /\ req'[d].key = req[d].key /\ req'[d].hash = req[d].hash
         /\ d # c => req'[d] = req[d]
         /\ d = c => req'[d].pc = pc /\ req'[d].lease = u
  BY <1>1, AdvanceEffect
<1> QED
  BY <1>1, <1>2, AnswersKept

\* A claim takes a UID that nothing refers to.
LEMMA ClaimAnswers ==
    ASSUME IInv, AInv, NEW c \in Clients, BeginClaim(c)
    PROVE  AInv'
<1> DEFINE u == CHOOSE x \in Uids \ UidsInUse : TRUE
           k == req[c].key
<1>1. u \in Uids /\ u \notin UidsInUse
  BY DEF BeginClaim
<1>2. TypeOK /\ k \in Keys
  BY DEF IInv, TypeOK, Request
<1>3. /\ rec' = [rec EXCEPT ![k] = ProcessingRecord(req[c].hash, u)]
      /\ Advance(c, "working", u) /\ effects' = effects
  BY DEF BeginClaim
<1> HIDE DEF u, k
<1>4. \A i \in Keys : rec'[i] = IF i = k THEN ProcessingRecord(req[c].hash, u) ELSE rec[i]
  BY <1>2, <1>3 DEF TypeOK
<1>5. \A i \in Keys : rec'[i].response = IF i = k THEN NoUid ELSE rec[i].response
  BY <1>4 DEF ProcessingRecord
<1>6. \A d \in Clients :
         /\ req'[d].key = req[d].key /\ req'[d].hash = req[d].hash
         /\ d # c => req'[d] = req[d]
         /\ d = c => req'[d].pc = "working" /\ req'[d].lease = u
  BY <1>2, <1>3, AdvanceEffect
<1>7. /\ \A d \in Clients : req[d].lease # u
      /\ \A i \in Keys : rec[i].response # u
      /\ \A i \in Keys : \A e \in effects[i] : e.resp # u
  BY <1>1 DEF UidsInUse
<1>8. FreshInv'
  <2> SUFFICES ASSUME NEW d \in Clients, req'[d].pc = "working"
               PROVE  /\ \A e \in Clients : req'[e].lease = req'[d].lease => e = d
                      /\ \A i \in Keys : rec'[i].response # req'[d].lease
                      /\ \A i \in Keys : \A e \in effects'[i] : e.resp # req'[d].lease
    BY DEF FreshInv
  <2>1. u # NoUid
    BY <1>1, IdempotencyAssumption
  <2>2. CASE d = c
    BY <1>3, <1>5, <1>6, <1>7, <2>1, <2>2
  <2>3. CASE d # c
    <3>1. req'[d] = req[d] /\ req[d].lease # NoUid
      BY <1>6, <2>3, IdempotencyAssumption DEF IInv, LeaseInv
    <3> QED
      BY <1>3, <1>5, <1>6, <1>7, <2>3, <3>1 DEF AInv, FreshInv
  <2> QED
    BY <2>2, <2>3
<1>9. AnswerInv'
  BY <1>3, <1>6 DEF AInv, AnswerInv
<1> QED
  BY <1>8, <1>9 DEF AInv

\* A commit adds a mutation under the handler's own lease.
LEMMA CommitAnswers ==
    ASSUME IInv, AInv, NEW c \in Clients, Commit(c)
    PROVE  AInv'
<1> DEFINE u == req[c].lease
           k == req[c].key
           h == req[c].hash
           new == {[resp |-> u, hash |-> h, exp |-> n] : n \in {rec[k].exp} \ {0}}
<1>1. TypeOK /\ k \in Keys
  BY DEF IInv, TypeOK, Request
<1>2. /\ rec' = [rec EXCEPT ![k] = CompletedRecord(rec[k], u)]
      /\ effects' = [effects EXCEPT ![k] = effects[k] \cup new]
      /\ Advance(c, "committed", u) /\ req[c].pc = "working"
  BY <1>1 DEF Commit
<1>3. \A e \in new : e.resp = u /\ e.hash = h
  OBVIOUS
<1>4. /\ \A d \in Clients : req[d].lease = u => d = c
      /\ \A i \in Keys : rec[i].response # u
      /\ \A i \in Keys : \A e \in effects[i] : e.resp # u
  BY <1>2 DEF AInv, FreshInv
<1>5. \A d \in Clients :
         /\ req'[d].key = req[d].key /\ req'[d].hash = req[d].hash
         /\ d # c => req'[d] = req[d]
         /\ d = c => req'[d].pc = "committed" /\ req'[d].lease = u
  BY <1>1, <1>2, AdvanceEffect
<1>6. req'[c].key = k /\ req'[c].hash = h
  BY <1>5
<1> HIDE DEF u, k, h, new
<1>7. \A i \in Keys : effects'[i] = IF i = k THEN effects[i] \cup new ELSE effects[i]
  BY <1>1, <1>2 DEF TypeOK
<1>8. \A i \in Keys : rec'[i].response = IF i = k THEN u ELSE rec[i].response
  BY <1>1, <1>2 DEF TypeOK, CompletedRecord
<1>9. FreshInv'
  <2> SUFFICES ASSUME NEW d \in Clients, req'[d].pc = "working"
               PROVE  /\ \A e \in Clients : req'[e].lease = req'[d].lease => e = d
                      /\ \A i \in Keys : rec'[i].response # req'[d].lease
                      /\ \A i \in Keys : \A e \in effects'[i] : e.resp # req'[d].lease
    BY DEF FreshInv
  <2>1. d # c /\ req'[d] = req[d]
    BY <1>5
  <2>2. req[d].lease # u
    BY <1>4, <2>1
  <2>3. \A e \in Clients : req'[e].lease = req'[d].lease => e = d
    <3>1. \A e \in Clients : req'[e].lease = req[e].lease
      BY <1>5 DEF u
    <3> QED
      BY <2>1, <3>1 DEF AInv, FreshInv
  <2> QED
    BY <1>3, <1>7, <1>8, <2>1, <2>2, <2>3 DEF AInv, FreshInv
<1>10. AnswerInv'
  <2>1. ASSUME NEW i \in Keys, NEW e \in effects'[i], NEW f \in effects'[i], e.resp = f.resp
        PROVE  e.hash = f.hash
    <3>1. CASE e \in effects[i] /\ f \in effects[i]
      BY <2>1, <3>1 DEF AInv, AnswerInv
    <3>2. CASE e \in new /\ f \in new
      BY <1>3, <3>2
    <3>3. CASE e \in new /\ f \in effects[i]
      BY <1>3, <1>4, <2>1, <3>3
    <3>4. CASE e \in effects[i] /\ f \in new
      BY <1>3, <1>4, <2>1, <3>4
    <3>5. (e \in effects[i] \/ e \in new) /\ (f \in effects[i] \/ f \in new)
      BY <1>7
    <3> QED
      BY <3>1, <3>2, <3>3, <3>4, <3>5
  <2>2. ASSUME NEW d \in Clients, req'[d].pc \in {"committed", "answered"},
               NEW e \in effects'[req'[d].key], e.resp = req'[d].lease
        PROVE  e.hash = req'[d].hash
    <3>1. req[d].key \in Keys /\ req'[d].key = req[d].key
      BY <1>1, <1>5 DEF TypeOK, Request
    <3>2. CASE d = c
      BY <1>1, <1>3, <1>4, <1>5, <1>6, <1>7, <2>2, <3>2
    <3>3. CASE d # c
      <4>1. req'[d] = req[d] /\ req[d].lease # u
        BY <1>4, <1>5, <3>3
      <4>2. e \in effects[req[d].key]
        BY <1>3, <1>7, <2>2, <3>1, <4>1
      <4> QED
        BY <2>2, <4>1, <4>2 DEF AInv, AnswerInv
    <3> QED
      BY <3>2, <3>3
  <2> QED
    BY <2>1, <2>2 DEF AnswerInv
<1> QED
  BY <1>9, <1>10 DEF AInv

\* A replay answers with the response of the request that was sent.
LEMMA ReplayAnswers ==
    ASSUME IInv, AInv, NEW c \in Clients, BeginReplay(c)
    PROVE  AInv'
<1> DEFINE k == req[c].key
           r == rec[k].response
<1>1. TypeOK /\ LeaseInv /\ k \in Keys
  BY DEF IInv, TypeOK, Request
<1>2. \A d \in Clients :
         /\ req'[d].key = req[d].key /\ req'[d].hash = req[d].hash
         /\ d # c => req'[d] = req[d]
         /\ d = c => req'[d].pc = "answered" /\ req'[d].lease = r
  BY <1>1, AdvanceEffect DEF BeginReplay
<1>3. rec' = rec /\ effects' = effects
  BY DEF BeginReplay
<1>4. rec[k].state = "completed" /\ rec[k].exp > 0 /\ rec[k].hash = req[c].hash
  BY <1>1 DEF BeginReplay, Settled, Conflicts, MayClaim, TypeOK, Record
<1>5. [resp |-> r, hash |-> rec[k].hash, exp |-> rec[k].exp] \in effects[k]
  BY <1>1, <1>4 DEF IInv, CompletedHasEffect
<1>6. \A e \in effects[k] : e.resp = r => e.hash = req[c].hash
  BY <1>1, <1>4, <1>5 DEF AInv, AnswerInv
<1>7. FreshInv'
  <2> SUFFICES ASSUME NEW d \in Clients, req'[d].pc = "working"
               PROVE  /\ \A e \in Clients : req'[e].lease = req'[d].lease => e = d
                      /\ \A i \in Keys : rec[i].response # req'[d].lease
                      /\ \A i \in Keys : \A e \in effects[i] : e.resp # req'[d].lease
    BY <1>3 DEF FreshInv
  <2>1. d # c /\ req'[d] = req[d]
    BY <1>2
  <2> QED
    BY <1>1, <1>2, <2>1 DEF AInv, FreshInv
<1>8. AnswerInv'
  <2>1. ASSUME NEW d \in Clients, req'[d].pc \in {"committed", "answered"},
               NEW e \in effects[req'[d].key], e.resp = req'[d].lease
        PROVE  e.hash = req'[d].hash
    <3>1. CASE d = c
      BY <1>2, <1>6, <2>1, <3>1
    <3>2. CASE d # c
      BY <1>2, <2>1, <3>2 DEF AInv, AnswerInv
    <3> QED
      BY <3>1, <3>2
  <2> QED
    BY <1>3, <2>1 DEF AInv, AnswerInv
<1> QED
  BY <1>7, <1>8 DEF AInv

\* Time and the cleanup leave responses and requests as they are.
LEMMA TickAnswers ==
    ASSUME IInv, AInv, Tick
    PROVE  AInv'
<1>1. \A k \in Keys : rec'[k].response = rec[k].response
  BY RecordLaterFields DEF Tick
<1>2. \A k \in Keys : \A e \in effects'[k] :
         \E f \in effects[k] : e.resp = f.resp /\ e.hash = f.hash
  BY DEF Tick
<1>3. req' = req
  BY DEF Tick
<1>4. FreshInv'
  <2> SUFFICES ASSUME NEW c \in Clients, req[c].pc = "working"
               PROVE  /\ \A d \in Clients : req[d].lease = req[c].lease => d = c
                      /\ \A k \in Keys : rec'[k].response # req[c].lease
                      /\ \A k \in Keys : \A e \in effects'[k] : e.resp # req[c].lease
    BY <1>3 DEF FreshInv
  <2> QED
    BY <1>1, <1>2 DEF AInv, FreshInv
<1>5. AnswerInv'
  <2>1. ASSUME NEW k \in Keys, NEW e \in effects'[k], NEW f \in effects'[k], e.resp = f.resp
        PROVE  e.hash = f.hash
    BY <1>2, <2>1 DEF AInv, AnswerInv
  <2>2. ASSUME NEW c \in Clients, req[c].pc \in {"committed", "answered"},
               NEW e \in effects'[req[c].key], e.resp = req[c].lease
        PROVE  e.hash = req[c].hash
    <3>1. req[c].key \in Keys
      BY DEF IInv, TypeOK, Request
    <3> QED
      BY <1>2, <2>2, <3>1 DEF AInv, AnswerInv
  <2> QED
    BY <1>3, <2>1, <2>2 DEF AnswerInv
<1> QED
  BY <1>4, <1>5 DEF AInv

LEMMA CleanupAnswers ==
    ASSUME IInv, AInv, NEW k \in Keys, CleanupDelete(k)
    PROVE  AInv'
<1>1. \A i \in Keys : rec'[i].response \in {NoUid, rec[i].response}
  BY DEF IInv, TypeOK, CleanupDelete, AbsentRecord
<1>2. effects' = effects /\ req' = req
  BY DEF CleanupDelete
<1>3. \A c \in Clients : req[c].pc = "working" => req[c].lease # NoUid
  BY IdempotencyAssumption DEF IInv, LeaseInv
<1>4. FreshInv'
  <2> SUFFICES ASSUME NEW c \in Clients, req[c].pc = "working"
               PROVE  /\ \A d \in Clients : req[d].lease = req[c].lease => d = c
                      /\ \A i \in Keys : rec'[i].response # req[c].lease
                      /\ \A i \in Keys : \A e \in effects[i] : e.resp # req[c].lease
    BY <1>2 DEF FreshInv
  <2> QED
    BY <1>1, <1>3 DEF AInv, FreshInv
<1> QED
  BY <1>2, <1>4 DEF AInv, AnswerInv

LEMMA AnswersStep == IInv /\ AInv /\ [Next]_vars => AInv'
<1> SUFFICES ASSUME IInv, AInv, [Next]_vars PROVE AInv'
  OBVIOUS
<1>1. ASSUME NEW c \in Clients, Begin(c) PROVE AInv'
  <2>1. CASE BeginClaim(c)
    BY <2>1, ClaimAnswers
  <2>2. CASE BeginReplay(c)
    BY <2>2, ReplayAnswers
  <2>3. CASE BeginConflict(c) \/ BeginInProgress(c)
    BY <2>3, AnswersAdvance DEF BeginConflict, BeginInProgress
  <2> QED
    BY <1>1, <2>1, <2>2, <2>3 DEF Begin
<1>2. ASSUME NEW c \in Clients, Finish(c) PROVE AInv'
  BY <1>2, CommitAnswers, AnswersAdvance DEF Finish, CommitLost
<1>3. ASSUME NEW c \in Clients, Fail(c) PROVE AInv'
  BY <1>3, AnswersAdvance DEF Fail, BeginFails, Abort, LoseResponse
<1>4. ASSUME NEW c \in Clients, Respond(c) \/ Resend(c) PROVE AInv'
  BY <1>4, AnswersAdvance DEF Respond, Resend
<1>5. ASSUME NEW c \in Clients, NEW k \in Keys, NEW h \in Hashes, NewRequest(c, k, h) PROVE AInv'
  <2>1. \A d \in Clients : req'[d] = IF d = c
           THEN [pc |-> "sending", key |-> k, hash |-> h, lease |-> NoUid] ELSE req[d]
    BY <1>5 DEF NewRequest, IInv, TypeOK
  <2> QED
    BY <1>5, <2>1, AnswersKept DEF NewRequest, IInv
<1>6. CASE CleanupSelect
  BY <1>6, AnswersKept DEF CleanupSelect, IInv
<1>7. ASSUME NEW k \in Keys, CleanupDelete(k) PROVE AInv'
  BY <1>7, CleanupAnswers
<1>8. CASE Tick
  BY <1>8, TickAnswers
<1>9. CASE UNCHANGED vars
  BY <1>9, AnswersKept DEF vars, IInv
<1> QED
  BY <1>1, <1>2, <1>3, <1>4, <1>5, <1>6, <1>7, <1>8, <1>9 DEF Next

\* Callers of a key that a retained mutation answered were given the same
\* response and had sent the same request (Begin, CompleteTx, the replay).
THEOREM AnswersAgreeHolds == Spec => []AnswersAgree
<1>1. Init => AInv
  BY DEF Init, AInv, FreshInv, AnswerInv
<1>2. IInv /\ AInv => AnswersAgree
  <2> SUFFICES ASSUME IInv, AInv, NEW c \in Clients, NEW d \in Clients,
                      req[c].pc \in {"committed", "answered"},
                      req[d].pc \in {"committed", "answered"},
                      req[c].key = req[d].key, req[c].key \notin lost,
                      NEW e \in effects[req[c].key], e.resp = req[c].lease,
                      NEW f \in effects[req[c].key], f.resp = req[d].lease
               PROVE  req[c].lease = req[d].lease /\ req[c].hash = req[d].hash
    BY DEF AnswersAgree
  <2>1. req[c].key \in Keys \ lost
    BY DEF IInv, TypeOK, Request
  <2>2. e = f
    <3> DEFINE k == req[c].key
               x == [resp |-> rec[k].response, hash |-> rec[k].hash, exp |-> rec[k].exp]
    <3>1. effects[k] = IF rec[k].state = "completed" /\ rec[k].exp > 0 THEN {x} ELSE {}
      BY <2>1 DEF IInv, CommittedIffReplayable
    <3> QED
      BY <3>1
  <2> QED
    BY <2>2 DEF AInv, AnswerInv
<1> QED
  BY <1>1, <1>2, Invariance, AnswersStep, PTL DEF Spec

-----------------------------------------------------------------------------
\* A record does not expire before its lease does, since the retention that
\* validateIdempotencyRequest accepts is longer than the lease.
LeaseWithinRetention == \A k \in Keys : rec[k].ttl <= rec[k].exp

LEMMA LeaseWithinRetentionHolds == Spec => []LeaseWithinRetention
<1>1. Init => LeaseWithinRetention
  BY DEF Init, LeaseWithinRetention, AbsentRecord
<1>2. TypeOK /\ LeaseWithinRetention /\ [Next]_vars => LeaseWithinRetention'
  <2> SUFFICES ASSUME TypeOK, LeaseWithinRetention, [Next]_vars PROVE LeaseWithinRetention'
    OBVIOUS
  <2>1. ASSUME NEW c \in Clients, BeginClaim(c) PROVE LeaseWithinRetention'
    <3>1. \A k \in Keys :
             \/ rec'[k] = rec[k]
             \/ rec'[k].ttl = LeaseDuration /\ rec'[k].exp = Retention
      BY <2>1 DEF BeginClaim, TypeOK, ProcessingRecord
    <3> QED
      BY <3>1, IdempotencyAssumption DEF LeaseWithinRetention
  <2>2. ASSUME NEW c \in Clients, Commit(c) PROVE LeaseWithinRetention'
    <3>1. \A k \in Keys : rec'[k].ttl = rec[k].ttl /\ rec'[k].exp = rec[k].exp
      BY <2>2 DEF Commit, TypeOK, CompletedRecord
    <3> QED
      BY <3>1 DEF LeaseWithinRetention
  <2>3. ASSUME NEW k \in Keys, CleanupDelete(k) PROVE LeaseWithinRetention'
    <3>1. \A i \in Keys : rec'[i] = rec[i] \/ (rec'[i].ttl = 0 /\ rec'[i].exp = 0)
      BY <2>3 DEF CleanupDelete, TypeOK, AbsentRecord
    <3> QED
      BY <3>1 DEF LeaseWithinRetention
  <2>4. CASE Tick
    <3>1. \A k \in Keys : rec'[k].ttl = Elapsed(rec[k].ttl) /\ rec'[k].exp = Elapsed(rec[k].exp)
      BY <2>4 DEF Tick, RecordLater
    <3>2. \A k \in Keys : rec[k].ttl \in Nat /\ rec[k].exp \in Nat
      BY DEF TypeOK, Record
    <3> QED
      BY <3>1, <3>2 DEF LeaseWithinRetention, Elapsed
  <2>5. CASE rec' = rec
    BY <2>5 DEF LeaseWithinRetention
  <2> QED
    BY <2>1, <2>2, <2>3, <2>4, <2>5
       DEF Next, Begin, Finish, Fail, BeginConflict, BeginReplay, BeginInProgress, BeginFails,
           CommitLost, Abort, Respond, LoseResponse, Resend, NewRequest, CleanupSelect, vars
<1> QED
  BY <1>1, <1>2, TypeCorrect, PTL DEF Spec

\* No step but the cleanup's DELETE takes a record from an owner within its
\* lease, or binds a key to another request within its retention (MayClaim): a
\* record that may be claimed because it expired has no lease left.
THEOREM ClaimRespectedHolds == Spec => ClaimRespected
<1> DEFINE A == \A k \in Keys :
          /\ rec[k].state = "processing" /\ rec[k].ttl > 0 /\ rec'[k].state # "absent"
             => rec'[k].lease = rec[k].lease
          /\ rec[k].state # "absent" /\ rec[k].exp > 0 /\ rec'[k].state # "absent"
             => rec'[k].hash = rec[k].hash
<1>1. TypeOK /\ LeaseWithinRetention /\ [Next]_vars => A
  <2> SUFFICES ASSUME TypeOK, LeaseWithinRetention, [Next]_vars PROVE A
    OBVIOUS
  <2>1. ASSUME NEW c \in Clients, BeginClaim(c) PROVE A
    <3>1. \A k \in Keys : k # req[c].key => rec'[k] = rec[k]
      BY <2>1 DEF BeginClaim, TypeOK
    <3>2. req[c].key \in Keys /\ rec[req[c].key] \in Record
      BY DEF TypeOK, Request
    <3>3. MayClaim(rec[req[c].key], req[c].hash)
      BY <2>1 DEF BeginClaim
    <3>4. rec'[req[c].key].hash = req[c].hash
      BY <2>1, <3>2 DEF BeginClaim, TypeOK, ProcessingRecord
    <3>5. /\ rec[req[c].key].exp \in Nat /\ rec[req[c].key].ttl \in Nat
          /\ ~(rec[req[c].key].state = "processing" /\ rec[req[c].key].ttl > 0)
          /\ rec[req[c].key].state = "absent" \/ rec[req[c].key].exp = 0
             \/ rec[req[c].key].hash = req[c].hash
      BY <3>2, <3>3 DEF MayClaim, Conflicts, Record, LeaseWithinRetention
    <3> QED
      BY <3>1, <3>2, <3>4, <3>5
  <2>2. ASSUME NEW c \in Clients, Commit(c) PROVE A
    BY <2>2 DEF Commit, TypeOK, CompletedRecord
  <2>3. ASSUME NEW k \in Keys, CleanupDelete(k) PROVE A
    BY <2>3 DEF CleanupDelete, TypeOK, AbsentRecord
  <2>4. CASE Tick
    BY <2>4, RecordLaterFields DEF Tick
  <2>5. CASE rec' = rec
    BY <2>5
  <2> QED
    BY <2>1, <2>2, <2>3, <2>4, <2>5
       DEF Next, Begin, Finish, Fail, BeginConflict, BeginReplay, BeginInProgress, BeginFails,
           CommitLost, Abort, Respond, LoseResponse, Resend, NewRequest, CleanupSelect, vars
<1> QED
  BY <1>1, TypeCorrect, LeaseWithinRetentionHolds, PTL DEF Spec, ClaimRespected

-----------------------------------------------------------------------------
(* Migrations.                                                               *)

ReplicaState ==
  [pc : {"off", "waiting", "locked", "sealing", "applying", "running"},
   release : M!Releases, found : SUBSET Versions]

MigrationTypes ==
  /\ history \in [Versions -> Contents \cup {Null, None}]
  /\ executed \in [Versions -> Nat]
  /\ holder \in Replicas \cup {None}
  /\ replica \in [Replicas -> ReplicaState]

\* What a replica in state p relies on: from the lock on it is the holder; from
\* the history it read on, what it found is of its release, or not sealed yet;
\* and once it serves, its whole release is.
ReplicaHolds(r, p, h, l) ==
  /\ p.pc \in {"locked", "sealing", "applying"} => l = r
  /\ p.pc \in {"sealing", "applying"} =>
       /\ p.found \subseteq DOMAIN p.release
       /\ \A v \in p.found : h[v] \in {Null, p.release[v]}
  /\ p.pc = "applying" => \A v \in p.found : h[v] = p.release[v]
  /\ p.pc = "running" => \A v \in DOMAIN p.release : h[v] = p.release[v]

MigrationInv ==
  /\ MigrationTypes
  /\ M!AppliedOnce
  /\ \A r \in Replicas : ReplicaHolds(r, replica[r], history, holder)

LEMMA LeastOf ==
  ASSUME NEW S \in SUBSET Nat, S # {}
  PROVE  M!Min(S) \in S /\ \A y \in S : M!Min(S) <= y
<1>1. PICK x \in S : \A y \in S : ~(<<y, x>> \in OpToRel(<, Nat))
  BY NatLessThanWellFounded, WFMin, Zenon
<1>2. ASSUME NEW y \in S, y < x PROVE FALSE
  <2>1. <<y, x>> \in {p \in Nat \X Nat : p[1] < p[2]}
    BY <1>2
  <2> QED
    BY <1>1, <2>1, Zenon DEF OpToRel
<1>3. \A y \in S : x <= y
  BY <1>2
<1> QED
  BY <1>3 DEF M!Min

LEMMA MigrationConstants ==
  /\ Versions \subseteq Nat
  /\ Null \notin Contents /\ None \notin Contents /\ None # Null /\ None \notin Replicas
BY StoresAssumption DEF M!MigrationsAssumption

LEMMA ReleaseFiles ==
  ASSUME NEW f \in M!Releases
  PROVE  DOMAIN f \subseteq Versions /\ \A v \in DOMAIN f : f[v] \in Contents
BY DEF M!Releases

LEMMA OffReplica == M!Off \in ReplicaState /\ M!Off.pc = "off"
<1>1. <<>> \in [{} -> Contents]
  OBVIOUS
<1>2. <<>> \in M!Releases
  BY <1>1 DEF M!Releases
<1> QED
  BY <1>2 DEF M!Off, ReplicaState

LEMMA MigrationInit == M!Init => MigrationInv
<1> SUFFICES ASSUME M!Init PROVE MigrationInv
  OBVIOUS
<1>1. PICK S \in SUBSET Versions :
        /\ history = [v \in Versions |-> IF v \in S THEN Null ELSE None]
        /\ executed = [v \in Versions |-> IF v \in S THEN 1 ELSE 0]
  BY DEF M!Init
<1>2. holder = None /\ replica = [r \in Replicas |-> M!Off]
  BY DEF M!Init
<1>3. MigrationTypes
  BY <1>1, <1>2, OffReplica DEF MigrationTypes
<1>4. M!AppliedOnce
  BY <1>1, MigrationConstants DEF M!AppliedOnce, M!Applied
<1>5. \A r \in Replicas : replica[r].pc = "off"
  BY <1>2, OffReplica
<1> QED
  BY <1>3, <1>4, <1>5 DEF MigrationInv, ReplicaHolds

\* A replica goes to state p; nobody else holds the lock.
LEMMA ReplicaGoes ==
  ASSUME MigrationInv, NEW r \in Replicas, NEW p \in ReplicaState,
         replica' = [replica EXCEPT ![r] = p],
         holder' \in Replicas \cup {None},
         \A q \in Replicas \ {r} : holder = q => holder' = q,
         ReplicaHolds(r, p, history', holder'),
         UNCHANGED <<history, executed>>
  PROVE  MigrationInv'
<1>1. MigrationTypes'
  BY DEF MigrationInv, MigrationTypes
<1>2. M!AppliedOnce'
  BY DEF MigrationInv, M!AppliedOnce, M!Applied
<1>3. ASSUME NEW q \in Replicas PROVE ReplicaHolds(q, replica'[q], history', holder')
  <2>1. CASE q = r
    BY <2>1 DEF MigrationInv, MigrationTypes
  <2>2. CASE q # r
    <3>1. replica'[q] = replica[q] /\ ReplicaHolds(q, replica[q], history, holder)
      BY <2>2 DEF MigrationInv, MigrationTypes
    <3> QED
      BY <2>2, <3>1 DEF ReplicaHolds
  <2> QED
    BY <2>1, <2>2
<1> QED
  BY <1>1, <1>2, <1>3 DEF MigrationInv

\* A replica leaves: it is off, and the lock goes with its session.
LEMMA ReplicaLeaves ==
  ASSUME MigrationInv, NEW r \in Replicas, M!Go(r, M!Off), M!Release(r),
         UNCHANGED <<history, executed>>
  PROVE  MigrationInv'
<1>1. /\ holder' \in Replicas \cup {None}
      /\ \A q \in Replicas \ {r} : holder = q => holder' = q
  BY DEF M!Release, MigrationInv, MigrationTypes
<1>2. ReplicaHolds(r, M!Off, history', holder')
  BY OffReplica DEF ReplicaHolds, M!Off
<1> QED
  BY <1>1, <1>2, OffReplica, ReplicaGoes DEF M!Go

\* The holder of the lock writes its contents as the record of one version,
\* which had no row or no checksum.
LEMMA HolderRecords ==
  ASSUME MigrationInv, NEW r \in Replicas, replica[r].pc \in {"sealing", "applying"},
         NEW v \in DOMAIN replica[r].release, history[v] \in {Null, None},
         history' = [history EXCEPT ![v] = replica[r].release[v]],
         executed' = IF history[v] = None THEN [executed EXCEPT ![v] = @ + 1] ELSE executed,
         NEW found, found = replica[r].found \/ found = replica[r].found \cup {v},
         replica' = [replica EXCEPT ![r] = [replica[r] EXCEPT !.found = found]],
         UNCHANGED holder
  PROVE  MigrationInv'
<1> DEFINE c == replica[r].release[v]
           p == [replica[r] EXCEPT !.found = found]
<1>0. MigrationTypes /\ replica[r] \in ReplicaState
  BY DEF MigrationInv, MigrationTypes
<1>1. v \in Versions /\ c \in Contents /\ c # None /\ c # Null
  BY <1>0, ReleaseFiles, MigrationConstants DEF ReplicaState
<1>2. ReplicaHolds(r, replica[r], history, holder) /\ holder = r
  BY DEF MigrationInv, ReplicaHolds
<1>3. /\ p \in ReplicaState /\ p.pc = replica[r].pc /\ p.release = replica[r].release
      /\ p.found = found
  BY <1>0, <1>1 DEF ReplicaState
<1>4. history' = [w \in Versions |-> IF w = v THEN c ELSE history[w]]
  BY <1>0 DEF MigrationTypes
<1> HIDE DEF c, p
<1>5. MigrationTypes'
  BY <1>0, <1>1, <1>3, <1>4 DEF MigrationTypes, p
<1>6. M!AppliedOnce'
  <2>1. \A w \in Versions : executed[w] = IF history[w] # None THEN 1 ELSE 0
    BY DEF MigrationInv, M!AppliedOnce, M!Applied
  <2>2. \A w \in Versions : executed'[w] = IF history'[w] # None THEN 1 ELSE 0
    BY <1>0, <1>1, <1>4, <2>1 DEF MigrationTypes
  <2> QED
    BY <2>2 DEF M!AppliedOnce, M!Applied
<1>7. ReplicaHolds(r, p, history', holder')
  BY <1>1, <1>2, <1>3, <1>4 DEF ReplicaHolds, c
<1>8. ASSUME NEW q \in Replicas PROVE ReplicaHolds(q, replica'[q], history', holder')
  <2>1. CASE q = r
    BY <1>0, <1>7, <2>1 DEF MigrationTypes, p
  <2>2. CASE q # r
    <3>1. /\ replica'[q] = replica[q] /\ ReplicaHolds(q, replica[q], history, holder)
          /\ replica[q] \in ReplicaState
      BY <2>2 DEF MigrationInv, MigrationTypes
    <3>2. replica[q].pc \notin {"locked", "sealing", "applying"}
      BY <1>2, <2>2, <3>1 DEF ReplicaHolds
    <3>3. /\ DOMAIN replica[q].release \subseteq Versions
          /\ \A w \in DOMAIN replica[q].release : replica[q].release[w] \in Contents
      BY <3>1, ReleaseFiles DEF ReplicaState
    <3>4. replica[q].pc = "running" =>
            \A w \in DOMAIN replica[q].release : history'[w] = replica[q].release[w]
      BY <1>1, <1>4, <3>1, <3>3, MigrationConstants DEF ReplicaHolds
    <3> QED
      BY <3>1, <3>2, <3>4 DEF ReplicaHolds
  <2> QED
    BY <2>1, <2>2
<1> QED
  BY <1>5, <1>6, <1>8 DEF MigrationInv

LEMMA MigrationStep ==
  ASSUME MigrationInv, NEW r \in Replicas,
         \/ \E release \in M!Releases : M!LoadMigrations(r, release)
         \/ M!AcquireLock(r) \/ M!ReadHistory(r) \/ M!Refuse(r) \/ M!Seal(r)
         \/ M!RequireChecksums(r) \/ M!Apply(r) \/ M!Serve(r) \/ M!Stop(r)
  PROVE  MigrationInv'
<1>0. /\ MigrationTypes /\ replica[r] \in ReplicaState
      /\ ReplicaHolds(r, replica[r], history, holder)
      /\ M!Files(r) \subseteq Versions /\ replica[r].found \subseteq Versions
  BY ReleaseFiles DEF MigrationInv, MigrationTypes, ReplicaState, M!Files
<1>1. ASSUME NEW p \in ReplicaState, M!Go(r, p), ReplicaHolds(r, p, history, holder),
             UNCHANGED <<history, executed, holder>>
      PROVE  MigrationInv'
  BY <1>0, <1>1, ReplicaGoes DEF M!Go, MigrationTypes
<1>2. ASSUME NEW release \in M!Releases, M!LoadMigrations(r, release)
      PROVE  MigrationInv'
  <2> DEFINE p == [pc |-> "waiting", release |-> release, found |-> {}]
  <2>1. M!Go(r, p) /\ UNCHANGED <<history, executed, holder>>
    BY <1>2 DEF M!LoadMigrations
  <2>2. p \in ReplicaState /\ ReplicaHolds(r, p, history, holder)
    BY DEF ReplicaState, ReplicaHolds
  <2> HIDE DEF p
  <2> QED
    BY <1>1, <2>1, <2>2
<1>3. CASE M!AcquireLock(r)
  <2> DEFINE p == [replica[r] EXCEPT !.pc = "locked"]
  <2>1. M!Go(r, p) /\ holder = None /\ holder' = r /\ UNCHANGED <<history, executed>>
    BY <1>3 DEF M!AcquireLock, M!MayLock
  <2>2. p \in ReplicaState /\ p.pc = "locked"
    BY <1>0 DEF ReplicaState
  <2> HIDE DEF p
  <2>3. ReplicaHolds(r, p, history', holder')
    BY <2>1, <2>2 DEF ReplicaHolds
  <2>4. \A q \in Replicas : holder # q
    BY <2>1, MigrationConstants
  <2> QED
    BY <2>1, <2>2, <2>3, <2>4, ReplicaGoes DEF M!Go
<1>4. CASE M!ReadHistory(r)
  <2> DEFINE p == [replica[r] EXCEPT !.pc = "sealing", !.found = M!Applied]
  <2>1. /\ replica[r].pc = "locked" /\ M!Accepts(r)
        /\ M!Go(r, p) /\ UNCHANGED <<history, executed, holder>>
    BY <1>4 DEF M!ReadHistory, M!At
  <2>2. /\ p \in ReplicaState /\ p.pc = "sealing" /\ p.found = M!Applied
        /\ p.release = replica[r].release
    BY <1>0 DEF ReplicaState, M!Applied
  <2> HIDE DEF p
  <2>3. ReplicaHolds(r, p, history, holder)
    BY <1>0, <2>1, <2>2 DEF ReplicaHolds, M!Accepts, M!Files
  <2> QED
    BY <1>1, <2>1, <2>2, <2>3
<1>5. CASE M!Refuse(r) \/ M!Stop(r)
  BY <1>5, ReplicaLeaves DEF M!Refuse, M!Stop
<1>6. CASE M!Seal(r)
  <2> DEFINE S == M!Unsealed(r)
             v == M!Min(S)
  <2>1. /\ replica[r].pc = "sealing" /\ S # {} /\ S \in SUBSET Nat
        /\ history' = M!Sealed(r, v) /\ UNCHANGED <<executed, holder, replica>>
    BY <1>0, <1>6, MigrationConstants DEF M!Seal, M!At, M!Unsealed
  <2>2. v \in S
    BY <2>1, LeastOf
  <2> HIDE DEF v
  <2>3. v \in DOMAIN replica[r].release /\ v \in Versions /\ history[v] = Null
    BY <1>0, <2>1, <2>2 DEF ReplicaHolds, M!Unsealed
  <2>4. /\ history' = [history EXCEPT ![v] = replica[r].release[v]]
        /\ executed' = IF history[v] = None THEN [executed EXCEPT ![v] = @ + 1] ELSE executed
    BY <1>0, <2>1, <2>3, MigrationConstants DEF M!Sealed, MigrationTypes
  <2> DEFINE found == replica[r].found
  <2>5. replica' = [replica EXCEPT ![r] = [replica[r] EXCEPT !.found = found]]
    BY <1>0, <2>1 DEF MigrationTypes, ReplicaState
  <2> HIDE DEF S
  <2> QED
    BY <2>1, <2>3, <2>4, <2>5, HolderRecords
<1>7. CASE M!RequireChecksums(r)
  <2> DEFINE p == [replica[r] EXCEPT !.pc = "applying"]
  <2>1. /\ replica[r].pc = "sealing" /\ \A v \in replica[r].found : history[v] # Null
        /\ M!Go(r, p) /\ UNCHANGED <<history, executed, holder>>
    BY <1>7 DEF M!RequireChecksums, M!At, M!Unsealed
  <2>2. /\ p \in ReplicaState /\ p.pc = "applying" /\ p.found = replica[r].found
        /\ p.release = replica[r].release
    BY <1>0 DEF ReplicaState
  <2> HIDE DEF p
  <2>3. ReplicaHolds(r, p, history, holder)
    BY <1>0, <2>1, <2>2 DEF ReplicaHolds
  <2> QED
    BY <1>1, <2>1, <2>2, <2>3
<1>8. CASE M!Apply(r)
  <2> DEFINE S == M!Missing(r)
             v == M!Min(S)
             found == replica[r].found \cup {v}
  <2>1. /\ replica[r].pc = "applying" /\ S # {} /\ S \in SUBSET Nat
        /\ S \subseteq DOMAIN replica[r].release
    BY <1>0, <1>8, MigrationConstants DEF M!Apply, M!At, M!Missing, M!Files
  <2>2. v \in DOMAIN replica[r].release
    BY <2>1, LeastOf
  <2>3. CASE history[v] # None
    BY <1>8, <2>3, ReplicaLeaves DEF M!Apply
  <2>4. CASE history[v] = None
    <3>1. /\ M!Committed(r, v) /\ UNCHANGED holder
          /\ M!Go(r, [replica[r] EXCEPT !.found = @ \cup {v}])
      BY <1>8, <2>4 DEF M!Apply
    <3>2. replica' = [replica EXCEPT ![r] = [replica[r] EXCEPT !.found = found]]
      BY <3>1 DEF M!Go
    <3>3. /\ history' = [history EXCEPT ![v] = replica[r].release[v]]
          /\ executed' = IF history[v] = None THEN [executed EXCEPT ![v] = @ + 1] ELSE executed
      BY <2>4, <3>1 DEF M!Committed
    <3> HIDE DEF v, S
    <3> QED
      BY <2>1, <2>2, <2>4, <3>1, <3>2, <3>3, HolderRecords
  <2> QED
    BY <2>3, <2>4
<1>9. CASE M!Serve(r)
  <2> DEFINE p == [replica[r] EXCEPT !.pc = "running"]
  <2>1. /\ replica[r].pc = "applying" /\ M!Files(r) \subseteq replica[r].found
        /\ M!Go(r, p) /\ M!Release(r) /\ UNCHANGED <<history, executed>>
    BY <1>9 DEF M!Serve, M!At, M!Missing
  <2>2. p \in ReplicaState /\ p.pc = "running" /\ p.release = replica[r].release
    BY <1>0 DEF ReplicaState
  <2> HIDE DEF p
  <2>3. ReplicaHolds(r, p, history', holder')
    BY <1>0, <2>1, <2>2 DEF ReplicaHolds, M!Files
  <2>4. /\ holder' \in Replicas \cup {None}
        /\ \A q \in Replicas \ {r} : holder = q => holder' = q
    BY <1>0, <2>1 DEF M!Release, MigrationTypes
  <2> QED
    BY <2>1, <2>2, <2>3, <2>4, ReplicaGoes DEF M!Go
<1> QED
  BY <1>2, <1>3, <1>4, <1>5, <1>6, <1>7, <1>8, <1>9

LEMMA MigrationNext == ASSUME MigrationInv, M!Next PROVE MigrationInv'
BY MigrationStep DEF M!Next

LEMMA MigrationServes == MigrationInv => M!ServesItsSchema
BY DEF MigrationInv, ReplicaHolds, M!ServesItsSchema, M!At, M!Files

-----------------------------------------------------------------------------
(* The rate limiter.                                                         *)

Moments == 0 .. MaxTime + 1
Grants == {g \in [Moments -> Nat] : \A i, j \in Moments : i <= j => g[i] <= g[j]}
BucketState == [count : Nat, expires : Nat]

\* Requests let through from instant t on, by a count g.
Since(g, t) == g[MaxTime + 1] - g[t]

\* What a bucket has used of the limit.
Used(b) == IF b.count <= Limit THEN b.count ELSE Limit

\* The instant at which a window that begins at t ends, within the bound.
WindowEnd(t) == IF t + Window <= MaxTime + 1 THEN t + Window ELSE MaxTime + 1

\* What holds at instant n of a key with bucket b, requests g let through and an
\* excess x granted to it by deletions.  A window that is open accounts for what
\* was let through since it began, and the one before it for one limit; when
\* none is open the last window's length saw one limit, and this instant none.
KeyHolds(b, g, x, n) ==
  /\ \A t \in Moments : n < t => Since(g, t) = 0
  /\ b.expires <= n + Window
  /\ n < b.expires => \A t \in Moments :
       /\ b.expires <= t + Window => Since(g, t) <= Used(b) + x
       /\ b.expires < t + Window + Window => Since(g, t) <= Used(b) + Limit + x
  /\ b.expires <= n => \A t \in Moments :
       /\ n < t + Window => Since(g, t) <= Limit + x
       /\ n <= t => Since(g, t) <= x
  /\ \A t \in 0 .. MaxTime : g[WindowEnd(t)] - g[t] <= Limit + Limit + x

RateInv ==
  /\ now \in 0 .. MaxTime
  /\ bucket \in [Buckets -> BucketState]
  /\ granted \in [Buckets -> Grants]
  /\ deleted \in [Buckets -> Nat]
  /\ \A k \in Buckets : KeyHolds(bucket[k], granted[k], deleted[k] * Limit, now)

LEMMA RateConstants ==
  /\ Limit \in Nat \ {0} /\ Window \in Nat \ {0} /\ MaxTime \in Nat
BY StoresAssumption DEF R!RateLimiterAssumption

LEMMA GrantsOf ==
  ASSUME NEW g \in Grants
  PROVE  /\ \A t \in Moments : g[t] \in Nat /\ g[t] <= g[MaxTime + 1]
         /\ \A i, j \in Moments : i <= j => g[i] <= g[j]
         /\ \A t \in 0 .. MaxTime : WindowEnd(t) \in Moments /\ t <= WindowEnd(t) /\ t \in Moments
         /\ MaxTime + 1 \in Moments
BY RateConstants DEF Grants, Moments, WindowEnd

\* Time passes.
LEMMA KeyTick ==
  ASSUME NEW b \in BucketState, NEW g \in Grants, NEW x \in Nat, NEW n \in Nat,
         KeyHolds(b, g, x, n)
  PROVE  KeyHolds(b, g, x, n + 1)
<1>0. b.count \in Nat /\ b.expires \in Nat /\ Used(b) \in Nat /\ Used(b) <= Limit
  BY RateConstants DEF BucketState, Used
<1>1. \A t \in Moments : g[t] \in Nat /\ t \in Nat /\ Since(g, t) \in Nat
  BY GrantsOf, RateConstants DEF Since, Moments
<1>2. ASSUME n < b.expires, b.expires <= n + 1, NEW t \in Moments
      PROVE  /\ n + 1 < t + Window => Since(g, t) <= Limit + x
             /\ n + 1 <= t => Since(g, t) <= x
  BY <1>0, <1>1, <1>2, RateConstants DEF KeyHolds
<1>3. ASSUME b.expires <= n, NEW t \in Moments
      PROVE  /\ n + 1 < t + Window => Since(g, t) <= Limit + x
             /\ n + 1 <= t => Since(g, t) <= x
  BY <1>0, <1>1, <1>3, RateConstants DEF KeyHolds
<1>4. ASSUME n + 1 < b.expires, NEW t \in Moments
      PROVE  /\ b.expires <= t + Window => Since(g, t) <= Used(b) + x
             /\ b.expires < t + Window + Window => Since(g, t) <= Used(b) + Limit + x
  BY <1>0, <1>4 DEF KeyHolds
<1>5. /\ \A t \in Moments : n + 1 < t => Since(g, t) = 0
      /\ b.expires <= n + 1 + Window
      /\ \A t \in 0 .. MaxTime : g[WindowEnd(t)] - g[t] <= Limit + Limit + x
  BY <1>0, <1>1, RateConstants DEF KeyHolds
<1> QED
  BY <1>0, <1>2, <1>3, <1>4, <1>5 DEF KeyHolds

\* One request is let through at instant n, the clock's last reading.
LEMMA GrantOne ==
  ASSUME NEW g \in Grants, NEW n \in 0 .. MaxTime
  PROVE  LET h == [i \in Moments |-> IF n < i THEN g[i] + 1 ELSE g[i]] IN
         /\ h \in Grants
         /\ \A t \in Moments : Since(h, t) = IF n < t THEN Since(g, t) ELSE Since(g, t) + 1
         /\ \A t \in 0 .. MaxTime : t + Window <= n => h[WindowEnd(t)] - h[t] = g[WindowEnd(t)] - g[t]
<1> DEFINE h == [i \in Moments |-> IF n < i THEN g[i] + 1 ELSE g[i]]
<1>1. h \in Grants
  <2>1. h \in [Moments -> Nat]
    BY GrantsOf
  <2>2. ASSUME NEW i \in Moments, NEW j \in Moments, i <= j PROVE h[i] <= h[j]
    <3>1. g[i] <= g[j] /\ g[i] \in Nat /\ g[j] \in Nat
      BY <2>2, GrantsOf
    <3> QED
      BY <2>2, <3>1, RateConstants DEF Moments
  <2> QED
    BY <2>1, <2>2 DEF Grants
<1>2. ASSUME NEW t \in Moments
      PROVE  Since(h, t) = IF n < t THEN Since(g, t) ELSE Since(g, t) + 1
  <2>1. h[MaxTime + 1] = g[MaxTime + 1] + 1
    BY GrantsOf, RateConstants
  <2>2. h[t] = IF n < t THEN g[t] + 1 ELSE g[t]
    OBVIOUS
  <2>3. g[t] \in Nat /\ g[MaxTime + 1] \in Nat
    BY GrantsOf
  <2> HIDE DEF h
  <2> QED
    BY <2>1, <2>2, <2>3 DEF Since
<1>3. ASSUME NEW t \in 0 .. MaxTime, t + Window <= n
      PROVE  h[WindowEnd(t)] - h[t] = g[WindowEnd(t)] - g[t]
  <2>1. WindowEnd(t) \in Moments /\ t \in Moments /\ ~(n < WindowEnd(t)) /\ ~(n < t)
    BY <1>3, GrantsOf, RateConstants DEF WindowEnd
  <2> QED
    BY <2>1
<1> QED
  BY <1>1, <1>2, <1>3

\* Take at instant n: the request is let through (h) or refused.
LEMMA KeyTake ==
  ASSUME NEW b \in BucketState, NEW g \in Grants, NEW x \in Nat, NEW n \in 0 .. MaxTime,
         NEW m \in 0 .. MaxTime, m = n \/ n = m + 1, KeyHolds(b, g, x, m),
         NEW c \in BucketState,
         c.count = IF m < b.expires
                   THEN IF b.count <= Limit THEN b.count + 1 ELSE Limit + 1
                   ELSE 1,
         c.expires = IF n < b.expires THEN b.expires ELSE n + Window
  PROVE  LET h == [i \in Moments |-> IF n < i THEN g[i] + 1 ELSE g[i]] IN
         KeyHolds(c, IF c.count <= Limit THEN h ELSE g, x, n)
<1> DEFINE h == [i \in Moments |-> IF n < i THEN g[i] + 1 ELSE g[i]]
           f == IF c.count <= Limit THEN h ELSE g
           one == IF c.count <= Limit THEN 1 ELSE 0
<1>0. /\ b.count \in Nat /\ b.expires \in Nat /\ Used(b) \in Nat
      /\ c.count \in Nat /\ c.expires \in Nat /\ Used(c) \in Nat /\ n < c.expires
      /\ c.expires <= n + Window /\ b.expires <= m + Window
      /\ m < b.expires => Used(c) = Used(b) + one
      /\ b.expires <= m => Used(c) = 1 /\ one = 1
  BY RateConstants DEF BucketState, Used, KeyHolds
<1>1. \A t \in Moments : /\ t \in Nat /\ Since(g, t) \in Nat
                         /\ Since(f, t) = IF n < t THEN Since(g, t) ELSE Since(g, t) + one
  <2>1. \A t \in Moments : t \in Nat /\ Since(g, t) \in Nat
    BY GrantsOf, RateConstants DEF Since, Moments
  <2> QED
    BY <2>1, GrantOne
<1>2. \A t \in Moments : m < t => Since(g, t) = 0
  BY DEF KeyHolds
<1> HIDE DEF f, h, one
<1>3. one \in {0, 1} /\ n \in Nat /\ m \in Nat
  BY DEF one
<1>4. \A t \in Moments : n < t => Since(f, t) = 0
  BY <1>1, <1>2, <1>3
<1>5. ASSUME NEW t \in Moments
      PROVE  /\ c.expires <= t + Window => Since(f, t) <= Used(c) + x
             /\ c.expires < t + Window + Window => Since(f, t) <= Used(c) + Limit + x
  <2>1. CASE n < b.expires
    <3>1. /\ b.expires <= t + Window => Since(g, t) <= Used(b) + x
          /\ b.expires < t + Window + Window => Since(g, t) <= Used(b) + Limit + x
      BY <2>1, <1>0, <1>3 DEF KeyHolds
    <3> QED
      BY <2>1, <3>1, <1>0, <1>1, <1>3, RateConstants
  <2>2. CASE m < b.expires /\ b.expires <= n
    <3>1. b.expires <= t + Window => Since(g, t) <= Used(b) + x
      BY <2>2 DEF KeyHolds
    <3>2. c.expires = n + Window /\ b.expires = n /\ n = m + 1
      BY <2>2, <1>0, <1>3
    <3> QED
      BY <2>2, <3>1, <3>2, <1>0, <1>1, <1>2, <1>3, RateConstants
  <2>3. CASE b.expires <= m
    <3>1. /\ m < t + Window => Since(g, t) <= Limit + x
          /\ m <= t => Since(g, t) <= x
      BY <2>3 DEF KeyHolds
    <3>2. c.expires = n + Window
      BY <2>3, <1>0, <1>3
    <3> QED
      BY <2>3, <3>1, <3>2, <1>0, <1>1, <1>3, RateConstants
  <2> QED
    BY <2>1, <2>2, <2>3, <1>0, <1>3
<1>6. ASSUME NEW t \in 0 .. MaxTime
      PROVE  f[WindowEnd(t)] - f[t] <= Limit + Limit + x
  <2>0. f \in Grants /\ WindowEnd(t) \in Moments /\ t \in Moments
    BY GrantOne, GrantsOf DEF f, h
  <2>1. CASE t + Window <= n
    <3>1. h[WindowEnd(t)] - h[t] = g[WindowEnd(t)] - g[t]
      BY <2>1, GrantOne DEF h
    <3>2. g[WindowEnd(t)] - g[t] <= Limit + Limit + x
      BY DEF KeyHolds
    <3> QED
      BY <3>1, <3>2 DEF f
  <2>2. CASE n < t + Window
    <3>1. Since(f, t) <= Used(c) + Limit + x
      BY <1>0, <1>3, <1>5, <2>0, <2>2, RateConstants
    <3>2. /\ f[WindowEnd(t)] \in Nat /\ f[WindowEnd(t)] <= f[MaxTime + 1]
          /\ f[t] \in Nat /\ f[MaxTime + 1] \in Nat
      BY <2>0, GrantsOf
    <3>3. Used(c) <= Limit
      BY <1>0, RateConstants DEF Used
    <3>4. f[WindowEnd(t)] - f[t] <= Since(f, t) /\ Since(f, t) \in Int
      BY <3>2 DEF Since
    <3> QED
      BY <1>0, <3>1, <3>2, <3>3, <3>4, RateConstants
  <2> QED
    BY <1>3, <2>1, <2>2, RateConstants
<1> QED
  BY <1>0, <1>3, <1>4, <1>5, <1>6 DEF KeyHolds, f, h

LEMMA LesserOf ==
  ASSUME NEW a \in Nat, NEW b \in Nat
  PROVE  R!Min({a, b}) = IF a <= b THEN a ELSE b
<1>1. \E x \in {a, b} : \A y \in {a, b} : x <= y
  OBVIOUS
<1>2. R!Min({a, b}) \in {a, b} /\ \A y \in {a, b} : R!Min({a, b}) <= y
  BY <1>1 DEF R!Min
<1> QED
  BY <1>2

LEMMA ExcessOf ==
  ASSUME NEW d \in Nat
  PROVE  /\ d * Limit \in Nat /\ (d + 1) * Limit = d * Limit + Limit
         /\ (2 + d) * Limit = Limit + Limit + d * Limit
BY RateConstants

LEMMA NewKey ==
  ASSUME NEW x \in Nat, NEW n \in Nat
  PROVE  R!NoGrants \in Grants /\ R!NoBucket \in BucketState /\ KeyHolds(R!NoBucket, R!NoGrants, x, n)
<1>1. R!NoGrants \in Grants
  BY RateConstants DEF R!NoGrants, Grants, Moments
<1>2. R!NoBucket \in BucketState /\ R!NoBucket.expires = 0
  BY DEF R!NoBucket, BucketState
<1>3. \A t \in Moments : Since(R!NoGrants, t) = 0
  BY RateConstants DEF Since, R!NoGrants, Moments
<1>4. ASSUME NEW t \in 0 .. MaxTime PROVE R!NoGrants[WindowEnd(t)] - R!NoGrants[t] = 0
  <2>1. WindowEnd(t) \in Moments /\ t \in Moments
    BY <1>1, GrantsOf
  <2> QED
    BY <2>1 DEF R!NoGrants, Moments
<1> QED
  BY <1>1, <1>2, <1>3, <1>4, RateConstants DEF KeyHolds

LEMMA RateInit == R!Init => RateInv
<1> SUFFICES ASSUME R!Init PROVE RateInv
  OBVIOUS
<1>1. /\ now = 0 /\ now \in 0 .. MaxTime
      /\ bucket = [k \in Buckets |-> R!NoBucket]
      /\ granted = [k \in Buckets |-> R!NoGrants]
      /\ deleted = [k \in Buckets |-> 0]
  BY RateConstants DEF R!Init
<1>2. /\ R!NoGrants \in Grants /\ R!NoBucket \in BucketState
      /\ KeyHolds(R!NoBucket, R!NoGrants, 0 * Limit, 0)
  BY NewKey, ExcessOf
<1> QED
  BY <1>1, <1>2 DEF RateInv

\* A bucket that is deleted while its window is open lets one limit more
\* through; deleting another one changes nothing.
LEMMA KeyDeleted ==
  ASSUME NEW b \in BucketState, NEW g \in Grants, NEW x \in Nat, NEW n \in Nat,
         KeyHolds(b, g, x, n)
  PROVE  /\ n < b.expires => KeyHolds(R!NoBucket, g, x + Limit, n)
         /\ b.expires <= n => KeyHolds(R!NoBucket, g, x, n)
<1>0. b.count \in Nat /\ b.expires \in Nat /\ Used(b) \in Nat /\ Used(b) <= Limit
  BY RateConstants DEF BucketState, Used
<1>1. \A t \in Moments : t \in Nat /\ Since(g, t) \in Nat
  BY GrantsOf, RateConstants DEF Since, Moments
<1>2. R!NoBucket.expires = 0
  BY DEF R!NoBucket
<1>3. b.expires <= n => KeyHolds(R!NoBucket, g, x, n)
  BY <1>0, <1>2, RateConstants DEF KeyHolds
<1>4. ASSUME n < b.expires PROVE KeyHolds(R!NoBucket, g, x + Limit, n)
  <2>1. ASSUME NEW t \in Moments
        PROVE  /\ n < t + Window => Since(g, t) <= Limit + (x + Limit)
               /\ n <= t => Since(g, t) <= x + Limit
    BY <1>0, <1>1, <1>4, RateConstants DEF KeyHolds
  <2>2. ASSUME NEW t \in 0 .. MaxTime
        PROVE  g[WindowEnd(t)] - g[t] <= Limit + Limit + (x + Limit)
    <3>1. g[WindowEnd(t)] - g[t] <= Limit + Limit + x
      BY DEF KeyHolds
    <3>2. g[WindowEnd(t)] \in Nat /\ g[t] \in Nat
      BY GrantsOf
    <3> QED
      BY <3>1, <3>2, RateConstants
  <2>3. \A t \in Moments : n < t => Since(g, t) = 0
    BY DEF KeyHolds
  <2> QED
    BY <1>2, <2>1, <2>2, <2>3, RateConstants DEF KeyHolds
<1> QED
  BY <1>3, <1>4

LEMMA RateTake ==
  ASSUME RateInv, NEW k \in Buckets, NEW later, R!Take(k, later)
  PROVE  RateInv'
<1> DEFINE b == bucket[k]
           g == granted[k]
           c == [count |-> R!NextCount(k), expires |-> R!NextExpiry(k, later)]
           h == [i \in Moments |-> IF later < i THEN g[i] + 1 ELSE g[i]]
           f == IF c.count <= Limit THEN h ELSE g
<1>0. /\ now \in 0 .. MaxTime /\ later \in 0 .. MaxTime /\ (now = later \/ later = now + 1)
      /\ now \in Nat /\ now' = later /\ UNCHANGED deleted
  BY RateConstants DEF R!Take, RateInv
<1>1. /\ b \in BucketState /\ g \in Grants /\ b.count \in Nat /\ b.expires \in Nat
      /\ deleted[k] * Limit \in Nat /\ KeyHolds(b, g, deleted[k] * Limit, now)
  BY ExcessOf DEF RateInv, BucketState
<1>2. R!Live(k) <=> now < b.expires
  BY <1>0, <1>1 DEF R!Live, R!NoBucket
<1>3. c.count = IF now < b.expires
                THEN IF b.count <= Limit THEN b.count + 1 ELSE Limit + 1
                ELSE 1
  <2>1. R!Min({b.count + 1, Limit + 1}) = IF b.count + 1 <= Limit + 1 THEN b.count + 1 ELSE Limit + 1
    BY <1>1, LesserOf, RateConstants
  <2> QED
    BY <1>1, <1>2, <2>1, RateConstants DEF R!NextCount
<1>4. c.expires = IF later < b.expires THEN b.expires ELSE later + Window
  BY <1>0, <1>1 DEF R!NextExpiry, R!NoBucket
<1>5. c \in BucketState
  BY <1>0, <1>1, <1>3, <1>4, RateConstants DEF BucketState
<1>6. bucket' = [bucket EXCEPT ![k] = c] /\ granted' = [granted EXCEPT ![k] = f]
  BY DEF R!Take, R!Allowed, R!Granted, Moments, RateInv
<1> HIDE DEF b, g, c
<1>7. KeyHolds(c, f, deleted[k] * Limit, later)
  BY <1>0, <1>1, <1>3, <1>4, <1>5, KeyTake
<1>8. f \in Grants
  BY <1>0, <1>1, GrantOne
<1> HIDE DEF f
<1>9. /\ bucket' \in [Buckets -> BucketState] /\ bucket'[k] = c
      /\ granted' \in [Buckets -> Grants] /\ granted'[k] = f
      /\ \A j \in Buckets \ {k} : bucket'[j] = bucket[j] /\ granted'[j] = granted[j]
  BY <1>5, <1>6, <1>8 DEF RateInv
<1>10. ASSUME NEW j \in Buckets
       PROVE  KeyHolds(bucket'[j], granted'[j], deleted[j] * Limit, later)
  <2>1. CASE j = k
    BY <1>7, <1>9, <2>1
  <2>2. CASE j # k
    <3>1. /\ KeyHolds(bucket[j], granted[j], deleted[j] * Limit, now)
          /\ bucket[j] \in BucketState /\ granted[j] \in Grants /\ deleted[j] * Limit \in Nat
      BY ExcessOf DEF RateInv
    <3>2. KeyHolds(bucket[j], granted[j], deleted[j] * Limit, later)
      BY <1>0, <3>1, KeyTick
    <3> QED
      BY <1>9, <2>2, <3>2
  <2> QED
    BY <2>1, <2>2
<1> QED
  BY <1>0, <1>9, <1>10 DEF RateInv

LEMMA RateNext ==
  ASSUME RateInv, R!Next
  PROVE  RateInv'
<1>0. /\ now \in 0 .. MaxTime /\ now \in Nat
      /\ bucket \in [Buckets -> BucketState] /\ granted \in [Buckets -> Grants]
      /\ deleted \in [Buckets -> Nat]
      /\ \A k \in Buckets : /\ KeyHolds(bucket[k], granted[k], deleted[k] * Limit, now)
                            /\ deleted[k] * Limit \in Nat
  BY ExcessOf DEF RateInv
<1>1. CASE \E k \in Buckets, later \in now .. now + 1 : R!Take(k, later)
  BY <1>1, RateTake
<1>2. ASSUME NEW k \in Buckets, R!Reset(k) PROVE RateInv'
  <2>1. /\ bucket' = [bucket EXCEPT ![k] = R!NoBucket]
        /\ granted' = [granted EXCEPT ![k] = R!NoGrants]
        /\ now' = now /\ deleted' = deleted
    BY <1>2 DEF R!Reset
  <2>2. /\ R!NoGrants \in Grants /\ R!NoBucket \in BucketState
        /\ KeyHolds(R!NoBucket, R!NoGrants, deleted[k] * Limit, now)
    BY <1>0, NewKey
  <2> QED
    BY <1>0, <2>1, <2>2 DEF RateInv
<1>3. CASE \E S \in SUBSET Buckets : R!ChooseExpired(S)
  <2>1. UNCHANGED <<now, bucket, granted, deleted>>
    BY <1>3 DEF R!ChooseExpired
  <2> QED
    BY <2>1 DEF RateInv
<1>4. CASE R!DeleteChosen
  <2>1. /\ bucket' = [k \in Buckets |-> IF k \in chosen THEN R!NoBucket ELSE bucket[k]]
        /\ deleted' = [k \in Buckets |-> IF k \in chosen /\ R!Live(k)
                                         THEN deleted[k] + 1 ELSE deleted[k]]
        /\ now' = now /\ granted' = granted
    BY <1>4 DEF R!DeleteChosen
  <2>2. R!NoBucket \in BucketState
    BY DEF R!NoBucket, BucketState
  <2>3. bucket' \in [Buckets -> BucketState] /\ deleted' \in [Buckets -> Nat]
    BY <1>0, <2>1, <2>2
  <2>4. ASSUME NEW k \in Buckets
        PROVE  KeyHolds(bucket'[k], granted[k], deleted'[k] * Limit, now)
    <3>1. bucket[k].expires \in Nat /\ (R!Live(k) <=> now < bucket[k].expires)
      BY <1>0 DEF BucketState, R!Live, R!NoBucket
    <3>2. /\ now < bucket[k].expires =>
               KeyHolds(R!NoBucket, granted[k], deleted[k] * Limit + Limit, now)
          /\ bucket[k].expires <= now =>
               KeyHolds(R!NoBucket, granted[k], deleted[k] * Limit, now)
      BY <1>0, KeyDeleted
    <3>3. deleted[k] \in Nat /\ (deleted[k] + 1) * Limit = deleted[k] * Limit + Limit
      BY <1>0, ExcessOf
    <3>4. CASE k \in chosen /\ R!Live(k)
      <4>1. bucket'[k] = R!NoBucket /\ deleted'[k] * Limit = deleted[k] * Limit + Limit
        BY <2>1, <3>3, <3>4
      <4> QED
        BY <3>1, <3>2, <3>4, <4>1
    <3>5. CASE k \in chosen /\ ~R!Live(k)
      <4>1. bucket'[k] = R!NoBucket /\ deleted'[k] = deleted[k] /\ bucket[k].expires <= now
        BY <1>0, <2>1, <3>1, <3>5
      <4> QED
        BY <3>2, <4>1
    <3>6. CASE k \notin chosen
      <4>1. bucket'[k] = bucket[k] /\ deleted'[k] = deleted[k]
        BY <2>1, <3>6
      <4> QED
        BY <1>0, <4>1
    <3> QED
      BY <3>4, <3>5, <3>6
  <2> QED
    BY <1>0, <2>1, <2>3, <2>4 DEF RateInv
<1>5. CASE R!Tick
  <2>1. /\ now < MaxTime /\ now' = now + 1 /\ now' \in 0 .. MaxTime
        /\ UNCHANGED <<bucket, granted, deleted>>
    BY <1>0, <1>5, RateConstants DEF R!Tick
  <2>2. ASSUME NEW k \in Buckets
        PROVE  KeyHolds(bucket[k], granted[k], deleted[k] * Limit, now + 1)
    BY <1>0, KeyTick
  <2> QED
    BY <1>0, <2>1, <2>2 DEF RateInv
<1> QED
  BY <1>1, <1>2, <1>3, <1>4, <1>5 DEF R!Next

LEMMA RateBounded == RateInv => R!GrantsBounded
<1> SUFFICES ASSUME RateInv, NEW k \in Buckets, NEW t \in 0 .. MaxTime
             PROVE  R!Between(k, t, t + Window) <= (2 + deleted[k]) * Limit
  BY DEF R!GrantsBounded
<1>1. /\ granted[k] \in Grants /\ deleted[k] \in Nat
      /\ granted[k][WindowEnd(t)] - granted[k][t] <= Limit + Limit + deleted[k] * Limit
  BY DEF RateInv, KeyHolds
<1>2. R!Min({t + Window, MaxTime + 1}) = WindowEnd(t)
  BY LesserOf, RateConstants DEF WindowEnd
<1>3. (2 + deleted[k]) * Limit = Limit + Limit + deleted[k] * Limit
  BY <1>1, ExcessOf
<1> QED
  BY <1>1, <1>2, <1>3 DEF R!Between

-----------------------------------------------------------------------------
(* Lists and pagination.                                                     *)

Cursors == [at : Nat, uid : Nat]
RowState == [at : Nat, state : {"open", "internal", "ended", "absent", "deleted"}]
ListKind ==
  [order : {"asc", "desc"}, by : {"created_at", "updated_at"}, shows : SUBSET L!Present,
   loaded : {"at once", "one by one"}]

ListTypes ==
  /\ list \in ListKind /\ (list.loaded = "one by one" => list.by = "created_at")
  /\ table \in [Rows -> RowState]
  /\ pager \in [pc : {"paging", "loading", "done"}, after : Cursors \cup {None},
                limit : Nat, rows : SUBSET Rows]
  /\ got \in [Rows -> Nat]
  /\ steady \subseteq Rows /\ moved \subseteq Rows /\ skipped \subseteq Rows
  /\ cut \in BOOLEAN

\* Row u comes after row v.
After(u, v) == L!Follows(L!Key(u), L!Key(v))
Earlier(S, u) == {v \in S : After(u, v)}
Later(S, u) == {v \in S : After(v, u)}

LEMMA ListConstants ==
  /\ Rows \subseteq Nat /\ IsFiniteSet(Rows) /\ Instants \subseteq Nat /\ MaxPage \in Nat \ {0}
  /\ None \notin Cursors
BY StoresAssumption DEF L!PagingAssumption, L!IsFiniteSet, IsFiniteSet, Cursors

\* The order of a list is a strict total order of its positions.
LEMMA CursorOrder ==
  ASSUME NEW k \in Cursors, NEW l \in Cursors, NEW m \in Cursors
  PROVE  /\ ~L!Follows(k, k)
         /\ L!Follows(k, l) /\ L!Follows(l, m) => L!Follows(k, m)
         /\ k.uid # l.uid => L!Follows(k, l) \/ L!Follows(l, k)
BY DEF Cursors, L!Follows, L!ByTime

LEMMA KeyOfRow ==
  ASSUME ListTypes, NEW u \in Rows
  PROVE  L!Key(u) \in Cursors /\ L!Key(u).uid = u /\ L!Key(u).at = table[u].at
BY ListConstants DEF ListTypes, RowState, Cursors, L!Key

LEMMA RowOrder ==
  ASSUME ListTypes
  PROVE  /\ \A u \in Rows : ~After(u, u)
         /\ \A u, v, w \in Rows : After(u, v) /\ After(v, w) => After(u, w)
         /\ \A u, v \in Rows : u # v => After(u, v) \/ After(v, u)
         /\ \A u, v \in Rows : After(u, v) => ~After(v, u)
<1>1. ASSUME NEW u \in Rows, NEW v \in Rows, NEW w \in Rows
      PROVE  /\ ~After(u, u)
             /\ After(u, v) /\ After(v, w) => After(u, w)
             /\ u # v => After(u, v) \/ After(v, u)
  <2>1. /\ L!Key(u) \in Cursors /\ L!Key(v) \in Cursors /\ L!Key(w) \in Cursors
        /\ L!Key(u).uid = u /\ L!Key(v).uid = v
    BY KeyOfRow
  <2>2. L!Key(u).uid # L!Key(v).uid =>
          L!Follows(L!Key(u), L!Key(v)) \/ L!Follows(L!Key(v), L!Key(u))
    BY <2>1, CursorOrder
  <2>3. /\ ~L!Follows(L!Key(u), L!Key(u))
        /\ L!Follows(L!Key(u), L!Key(v)) /\ L!Follows(L!Key(v), L!Key(w)) =>
             L!Follows(L!Key(u), L!Key(w))
    BY <2>1, CursorOrder
  <2> QED
    BY <2>1, <2>2, <2>3 DEF After
<1> QED
  BY <1>1

LEMMA CountOf ==
  ASSUME NEW S \in SUBSET Rows, NEW T \in SUBSET S
  PROVE  /\ IsFiniteSet(S) /\ IsFiniteSet(T)
         /\ Cardinality(S) \in Nat /\ Cardinality(T) \in Nat
         /\ Cardinality(T) <= Cardinality(S)
         /\ T # S => Cardinality(T) < Cardinality(S)
<1>1. IsFiniteSet(S)
  BY ListConstants, FS_Subset
<1>2. /\ IsFiniteSet(T) /\ Cardinality(T) <= Cardinality(S)
      /\ Cardinality(T) = Cardinality(S) => T = S
  BY <1>1, FS_Subset
<1>3. Cardinality(S) \in Nat /\ Cardinality(T) \in Nat
  BY <1>1, <1>2, FS_CardinalityType
<1> QED
  BY <1>1, <1>2, <1>3

\* Among the rows of a set, the later one has more rows before it and fewer after.
LEMMA RowsBefore ==
  ASSUME ListTypes, NEW S \in SUBSET Rows, NEW u \in S, NEW v \in S, After(u, v)
  PROVE  /\ Cardinality(Earlier(S, v)) < Cardinality(Earlier(S, u))
         /\ Cardinality(Later(S, u)) < Cardinality(Later(S, v))
<1>1. /\ Earlier(S, v) \subseteq Earlier(S, u) /\ v \in Earlier(S, u) /\ v \notin Earlier(S, v)
      /\ Later(S, u) \subseteq Later(S, v) /\ u \in Later(S, v) /\ u \notin Later(S, u)
  BY RowOrder DEF Earlier, Later
<1>2. Earlier(S, u) \in SUBSET Rows /\ Later(S, v) \in SUBSET Rows
  BY DEF Earlier, Later
<1> QED
  BY <1>1, <1>2, CountOf

\* A page: the first m rows of S, all of S when there are no more, and the
\* others come after them.
LEMMA FirstOf ==
  ASSUME ListTypes, NEW S \in SUBSET Rows, NEW m \in Nat
  PROVE  /\ L!First(S, m) \subseteq S
         /\ \A u \in S \ L!First(S, m), v \in L!First(S, m) : After(u, v)
         /\ Cardinality(S) <= m => L!First(S, m) = S
         /\ L!First(S, m) # S => m <= Cardinality(L!First(S, m))
<1> DEFINE F == L!First(S, m)
           n(u) == Cardinality(Earlier(S, u))
<1>1. F = {u \in S : n(u) < m}
  BY Zenon DEF L!First, Earlier, After, L!Cardinality, Cardinality
<1>2. \A u \in S : n(u) \in Nat /\ Earlier(S, u) \subseteq S /\ u \notin Earlier(S, u)
  <2>1. \A u \in S : Earlier(S, u) \in SUBSET S /\ u \notin Earlier(S, u)
    BY RowOrder DEF Earlier
  <2> QED
    BY <2>1, CountOf
<1> HIDE DEF F, n
<1>3. ASSUME NEW u \in S \ F, NEW v \in F PROVE After(u, v)
  <2>1. u # v /\ n(v) < n(u) /\ v \in S
    BY <1>1, <1>2
  <2>2. ~After(v, u)
    BY <1>2, <2>1, RowsBefore DEF n
  <2> QED
    BY <2>1, <2>2, RowOrder
<1>4. ASSUME Cardinality(S) <= m PROVE F = S
  <2>1. \A u \in S : n(u) < Cardinality(S) /\ Cardinality(S) \in Nat
    BY <1>2, CountOf DEF n
  <2> QED
    BY <1>1, <1>2, <1>4, <2>1
<1>5. ASSUME F # S PROVE m <= Cardinality(F)
  <2> DEFINE N == {n(u) : u \in S \ F}
  <2>1. N \in SUBSET Nat /\ N # {}
    BY <1>1, <1>2, <1>5
  <2>2. PICK u \in S \ F : \A v \in S \ F : n(u) <= n(v)
    <3>1. \E x \in N : \A y \in N : x <= y
      BY <2>1, LeastOf
    <3> QED
      BY <3>1
  <2>3. Earlier(S, u) \subseteq F
    <3>1. ASSUME NEW v \in Earlier(S, u), v \notin F PROVE FALSE
      <4>1. v \in S /\ After(u, v)
        BY <3>1 DEF Earlier
      <4>2. n(v) < n(u)
        BY <4>1, RowsBefore DEF n
      <4> QED
        BY <1>2, <2>2, <3>1, <4>1, <4>2
    <3> QED
      BY <3>1
  <2>4. F \in SUBSET Rows
    BY <1>1
  <2>5. n(u) <= Cardinality(F) /\ Cardinality(F) \in Nat
    BY <2>3, <2>4, CountOf DEF n
  <2> QED
    BY <1>1, <1>2, <2>2, <2>5
<1> QED
  BY <1>1, <1>3, <1>4, <1>5 DEF F

\* The cursor is the position of the last row of a page.
LEMMA PositionOf ==
  ASSUME ListTypes, NEW S \in SUBSET Rows, S # {}
  PROVE  \E u \in S : L!Position(S) = L!Key(u) /\ \A v \in S : ~After(v, u)
<1> DEFINE n(u) == Cardinality(Later(S, u))
           N == {n(u) : u \in S}
<1>1. \A u \in S : n(u) \in Nat
  <2>1. \A u \in S : Later(S, u) \in SUBSET S
    BY DEF Later
  <2> QED
    BY <2>1, CountOf
<1> HIDE DEF n
<1>2. N \in SUBSET Nat /\ N # {}
  BY <1>1
<1>3. PICK u \in S : \A v \in S : n(u) <= n(v)
  <2>1. \E x \in N : \A y \in N : x <= y
    BY <1>2, LeastOf
  <2> QED
    BY <2>1
<1>4. ASSUME NEW v \in S, After(v, u) PROVE FALSE
  <2>1. n(v) < n(u)
    BY <1>4, RowsBefore DEF n
  <2> QED
    BY <1>1, <1>3, <2>1
<1>5. \E k \in {L!Key(w) : w \in S} : \A v \in S : ~L!Follows(L!Key(v), k)
  BY <1>4 DEF After
<1>6. /\ L!Position(S) \in {L!Key(w) : w \in S}
      /\ \A v \in S : ~L!Follows(L!Key(v), L!Position(S))
  BY <1>5 DEF L!Position
<1> QED
  BY <1>6 DEF After

\* What the client was given of what stays in place is not beyond its cursor.
BehindCursor ==
  \A u \in Rows \ moved :
    got[u] > 0 /\ table[u].state \in L!Present => ~L!Beyond(L!Key(u))

\* The Projects that a page has selected are beyond the cursor, and stay there.
LoadingInv ==
  /\ list.loaded = "one by one" /\ pager.limit # 0
  /\ \A u \in pager.rows : table[u].state \in L!Present /\ L!Beyond(L!Key(u))

\* A row that the client has still to be given is beyond the cursor, and on the
\* page that is loaded or after all of that page, which is then not the last.
AheadOfCursor ==
  \A u \in steady \ skipped : got[u] = 0 =>
    /\ pager.pc # "done" /\ L!Beyond(L!Key(u))
    /\ pager.pc = "loading" =>
         \/ u \in pager.rows
         \/ pager.limit < Cardinality(pager.rows) /\ \A v \in pager.rows : After(u, v)

ListInv ==
  /\ ListTypes
  /\ \A u \in Rows \ moved : got[u] <= 1
  /\ \A u \in Rows : got[u] > 0 => table[u].state # "absent"
  /\ steady \subseteq L!Shown /\ steady \cap moved = {}
  /\ pager.pc # "done" => BehindCursor
  /\ pager.pc = "loading" => LoadingInv
  /\ ~cut => AheadOfCursor

LEMMA SameCount == \A S : L!Cardinality(S) = Cardinality(S)
BY DEF L!Cardinality, Cardinality

LEMMA ListInit == L!Init => ListInv
<1> SUFFICES ASSUME L!Init PROVE ListInv
  OBVIOUS
<1>1. list \in ListKind /\ (list.loaded = "one by one" => list.by = "created_at")
  <2>1. ASSUME NEW shows \in SUBSET L!Present
        PROVE  /\ L!NewestFirst(shows) \in ListKind /\ L!NewestFirst(shows).loaded = "at once"
               /\ L!OldestFirst(shows) \in ListKind /\ L!OldestFirst(shows).loaded = "at once"
               /\ L!ListSupportCases(shows) \in ListKind
               /\ L!ListSupportCases(shows).loaded = "at once"
    BY DEF L!NewestFirst, L!OldestFirst, L!ListSupportCases, ListKind
  <2>2. L!ListProjects \in ListKind /\ L!ListProjects.by = "created_at"
    BY DEF L!ListProjects, L!NewestFirst, ListKind
  <2>3. /\ L!NotEnded \in SUBSET L!Present /\ L!Present \in SUBSET L!Present
        /\ {"open"} \in SUBSET L!Present
        /\ \A o \in BOOLEAN : L!VisibleTo(o) \in SUBSET L!Present
    BY DEF L!Present, L!NotEnded, L!VisibleTo
  <2>4. list \in L!Lists
    BY DEF L!Init
  <2>5. CASE list = L!ListProjects
    BY <2>2, <2>5
  <2>6. CASE \E shows \in SUBSET L!Present :
               list \in {L!NewestFirst(shows), L!OldestFirst(shows), L!ListSupportCases(shows)}
    BY <2>1, <2>6
  <2>7. \/ list = L!ListProjects
        \/ \E shows \in {L!Present, L!NotEnded, {"open"}} \cup {L!VisibleTo(o) : o \in BOOLEAN} :
             list \in {L!NewestFirst(shows), L!OldestFirst(shows), L!ListSupportCases(shows)}
    BY <2>4
       DEF L!Lists, L!ListTenantMembers, L!ListTenantInvitations, L!ListMemberSessions,
           L!ListOAuthApplications, L!ListResourceServers, L!ListOAuthConsents,
           L!ListProjectUsers, L!ListActivity, L!ListServiceAccounts, L!ListServiceCredentials,
           L!ListSupportCaseAttachments, L!ListSupportCaseExternalReferences,
           L!ListSupportCaseMessages, L!ListSupportCaseEvents
  <2> QED
    BY <2>3, <2>5, <2>6, <2>7
<1>2. table \in [Rows -> RowState]
  <2>1. L!Absent \in RowState
    BY DEF L!Absent, RowState
  <2>2. ASSUME NEW x \in [at : Instants, state : L!Present] PROVE x \in RowState
    BY ListConstants DEF L!Present, RowState
  <2> QED
    BY <2>1, <2>2 DEF L!Init
<1>3. /\ pager = [pc |-> "paging", after |-> None, limit |-> 0, rows |-> {}]
      /\ got = [u \in Rows |-> 0] /\ steady = L!Shown
      /\ moved = {} /\ skipped = {} /\ cut = FALSE
  BY DEF L!Init
<1>4. ListTypes
  BY <1>1, <1>2, <1>3 DEF ListTypes, L!Shown
<1>5. \A u \in Rows : got[u] = 0 /\ L!Beyond(L!Key(u))
  BY <1>3 DEF L!Beyond
<1>6. steady \subseteq Rows
  BY <1>3 DEF L!Shown
<1> QED
  BY <1>3, <1>4, <1>5, <1>6 DEF ListInv, BehindCursor, AheadOfCursor

\* A page of items is given out, up to its limit n.
LEMMA ListResponds ==
  ASSUME ListInv, pager.pc # "done", NEW n \in Nat \ {0}, NEW items \in SUBSET Rows,
         \A u \in items : table[u].state \in L!Present /\ L!Beyond(L!Key(u)),
         L!Respond(items, n), UNCHANGED <<list, table, steady, moved>>,
         skipped' \in SUBSET Rows, cut' \in BOOLEAN,
         ~cut' => \A u \in steady \ skipped' : got[u] = 0 =>
                    \/ u \in items
                    \/ n < Cardinality(items) /\ \A v \in items : After(u, v)
  PROVE  ListInv'
<1> DEFINE given == L!First(items, n)
           more == n < Cardinality(items)
<1>0. ListTypes /\ BehindCursor /\ got \in [Rows -> Nat]
  BY DEF ListInv, ListTypes
<1>1. /\ given \subseteq items
      /\ \A u \in items \ given, v \in given : After(u, v)
      /\ Cardinality(items) <= n => given = items
      /\ given # items => n <= Cardinality(given)
  BY <1>0, FirstOf
<1>2. Cardinality(items) \in Nat /\ (Cardinality(items) <= n \/ more)
  BY CountOf
<1>3. /\ got' = [u \in Rows |-> IF u \in given /\ got[u] < 2 THEN got[u] + 1 ELSE got[u]]
      /\ pager' = [pc |-> IF more THEN "paging" ELSE "done",
                   after |-> IF more THEN L!Position(given) ELSE None,
                   limit |-> 0, rows |-> {}]
  BY <1>2, SameCount DEF L!Respond
<1> HIDE DEF given
<1>4. more => given # {}
  BY <1>1, <1>2, FS_EmptySet
<1> HIDE DEF more
<1>5. ASSUME more
      PROVE  \E w \in given : /\ pager'.after = L!Key(w) /\ L!Key(w) \in Cursors
                              /\ \A v \in given : ~After(v, w)
  <2>1. PICK w \in given : L!Position(given) = L!Key(w) /\ \A v \in given : ~After(v, w)
    BY <1>0, <1>1, <1>4, <1>5, PositionOf
  <2>2. L!Key(w) \in Cursors
    BY <1>0, <1>1, KeyOfRow
  <2> QED
    BY <1>3, <1>5, <2>1, <2>2
<1>6. /\ pager'.pc = IF more THEN "paging" ELSE "done"
      /\ ~more => pager'.after = None
      /\ pager'.limit = 0 /\ pager'.rows = {}
  BY <1>3
<1>7. ListTypes'
  <2>1. pager'.after \in Cursors \cup {None}
    BY <1>5, <1>6
  <2>2. pager' \in [pc : {"paging", "loading", "done"}, after : Cursors \cup {None},
                    limit : Nat, rows : SUBSET Rows]
    BY <1>3, <1>6, <2>1
  <2>3. got' \in [Rows -> Nat]
    BY <1>0, <1>3
  <2> QED
    BY <1>0, <2>2, <2>3 DEF ListTypes
<1>8. \A u \in Rows : /\ u \notin given => got'[u] = got[u]
                      /\ u \in given => got'[u] > 0
                      /\ got'[u] = 0 => got[u] = 0
                      /\ u \in given /\ got[u] = 0 => got'[u] = 1
  BY <1>0, <1>3
<1>9. \A u \in given : u \in Rows /\ u \in items /\ table[u].state \in L!Present /\ L!Beyond(L!Key(u))
  BY <1>1
<1>10. ASSUME NEW u \in Rows \ moved PROVE got'[u] <= 1
  <2>1. u \in given => got[u] = 0
    BY <1>0, <1>9 DEF BehindCursor
  <2> QED
    BY <1>8, <2>1 DEF ListInv
<1>11. ASSUME NEW u \in Rows, got'[u] > 0 PROVE table'[u].state # "absent"
  BY <1>0, <1>8, <1>9, <1>11 DEF ListInv, L!Present
<1>12. steady' \subseteq L!Shown' /\ steady' \cap moved' = {}
  BY DEF ListInv, L!Shown
<1>13. ASSUME more, NEW u \in Rows
       PROVE  (\A v \in given : After(u, v)) => L!Beyond(L!Key(u))'
  <2>1. PICK w \in given : pager'.after = L!Key(w)
    BY <1>5, <1>13
  <2>2. L!Key(u)' = L!Key(u)
    BY DEF L!Key
  <2>3. After(u, w) => L!Follows(L!Key(u), pager'.after)
    BY <2>1 DEF After
  <2> QED
    BY <2>2, <2>3 DEF L!Beyond, L!Follows, L!ByTime
<1>14. ASSUME more, NEW u \in Rows \ moved, got'[u] > 0, table[u].state \in L!Present
       PROVE  ~L!Beyond(L!Key(u))'
  <2>1. PICK w \in given : /\ pager'.after = L!Key(w) /\ L!Key(w) \in Cursors
                           /\ \A v \in given : ~After(v, w)
    BY <1>5, <1>14
  <2>2. ~L!Follows(L!Key(u), L!Key(w))
    <3>1. CASE u \in given
      BY <2>1, <3>1 DEF After
    <3>2. CASE u \notin given
      <4>1. ~L!Beyond(L!Key(u)) /\ L!Beyond(L!Key(w))
        BY <1>0, <1>8, <1>9, <1>14, <2>1, <3>2 DEF BehindCursor
      <4>2. pager.after \in Cursors /\ L!Key(u) \in Cursors
        BY <1>0, <4>1, KeyOfRow DEF L!Beyond, ListTypes
      <4>3. ~L!Follows(L!Key(u), pager.after) /\ L!Follows(L!Key(w), pager.after)
        BY <4>1, <4>2, ListConstants DEF L!Beyond
      <4> QED
        BY <2>1, <4>2, <4>3, CursorOrder
    <3> QED
      BY <3>1, <3>2
  <2>3. L!Key(u)' = L!Key(u) /\ pager'.after # None
    BY <2>1, ListConstants DEF L!Key
  <2> QED
    BY <2>1, <2>2, <2>3 DEF L!Beyond, L!Follows, L!ByTime
<1>15. pager'.pc # "done" => BehindCursor'
  BY <1>6, <1>14 DEF BehindCursor, L!Present
<1>16. ASSUME ~cut', NEW u \in steady \ skipped', got'[u] = 0
       PROVE  pager'.pc # "done" /\ L!Beyond(L!Key(u))'
  <2>1. u \in Rows
    BY <1>0 DEF ListTypes
  <2>2. got[u] = 0 /\ u \notin given
    BY <1>8, <1>16, <2>1
  <2>3. u \in items \/ (n < Cardinality(items) /\ \A v \in items : After(u, v))
    BY <1>16, <2>2
  <2>4. more /\ \A v \in given : After(u, v)
    BY <1>1, <1>2, <2>2, <2>3 DEF more
  <2> QED
    BY <1>6, <1>13, <2>1, <2>4
<1>17. ~cut' => AheadOfCursor'
  BY <1>6, <1>16 DEF AheadOfCursor
<1> QED
  BY <1>6, <1>7, <1>10, <1>11, <1>12, <1>15, <1>17 DEF ListInv

\* The rows of a page, and the rows it leaves for later ones.
LEMMA SelectedRows ==
  ASSUME ListInv, pager.pc # "done", NEW n \in Nat \ {0}
  PROVE  /\ L!Selected(n) \in SUBSET Rows
         /\ \A u \in L!Selected(n) : table[u].state \in L!Present /\ L!Beyond(L!Key(u))
         /\ ~cut => \A u \in steady \ skipped : got[u] = 0 =>
              \/ u \in L!Selected(n)
              \/ n < Cardinality(L!Selected(n)) /\ \A v \in L!Selected(n) : After(u, v)
<1> DEFINE S == {u \in L!Shown : L!Beyond(L!Key(u))}
           F == L!First(S, n + 1)
<1>0. ListTypes /\ S \in SUBSET Rows /\ n + 1 \in Nat /\ F = L!Selected(n)
  BY DEF ListInv, L!Shown, L!Selected
<1>1. /\ F \subseteq S /\ \A u \in S \ F, v \in F : After(u, v)
      /\ F # S => n + 1 <= Cardinality(F)
  BY <1>0, FirstOf
<1>2. \A u \in S : table[u].state \in L!Present /\ L!Beyond(L!Key(u))
  BY <1>0 DEF L!Shown, ListTypes, ListKind
<1>3. Cardinality(F) \in Nat
  BY <1>0, <1>1, CountOf
<1>4. ASSUME ~cut, NEW u \in steady \ skipped, got[u] = 0
      PROVE  u \in F \/ (n < Cardinality(F) /\ \A v \in F : After(u, v))
  <2>1. u \in S
    BY <1>4 DEF ListInv, AheadOfCursor
  <2> HIDE DEF S, F
  <2> QED
    BY <1>1, <1>3, <2>1
<1> HIDE DEF F, S
<1> QED
  BY <1>0, <1>1, <1>2, <1>4

LEMMA ZeroNotPositive == ~(0 > 0)
OBVIOUS

LEMMA GoneRows ==
  /\ L!Absent.state = "absent" /\ L!Absent.state \notin L!Present
  /\ L!Deleted.state = "deleted" /\ L!Deleted.state \notin L!Present
BY DEF L!Absent, L!Deleted, L!Present

LEMMA ListHandlers ==
  ASSUME ListInv, NEW n \in 1 .. MaxPage,
         L!ListPage(n) \/ L!SelectProjects(n) \/ \E k \in 0 .. n : L!ReadingFails(n, k)
  PROVE  ListInv'
<1>0. n \in Nat \ {0} /\ ListTypes
  BY ListConstants DEF ListInv
<1>1. pager.pc = "paging"
  BY DEF L!ListPage, L!SelectProjects, L!ReadingFails
<1>2. /\ L!Selected(n) \in SUBSET Rows
      /\ \A u \in L!Selected(n) : table[u].state \in L!Present /\ L!Beyond(L!Key(u))
      /\ ~cut => \A u \in steady \ skipped : got[u] = 0 =>
           \/ u \in L!Selected(n)
           \/ n < Cardinality(L!Selected(n)) /\ \A v \in L!Selected(n) : After(u, v)
  BY <1>0, <1>1, SelectedRows
<1>3. CASE L!ListPage(n)
  <2>1. /\ L!Respond(L!Selected(n), n)
        /\ UNCHANGED <<list, table, steady, moved, skipped, cut>>
    BY <1>3 DEF L!ListPage
  <2>2. skipped' \in SUBSET Rows /\ cut' \in BOOLEAN
    BY <1>0, <2>1 DEF ListTypes
  <2> QED
    BY <1>0, <1>1, <1>2, <2>1, <2>2, ListResponds
<1>4. ASSUME NEW k \in 0 .. n, L!ReadingFails(n, k) PROVE ListInv'
  <2> DEFINE items == L!First(L!Selected(n), k)
  <2>1. /\ L!Respond(items, n) /\ cut' = TRUE
        /\ UNCHANGED <<list, table, steady, moved, skipped>>
    BY <1>4 DEF L!ReadingFails
  <2>2. k \in Nat
    BY <1>0
  <2>3. items \subseteq L!Selected(n)
    BY <1>0, <1>2, <2>2, FirstOf
  <2>4. /\ items \in SUBSET Rows
        /\ \A u \in items : table[u].state \in L!Present /\ L!Beyond(L!Key(u))
    BY <1>2, <2>3
  <2>5. skipped' \in SUBSET Rows
    BY <1>0, <2>1 DEF ListTypes
  <2> HIDE DEF items
  <2> QED
    BY <1>0, <1>1, <2>1, <2>4, <2>5, ListResponds
<1>5. CASE L!SelectProjects(n)
  <2> DEFINE rows == L!Selected(n)
  <2>1. /\ list.loaded = "one by one"
        /\ pager' = [pager EXCEPT !.pc = "loading", !.limit = n, !.rows = rows]
        /\ UNCHANGED <<list, table, got, steady, moved, skipped, cut>>
    BY <1>5 DEF L!SelectProjects
  <2> HIDE DEF rows
  <2>2. /\ pager'.pc = "loading" /\ pager'.limit = n /\ pager'.rows = rows
        /\ pager'.after = pager.after /\ rows \in SUBSET Rows
    BY <1>0, <1>2, <2>1 DEF ListTypes, rows
  <2>3. ListTypes'
    BY <1>0, <2>1, <2>2 DEF ListTypes
  <2>4. \A u : /\ L!Key(u)' = L!Key(u) /\ (L!Beyond(L!Key(u))' <=> L!Beyond(L!Key(u)))
               /\ \A v : After(u, v)' <=> After(u, v)
    BY <2>1, <2>2 DEF L!Key, L!Beyond, L!Follows, L!ByTime, After
  <2>5. BehindCursor' /\ LoadingInv'
    <3>1. BehindCursor
      BY <1>1 DEF ListInv
    <3> QED
      BY <1>0, <1>2, <2>1, <2>2, <2>4, <3>1 DEF BehindCursor, LoadingInv, L!Present, rows
  <2>6. ASSUME ~cut' PROVE AheadOfCursor'
    <3>1. AheadOfCursor
      BY <2>1, <2>6 DEF ListInv
    <3> QED
      BY <1>2, <2>1, <2>2, <2>4, <2>6, <3>1 DEF AheadOfCursor, rows
  <2>7. steady' \subseteq L!Shown' /\ steady' \cap moved' = {}
    BY <2>1 DEF ListInv, L!Shown
  <2>8. /\ \A u \in Rows \ moved' : got'[u] <= 1
        /\ \A u \in Rows : got'[u] > 0 => table'[u].state # "absent"
    BY <2>1 DEF ListInv
  <2> QED
    BY <2>3, <2>5, <2>6, <2>7, <2>8 DEF ListInv
<1> QED
  BY <1>3, <1>4, <1>5

LEMMA ListLoads ==
  ASSUME ListInv, NEW failed \in SUBSET Rows, L!LoadProjects(failed)
  PROVE  ListInv'
<1> DEFINE items == pager.rows \ failed
           n == pager.limit
<1>1. /\ pager.pc = "loading" /\ failed \subseteq pager.rows
      /\ L!Respond(items, n) /\ skipped' = skipped \cup failed
      /\ cut' = (cut \/ (failed # {} /\ n < Cardinality(pager.rows)))
      /\ UNCHANGED <<list, table, steady, moved>>
  <2>1. L!Cardinality(pager.rows) = Cardinality(pager.rows)
    BY SameCount
  <2>2. pager.rows \in SUBSET Rows /\ pager.limit \in Nat
    BY DEF ListInv, ListTypes
  <2>3. Cardinality(pager.rows) \in Nat
    BY <2>2, CountOf
  <2> QED
    BY <2>1, <2>2, <2>3 DEF L!LoadProjects
<1>2. /\ n \in Nat \ {0} /\ items \in SUBSET Rows /\ skipped' \in SUBSET Rows /\ cut' \in BOOLEAN
      /\ \A u \in items : table[u].state \in L!Present /\ L!Beyond(L!Key(u))
  BY <1>1 DEF ListInv, ListTypes, LoadingInv
<1>3. ASSUME ~cut', NEW u \in steady \ skipped', got[u] = 0
      PROVE  u \in items \/ (n < Cardinality(items) /\ \A v \in items : After(u, v))
  <2>1. ~cut /\ (failed = {} \/ ~(n < Cardinality(pager.rows))) /\ u \notin failed /\ u \in steady \ skipped
    BY <1>1, <1>3
  <2>2. \/ u \in pager.rows
        \/ n < Cardinality(pager.rows) /\ \A v \in pager.rows : After(u, v)
    BY <1>1, <1>3, <2>1 DEF ListInv, AheadOfCursor
  <2>3. failed = {} => items = pager.rows
    OBVIOUS
  <2> QED
    BY <2>1, <2>2, <2>3
<1> HIDE DEF items, n
<1> QED
  BY <1>1, <1>2, <1>3, ListResponds

\* A row is inserted, or one that is there is changed; Projects stay in place.
LEMMA ListRow ==
  ASSUME ListInv, NEW u \in Rows, NEW row \in RowState, row.state # "absent",
         L!SetRow(u, row),
         \/ table[u] = L!Absent /\ got[u] = 0
         \/ /\ table[u].state \in L!Present
            /\ list.loaded = "one by one" => row.at = table[u].at /\ row.state \in L!Present
  PROVE  ListInv'
<1>0. ListTypes /\ pager.pc # "done" /\ BehindCursor
  BY DEF ListInv, L!SetRow
<1>1. /\ table' = [table EXCEPT ![u] = row] /\ UNCHANGED <<list, pager, got, skipped, cut>>
      /\ steady' = IF row.at = table[u].at /\ row.state \in list.shows
                   THEN steady ELSE steady \ {u}
      /\ moved' = IF row.at # table[u].at /\ table[u] # L!Absent /\ row # L!Deleted
                  THEN moved \cup {u} ELSE moved
  BY DEF L!SetRow
<1>2. /\ table'[u] = row /\ \A v \in Rows \ {u} : table'[v] = table[v]
      /\ table' \in [Rows -> RowState]
  BY <1>0, <1>1 DEF ListTypes
<1>3. ListTypes'
  BY <1>0, <1>1, <1>2 DEF ListTypes
<1>4. \A v \in Rows : table'[v].at = table[v].at =>
        /\ L!Key(v)' = L!Key(v) /\ (L!Beyond(L!Key(v))' <=> L!Beyond(L!Key(v)))
  BY <1>1 DEF L!Key, L!Beyond, L!Follows, L!ByTime
<1>5. \A v, w \in Rows : table'[v].at = table[v].at /\ table'[w].at = table[w].at =>
        (After(v, w)' <=> After(v, w))
  BY <1>1 DEF L!Key, L!Follows, L!ByTime, After
<1>6. /\ steady' \subseteq steady /\ moved \subseteq moved' /\ steady \subseteq Rows
      /\ \A v \in steady' : table'[v].at = table[v].at
  BY <1>0, <1>1, <1>2 DEF ListTypes
<1>7. \A v \in Rows \ moved' : got'[v] <= 1
  BY <1>1, <1>6 DEF ListInv
<1>8. \A v \in Rows : got'[v] > 0 => table'[v].state # "absent"
  BY <1>1, <1>2 DEF ListInv
<1>9. steady' \subseteq L!Shown' /\ steady' \cap moved' = {}
  BY <1>1, <1>2, <1>6 DEF ListInv, L!Shown
<1>10. ASSUME NEW v \in Rows \ moved', got[v] > 0, table'[v].state \in L!Present
       PROVE  ~L!Beyond(L!Key(v))'
  <2>1. CASE v # u
    BY <1>0, <1>2, <1>4, <1>6, <1>10, <2>1 DEF BehindCursor
  <2>2. CASE v = u
    <3>1. table[u].state \in L!Present
      BY <1>10, <2>2, ZeroNotPositive, Zenon
    <3>2. table[u] # L!Absent /\ row # L!Deleted
      BY <1>2, <1>10, <2>2, <3>1, GoneRows
    <3>3. row.at = table[u].at
      BY <1>1, <1>10, <2>2, <3>2
    <3> QED
      BY <1>0, <1>2, <1>4, <1>6, <1>10, <2>2, <3>1, <3>3 DEF BehindCursor
  <2> QED
    BY <2>1, <2>2
<1>11. BehindCursor'
  BY <1>1, <1>10 DEF BehindCursor, L!Present
<1>12. ASSUME pager.pc = "loading", NEW v \in pager.rows
       PROVE  /\ v \in Rows /\ table'[v].at = table[v].at
              /\ table'[v].state \in L!Present /\ L!Beyond(L!Key(v))
  <2>1. /\ v \in Rows /\ list.loaded = "one by one"
        /\ table[v].state \in L!Present /\ L!Beyond(L!Key(v))
    BY <1>0, <1>12 DEF ListInv, LoadingInv, ListTypes
  <2>2. table[v] # L!Absent
    BY <2>1, GoneRows
  <2> QED
    BY <1>2, <2>1, <2>2
<1>13. pager'.pc = "loading" => LoadingInv'
  <2>1. pager.pc = "loading" => LoadingInv
    BY DEF ListInv
  <2> QED
    BY <1>1, <1>4, <1>12, <2>1 DEF LoadingInv, L!Present
<1>14. ASSUME ~cut' PROVE AheadOfCursor'
  <2>1. AheadOfCursor
    BY <1>1, <1>14 DEF ListInv
  <2>2. ASSUME NEW v \in steady' \ skipped', got'[v] = 0
        PROVE  /\ pager'.pc # "done" /\ L!Beyond(L!Key(v))'
               /\ pager'.pc = "loading" =>
                    \/ v \in pager'.rows
                    \/ /\ pager'.limit < Cardinality(pager'.rows)
                       /\ \A w \in pager'.rows : After(v, w)'
    <3>1. v \in steady \ skipped /\ got[v] = 0 /\ v \in Rows /\ table'[v].at = table[v].at
      BY <1>1, <1>6, <2>2
    <3>2. /\ L!Beyond(L!Key(v))
          /\ pager.pc = "loading" =>
               \/ v \in pager.rows
               \/ pager.limit < Cardinality(pager.rows) /\ \A w \in pager.rows : After(v, w)
      BY <2>1, <3>1 DEF AheadOfCursor
    <3> QED
      BY <1>0, <1>1, <1>4, <1>5, <1>12, <3>1, <3>2
  <2> QED
    BY <2>2 DEF AheadOfCursor
<1> QED
  BY <1>3, <1>7, <1>8, <1>9, <1>11, <1>13, <1>14 DEF ListInv

LEMMA ListNext ==
  ASSUME ListInv, L!Next
  PROVE  ListInv'
<1>0. ListTypes
  BY DEF ListInv
<1>1. ASSUME NEW u \in Rows PROVE table[u] \in RowState /\ table[u].at \in Nat
  BY <1>0 DEF ListTypes, RowState
<1>2. ASSUME NEW u \in Rows, NEW t \in Instants, L!Touch(u, t) PROVE ListInv'
  <2> DEFINE row == [table[u] EXCEPT !.at = t]
  <2>1. /\ list.by = "updated_at" /\ table[u].state \in L!Present /\ L!SetRow(u, row)
    BY <1>2 DEF L!Touch
  <2>2. row \in RowState /\ row.state = table[u].state
    BY <1>1, ListConstants DEF RowState
  <2>3. list.loaded # "one by one" /\ row.state # "absent"
    BY <1>0, <2>1, <2>2 DEF ListTypes, L!Present
  <2> HIDE DEF row
  <2> QED
    BY <2>1, <2>2, <2>3, ListRow
<1>3. ASSUME NEW u \in Rows, NEW t \in Instants, L!End(u, t) PROVE ListInv'
  <2> DEFINE row == [at |-> L!Instant(u, t), state |-> "ended"]
  <2>1. /\ table[u].state \in L!Present /\ L!SetRow(u, row)
    BY <1>3 DEF L!End, L!NotEnded, L!Present
  <2>2. row \in RowState /\ row.state = "ended" /\ row.state \in L!Present
    BY <1>1, ListConstants DEF RowState, L!Instant, L!Present
  <2>3. list.loaded = "one by one" => row.at = table[u].at
    BY <1>0 DEF ListTypes, L!Instant
  <2> HIDE DEF row
  <2> QED
    BY <2>1, <2>2, <2>3, ListRow
<1>4. ASSUME NEW u \in Rows, NEW t \in Instants, NEW state \in L!NotEnded, L!Insert(u, t, state)
      PROVE  ListInv'
  <2> DEFINE row == [at |-> t, state |-> state]
  <2>1. table[u] = L!Absent /\ got[u] = 0 /\ L!SetRow(u, row)
    BY <1>4 DEF L!Insert
  <2>2. row \in RowState /\ row.state # "absent"
    BY ListConstants DEF RowState, L!NotEnded
  <2> HIDE DEF row
  <2> QED
    BY <2>1, <2>2, ListRow
<1>5. ASSUME NEW u \in Rows, L!Delete(u) PROVE ListInv'
  <2>1. table[u].state \in L!Present /\ list.loaded # "one by one" /\ L!SetRow(u, L!Deleted)
    BY <1>5 DEF L!Delete
  <2>2. L!Deleted \in RowState /\ L!Deleted.state # "absent"
    BY DEF L!Deleted, RowState
  <2> QED
    BY <2>1, <2>2, ListRow
<1> QED
  BY <1>2, <1>3, <1>4, <1>5, ListHandlers, ListLoads DEF L!Next

LEMMA ListPaged == ListInv => L!PagedExactly
<1> SUFFICES ASSUME ListInv PROVE L!PagedExactly
  OBVIOUS
<1>1. ASSUME pager.pc = "done", ~cut, NEW u \in steady \ skipped PROVE got[u] = 1
  <2>1. u \in Rows \ moved /\ got[u] \in Nat
    BY DEF ListInv, ListTypes
  <2>2. got[u] # 0
    BY <1>1 DEF ListInv, AheadOfCursor
  <2>3. got[u] <= 1
    BY <2>1 DEF ListInv
  <2> QED
    BY <2>1, <2>2, <2>3
<1>2. \A u \in Rows \ moved : got[u] <= 1
  BY DEF ListInv
<1> QED
  BY <1>1, <1>2 DEF L!PagedExactly

-----------------------------------------------------------------------------
(* What replicas share.                                                      *)

StoresInv ==
  /\ part = "rates" => RateInv
  /\ part = "migrations" => MigrationInv
  /\ part = "list" => ListInv

LEMMA StoresInit == MCInit => StoresInv
BY RateInit, MigrationInit, ListInit DEF MCInit, StoresInv

LEMMA StoresStutter ==
  ASSUME StoresInv, UNCHANGED allVars
  PROVE  StoresInv'
<1>1. /\ part' = part
      /\ UNCHANGED <<now, bucket, chosen, granted, deleted>>
      /\ UNCHANGED <<history, executed, holder, replica, starts>>
      /\ UNCHANGED <<list, table, pager, got, steady, moved, skipped, cut>>
  BY DEF allVars, rateVars, migrationVars, listVars
<1>2. RateInv => RateInv'
  BY <1>1 DEF RateInv
<1>3. MigrationInv => MigrationInv'
  BY <1>1 DEF MigrationInv, MigrationTypes, M!AppliedOnce, M!Applied
<1>4. ListInv => ListInv'
  <2>1. (ListTypes => ListTypes') /\ L!Shown' = L!Shown
    BY <1>1 DEF ListTypes, L!Shown
  <2>2. \A u : /\ L!Beyond(L!Key(u))' <=> L!Beyond(L!Key(u))
               /\ \A v : After(u, v)' <=> After(u, v)
    BY <1>1 DEF After, L!Key, L!Beyond, L!Follows, L!ByTime
  <2>3. (BehindCursor => BehindCursor') /\ (LoadingInv => LoadingInv')
    BY <1>1, <2>2 DEF BehindCursor, LoadingInv, L!Present
  <2>4. AheadOfCursor => AheadOfCursor'
    BY <1>1, <2>2 DEF AheadOfCursor
  <2> QED
    BY <1>1, <2>1, <2>3, <2>4 DEF ListInv
<1> QED
  BY <1>1, <1>2, <1>3, <1>4 DEF StoresInv

LEMMA StoresNext == StoresInv /\ [MCNext]_allVars => StoresInv'
<1> SUFFICES ASSUME StoresInv, [MCNext]_allVars
             PROVE  StoresInv'
  OBVIOUS
<1>1. CASE MCNext
  BY <1>1, RateNext, MigrationNext, ListNext DEF MCNext, StoresInv
<1>2. CASE UNCHANGED allVars
  BY <1>2, StoresStutter
<1> QED
  BY <1>1, <1>2

LEMMA StoresInvariant == MCSpec => []StoresInv
BY StoresInit, StoresNext, PTL DEF MCSpec

\* The records of a behaviour that follows another part are left alone, so what
\* is proved of Idempotency holds of it too.
LEMMA StoresFollowRecords == MCSpec => Spec
<1>1. MCInit => Init
  BY DEF MCInit, NoRequests
<1>2. [MCNext]_allVars => [Next]_vars
  BY DEF MCNext, allVars
<1> QED
  BY <1>1, <1>2, PTL DEF MCSpec, Spec

\* Take lets through at most twice the limit in any stretch of a window's
\* length, and one limit more for each live bucket that the cleanup deleted,
\* for any limit, window, keys and readings of the clock (Take, Reset).
THEOREM GrantsBoundedHolds == MCSpec => []GrantsBounded
<1>1. StoresInv => GrantsBounded
  BY RateBounded DEF StoresInv, GrantsBounded
<1> QED
  BY <1>1, StoresInvariant, PTL

\* The SQL of a version is executed once if it is recorded and never otherwise,
\* for any replicas and releases that start together and crash (Migrate).
THEOREM AppliedOnceHolds == MCSpec => []AppliedOnce
<1>1. StoresInv => AppliedOnce
  BY DEF StoresInv, AppliedOnce, MigrationInv
<1> QED
  BY <1>1, StoresInvariant, PTL

\* A replica that serves has the schema of its release, for any releases that
\* start and migrate meanwhile (Migrate, loadMigrations).
THEOREM ServesItsSchemaHolds == MCSpec => []ServesItsSchema
<1>1. StoresInv => ServesItsSchema
  BY MigrationServes DEF StoresInv, ServesItsSchema
<1> QED
  BY <1>1, StoresInvariant, PTL

\* A client that follows next_cursor to its end is given every row that stayed
\* in its place once, for any table, page limits and changes between the pages
\* (pagination, the list handlers).
THEOREM PagedExactlyHolds == MCSpec => []PagedExactly
<1>1. StoresInv => PagedExactly
  BY ListPaged DEF StoresInv, PagedExactly
<1> QED
  BY <1>1, StoresInvariant, PTL
=============================================================================
