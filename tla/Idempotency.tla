---------------------------- MODULE Idempotency ----------------------------
(***************************************************************************)
(* The idempotency records (internal/store/idempotency.go) as the HTTP     *)
(* handlers use them: beginIdempotentRequest, then the domain mutation and *)
(* CompleteTx in one transaction, then the response.                       *)
(*                                                                         *)
(* A key stands for (principal, operation, Idempotency-Key); a hash for    *)
(* the digest of the request.  The response of an execution is identified  *)
(* by the lease UID it ran under.  Timestamps are kept relative to the     *)
(* database clock: ttl is lease_expires_at - now, exp is expires_at - now. *)
(***************************************************************************)
EXTENDS Integers, FiniteSets

CONSTANTS
    Keys, Hashes,     \* idempotency keys and request digests
    Clients,          \* callers, each with one request in flight
    Uids, NoUid,      \* lease UIDs; SQL NULL
    LeaseDuration,    \* IdempotencyRequest.LeaseDuration, in ticks
    Retention         \* IdempotencyRequest.Retention, in ticks

\* validateIdempotencyRequest: the retention exceeds the lease.
ASSUME IdempotencyAssumption ==
    /\ LeaseDuration \in Nat \ {0}
    /\ Retention \in Nat /\ Retention > LeaseDuration
    /\ NoUid \notin Uids
    /\ Keys # {} /\ Hashes # {}

VARIABLES
    rec,       \* rec[k]: the idempotency record of k
    req,       \* req[c]: the request of client c and how far it has come
    effects,   \* effects[k]: mutations committed under k, still in retention
    selected,  \* records the DELETE of a cleanup in flight chose
    lost       \* keys whose completed record a cleanup removed too early

vars == <<rec, req, effects, selected, lost>>

\* The CHECK of migration 3: a completed record has a response, no other has.
Record ==
    [state : {"absent"}, hash : Hashes, lease : {NoUid}, ttl : Nat, exp : Nat, response : {NoUid}]
    \cup [state : {"processing"}, hash : Hashes, lease : Uids, ttl : Nat, exp : Nat, response : {NoUid}]
    \cup [state : {"completed"}, hash : Hashes, lease : Uids, ttl : Nat, exp : Nat, response : Uids]

Request == [pc : {"sending", "working", "committed", "retry", "answered", "conflict"},
            key : Keys, hash : Hashes, lease : Uids \cup {NoUid}]

Effect == [resp : Uids, hash : Hashes, exp : Nat \ {0}]

AnyHash == CHOOSE h \in Hashes : TRUE

AbsentRecord == [state |-> "absent", hash |-> AnyHash, lease |-> NoUid,
                 ttl |-> 0, exp |-> 0, response |-> NoUid]

\* Both INSERT ... ON CONFLICT DO NOTHING and the UPDATE that reclaims.
ProcessingRecord(hash, lease) ==
    [state |-> "processing", hash |-> hash, lease |-> lease,
     ttl |-> LeaseDuration, exp |-> Retention, response |-> NoUid]

CompletedRecord(record, response) ==
    [state |-> "completed", hash |-> record.hash, lease |-> record.lease,
     ttl |-> record.ttl, exp |-> record.exp, response |-> response]

UidsInUse ==
    {rec[k].lease : k \in Keys} \cup {rec[k].response : k \in Keys}
    \cup {req[c].lease : c \in Clients}
    \cup {e.resp : e \in UNION {effects[k] : k \in Keys}}

Advance(c, pc, lease) ==
    req' = [req EXCEPT ![c] = [pc |-> pc, key |-> @.key, hash |-> @.hash, lease |-> lease]]

-----------------------------------------------------------------------------
Init ==
    /\ rec = [k \in Keys |-> AbsentRecord]
    /\ req \in [Clients -> {[pc |-> "sending", key |-> k, hash |-> h, lease |-> NoUid] :
                               k \in Keys, h \in Hashes}]
    /\ effects = [k \in Keys |-> {}]
    /\ selected = {}
    /\ lost = {}

(* Begin: the four ways out of one transaction.                            *)

\* Faulty variant: the request hash is not compared.
ConflictsNever(record, hash) == FALSE

\* expiresAt.After(databaseNow) && !equalDigest(...)
Conflicts(record, hash) ==
    record.state # "absent" /\ record.exp > 0 /\ record.hash # hash

\* Faulty variants: the owner's lease is not respected; leftovers are not reclaimed.
MayClaimEarly(record, hash) ==
    record.state = "absent" \/ (~Conflicts(record, hash) /\ record.state = "processing")

MayClaimFresh(record, hash) == record.state = "absent"

\* No record, an expired one, or one whose owner's lease ran out.
MayClaim(record, hash) ==
    \/ record.state = "absent"
    \/ /\ ~Conflicts(record, hash)
       /\ record.exp = 0 \/ (record.state = "processing" /\ record.ttl = 0)

BeginClaim(c) ==
    /\ req[c].pc = "sending"
    /\ MayClaim(rec[req[c].key], req[c].hash)
    /\ Uids \ UidsInUse # {}
    /\ LET lease == CHOOSE u \in Uids \ UidsInUse : TRUE IN
       /\ rec' = [rec EXCEPT ![req[c].key] = ProcessingRecord(req[c].hash, lease)]
       /\ Advance(c, "working", lease)
    /\ UNCHANGED <<effects, selected, lost>>

BeginConflict(c) ==
    /\ req[c].pc = "sending"
    /\ Conflicts(rec[req[c].key], req[c].hash)
    /\ Advance(c, "conflict", NoUid)
    /\ UNCHANGED <<rec, effects, selected, lost>>

Settled(record, hash) ==
    record.state # "absent" /\ ~Conflicts(record, hash) /\ ~MayClaim(record, hash)

\* The stored response is written and nothing is executed.
BeginReplay(c) ==
    /\ req[c].pc = "sending"
    /\ Settled(rec[req[c].key], req[c].hash)
    /\ rec[req[c].key].state = "completed"
    /\ Advance(c, "answered", rec[req[c].key].response)
    /\ UNCHANGED <<rec, effects, selected, lost>>

\* 409 idempotency_in_progress with Retry-After.
BeginInProgress(c) ==
    /\ req[c].pc = "sending"
    /\ Settled(rec[req[c].key], req[c].hash)
    /\ rec[req[c].key].state = "processing"
    /\ Advance(c, "retry", NoUid)
    /\ UNCHANGED <<rec, effects, selected, lost>>

\* 503 dependency_unavailable: the transaction fails, or finds the record that
\* its INSERT ran into deleted by a cleanup.
BeginFails(c) ==
    /\ req[c].pc = "sending"
    /\ Advance(c, "retry", NoUid)
    /\ UNCHANGED <<rec, effects, selected, lost>>

-----------------------------------------------------------------------------
\* Faulty variant: completion is not fenced by the lease.
OwnsByState(c) == rec[req[c].key].state = "processing"

\* WHERE ... AND lease_uid=$5 AND state='processing'
Owns(c) ==
    /\ rec[req[c].key].state = "processing"
    /\ rec[req[c].key].lease = req[c].lease

\* The mutation and CompleteTx, committed together by the owner of the lease.
Commit(c) ==
    /\ req[c].pc = "working"
    /\ Owns(c)
    /\ LET k == req[c].key IN
       /\ rec' = [rec EXCEPT ![k] = CompletedRecord(@, req[c].lease)]
       /\ effects' = [effects EXCEPT ![k] = @ \cup
                         {[resp |-> req[c].lease, hash |-> req[c].hash, exp |-> n] :
                             n \in {rec[k].exp} \ {0}}]
    /\ Advance(c, "committed", req[c].lease)
    /\ UNCHANGED <<selected, lost>>

\* CompleteTx returns ErrIdempotencyLeaseLost: 500, and everything rolls back.
CommitLost(c) ==
    /\ req[c].pc = "working"
    /\ ~Owns(c)
    /\ Advance(c, "retry", NoUid)
    /\ UNCHANGED <<rec, effects, selected, lost>>

\* The handler fails before it commits or its process exits: the record stays.
Abort(c) ==
    /\ req[c].pc = "working"
    /\ Advance(c, "retry", NoUid)
    /\ UNCHANGED <<rec, effects, selected, lost>>

\* writeStoredResponse after the commit.
Respond(c) ==
    /\ req[c].pc = "committed"
    /\ Advance(c, "answered", req[c].lease)
    /\ UNCHANGED <<rec, effects, selected, lost>>

\* The process exits, or the connection breaks, between commit and response.
LoseResponse(c) ==
    /\ req[c].pc = "committed"
    /\ Advance(c, "retry", NoUid)
    /\ UNCHANGED <<rec, effects, selected, lost>>

\* The caller repeats a request it has no answer to; once answered, or refused
\* for good, it turns to another.
Resend(c) ==
    /\ req[c].pc = "retry"
    /\ Advance(c, "sending", NoUid)
    /\ UNCHANGED <<rec, effects, selected, lost>>

NewRequest(c, k, h) ==
    /\ req[c].pc \in {"answered", "conflict"}
    /\ req' = [req EXCEPT ![c] = [pc |-> "sending", key |-> k, hash |-> h, lease |-> NoUid]]
    /\ UNCHANGED <<rec, effects, selected, lost>>

-----------------------------------------------------------------------------
\* DeleteExpired: WITH expired AS (SELECT ... WHERE expires_at <= now) DELETE
\* ... USING expired.  `expired' is evaluated on the statement's snapshot, and
\* PostgreSQL re-checks a record changed since by the join columns (its key)
\* only: a record reclaimed in between is deleted all the same.
CleanupSelect ==
    /\ selected = {}
    /\ selected' \in SUBSET {k \in Keys : rec[k].state # "absent" /\ rec[k].exp = 0}
    /\ UNCHANGED <<rec, req, effects, lost>>

CleanupDelete(k) ==
    /\ k \in selected
    /\ rec' = [rec EXCEPT ![k] = AbsentRecord]
    /\ selected' = selected \ {k}
    /\ lost' = IF rec[k].state = "completed" /\ rec[k].exp > 0 THEN lost \cup {k} ELSE lost
    /\ UNCHANGED <<req, effects>>

Elapsed(n) == IF n > 0 THEN n - 1 ELSE 0

RecordLater(record) ==
    [state |-> record.state, hash |-> record.hash, lease |-> record.lease,
     ttl |-> Elapsed(record.ttl), exp |-> Elapsed(record.exp),
     response |-> record.response]

Tick ==
    /\ rec' = [k \in Keys |-> RecordLater(rec[k])]
    /\ effects' = [k \in Keys |-> {[resp |-> e.resp, hash |-> e.hash, exp |-> e.exp - 1] :
                                      e \in {x \in effects[k] : x.exp > 1}}]
    /\ lost' = {k \in lost : effects'[k] # {}}
    /\ UNCHANGED <<req, selected>>

Begin(c) == BeginClaim(c) \/ BeginConflict(c) \/ BeginReplay(c) \/ BeginInProgress(c)
Finish(c) == Commit(c) \/ CommitLost(c)
Fail(c) == BeginFails(c) \/ Abort(c) \/ LoseResponse(c)

Next ==
    \/ \E c \in Clients : Begin(c) \/ Finish(c) \/ Fail(c) \/ Respond(c) \/ Resend(c)
    \/ \E c \in Clients, k \in Keys, h \in Hashes : NewRequest(c, k, h)
    \/ CleanupSelect
    \/ \E k \in Keys : CleanupDelete(k)
    \/ Tick

Spec == Init /\ [][Next]_vars

\* The lease of a handler at work runs out.
Overrun ==
    \E c \in Clients : /\ req[c].pc = "working" /\ Owns(c)
                      /\ rec[req[c].key].ttl > 0 /\ rec'[req[c].key].ttl = 0
                      /\ UNCHANGED req

-----------------------------------------------------------------------------
(* Properties.                                                             *)

\* Every variable keeps its type.
TypeOK ==
    /\ rec \in [Keys -> Record]
    /\ req \in [Clients -> Request]
    /\ effects \in [Keys -> SUBSET Effect]
    /\ selected \in SUBSET Keys
    /\ lost \in SUBSET Keys

\* No crash window: as long as a mutation is within its retention, the record of
\* its key holds its response and its request hash, so that every retry is
\* answered by it and none executes again, whichever handlers were superseded
\* in between; and a stored response is one of a mutation that committed.  The
\* exception is a key whose completed record a cleanup removed (lost).
CommittedIffReplayable ==
    \A k \in Keys \ lost :
        effects[k] = IF rec[k].state = "completed" /\ rec[k].exp > 0
                     THEN {[resp |-> rec[k].response, hash |-> rec[k].hash, exp |-> rec[k].exp]}
                     ELSE {}

\* Callers of one key that were answered by retained mutations were given the
\* same response, and had sent the same request.
AnswersAgree ==
    \A c, d \in Clients :
        /\ req[c].pc \in {"committed", "answered"} /\ req[d].pc \in {"committed", "answered"}
        /\ req[c].key = req[d].key /\ req[c].key \notin lost
        /\ \E e \in effects[req[c].key] : e.resp = req[c].lease
        /\ \E e \in effects[req[d].key] : e.resp = req[d].lease
        => req[c].lease = req[d].lease /\ req[c].hash = req[d].hash

\* An owner within its lease is not superseded, and the request a key is bound
\* to does not change within the retention, except by a cleanup.
ClaimRespected ==
    [][\A k \in Keys :
          /\ rec[k].state = "processing" /\ rec[k].ttl > 0 /\ rec'[k].state # "absent"
             => rec'[k].lease = rec[k].lease
          /\ rec[k].state # "absent" /\ rec[k].exp > 0 /\ rec'[k].state # "absent"
             => rec'[k].hash = rec[k].hash]_vars

\* What the store promises its callers ("exact-response replay", README) and
\* maintenance.go says of its batches ("removes only records whose protocol
\* lifetime ... ended"): a key has one mutation within its retention.
OncePerKey == \A k \in Keys : Cardinality(effects[k]) <= 1
=============================================================================
