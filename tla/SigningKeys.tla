---------------------------- MODULE SigningKeys ----------------------------
(***************************************************************************)
(* The keys that sign OAuth tokens (internal/api/oauth_signing.go) and the *)
(* key ring that seals them (internal/auth/keyring.go).  A replica rotates *)
(* the keys when it starts (Initialize, called from cmd/server/main.go)    *)
(* and at no other time; all replicas sign with the one that is active.    *)
(*                                                                         *)
(* Time is counted in ticks.  A replica's clock is within Skew of the      *)
(* database's, and a start takes at most Delay from the reading of its     *)
(* clock to the commit.                                                    *)
(***************************************************************************)
EXTENDS Naturals, FiniteSets

CONSTANTS
  Replicas,
  Kids,      \* key ids, each given out once
  Versions,  \* versions of DATA_ENCRYPTION_KEYS
  Skew, Delay,
  TTL,       \* OAuthAccessTokenTTL
  Margin,    \* the five minutes a key is published beyond TTL
  MinWindow, \* the fifteen minutes it is published at least
  MaxAge,    \* OAuthSigningKeyMaxAge
  MaxTime,   \* bound: the last instant
  None

\* The margin is there for skew and delay.  Skew counts three times: the replica
\* that signs, the one that sets publish_until and the one that retires the key
\* each have a clock of their own.
ASSUME SigningKeysAssumption ==
  /\ Skew \in Nat /\ Delay \in Nat /\ TTL \in Nat \ {0} /\ Margin \in Nat
  /\ MinWindow \in Nat /\ MaxAge \in Nat /\ MaxTime \in Nat
  /\ 3 * Skew + Delay <= Margin
  /\ None \notin Kids

VARIABLES
  now,      \* the clock of the database
  key,      \* oauth_signing_keys by kid
  signed,   \* the latest exp among the JWTs a key has signed, by kid
  ring,     \* the versions each replica holds, and the one it seals with
  boot,     \* what each replica that starts has read
  holder    \* replica that holds the advisory lock

vars == <<now, key, signed, ring, boot, holder>>

Absent == [status |-> "absent", created |-> 0, until |-> 0, version |-> None]
Off == [pc |-> "off", clock |-> 0, begun |-> 0, active |-> None]
On == [Off EXCEPT !.pc = "running"]
Running(r) == boot[r].pc = "running"
ActiveKids == {k \in Kids : key[k].status = "active"}
NoRing == [holds |-> {}, seals |-> None]

Init ==
  /\ now = Skew
  /\ key = [k \in Kids |-> Absent]
  /\ signed = [k \in Kids |-> 0]
  /\ ring = [r \in Replicas |-> NoRing]
  /\ boot = [r \in Replicas |-> Off]
  /\ holder = None

Go(r, b) == boot' = [boot EXCEPT ![r] = b]

----------------------------------------------------------------------------
(* Start of a replica.                                                     *)

\* ParseEncryptionKeyring: the first entry seals, all of them open.
ParseEncryptionKeyring(r, S, v) ==
  /\ v \in S
  /\ ring' = [ring EXCEPT ![r] = [holds |-> S, seals |-> v]]

\* Initialize reads the replica's clock, then asks for the lock.
Initialize(r, S, v, t) ==
  /\ boot[r].pc = "off"
  /\ ParseEncryptionKeyring(r, S, v)
  /\ t + Skew \in now .. now + 2 * Skew
  /\ Go(r, [pc |-> "waiting", clock |-> t, begun |-> now, active |-> None])
  /\ UNCHANGED <<now, key, signed, holder>>

\* The lock, and the active key as a statement after it sees it.
MayLock(r) == holder = None
LockAndRead(r) ==
  /\ boot[r].pc = "waiting" /\ MayLock(r)
  /\ holder' = r
  /\ \E k \in ActiveKids \cup {None} :
       /\ k = None <=> ActiveKids = {}
       /\ Go(r, [boot[r] EXCEPT !.pc = "locked", !.active = k])
  /\ UNCHANGED <<now, key, signed, ring>>

Release(r) == holder' = IF holder = r THEN None ELSE holder

\* The active key is younger than MaxAge: nothing changes.
Fresh(r) == boot[r].active # None /\ boot[r].clock < key[boot[r].active].created + MaxAge
KeepKey(r) ==
  /\ boot[r].pc = "locked" /\ Fresh(r)
  /\ Release(r)
  /\ Go(r, On)
  /\ UNCHANGED <<now, key, signed, ring>>

PublishUntilTTL(r) == boot[r].clock + TTL
PublishUntil(r) ==
  boot[r].clock + (IF TTL + Margin < MinWindow THEN MinWindow ELSE TTL + Margin)

\* UPDATE ... WHERE uid AND status='active'
Retiring(r) ==
  IF boot[r].active \in ActiveKids
  THEN [key EXCEPT ![boot[r].active] = [@ EXCEPT !.status = "retiring", !.until = PublishUntil(r)]]
  ELSE key

\* Seal: a sealed value names the version that seals.
Seals(r) == ring[r].seals

InsertOAuthSigningKey(r, k, table) ==
  [table EXCEPT ![k] = [status |-> "active", created |-> boot[r].clock,
                        until |-> 0, version |-> Seals(r)]]

\* Retiring keys whose publication is over.
RetireExpired(r, table) ==
  [k \in Kids |-> IF table[k].status = "retiring" /\ table[k].until <= boot[r].clock
                  THEN [table[k] EXCEPT !.status = "retired"] ELSE table[k]]

\* The unique index refuses a second active key, and the replica does not start.
InsertRefused(r) == ~(ActiveKids \subseteq {boot[r].active})

RotateKey(r, k) ==
  /\ boot[r].pc = "locked" /\ ~Fresh(r) /\ key[k] = Absent
  /\ key' = IF InsertRefused(r) THEN key
            ELSE RetireExpired(r, InsertOAuthSigningKey(r, k, Retiring(r)))
  /\ Release(r)
  /\ Go(r, IF InsertRefused(r) THEN Off ELSE On)
  /\ UNCHANGED <<now, signed, ring>>

\* The process ends at any point of its start or later; its transaction is
\* rolled back and the lock released.
Stop(r) ==
  /\ boot[r].pc # "off"
  /\ Release(r)
  /\ Go(r, Off)
  /\ ring' = [ring EXCEPT ![r] = NoRing]
  /\ UNCHANGED <<now, key, signed>>

----------------------------------------------------------------------------
(* Signing and publishing.                                                 *)

\* Open: by the version that sealed the value, if the replica still holds it.
Opens(r, version) == version \in ring[r].holds

\* activeOAuthSigningKey
ActiveOAuthSigningKey(r) == {k \in ActiveKids : Opens(r, key[k].version)}

\* signOAuthJWT with exp = t + TTL, where the handler read its clock at t, at
\* most Delay before it signs.
SignOAuthJWT(r, t) ==
  /\ Running(r)
  /\ t <= now + Skew /\ now <= t + Skew + Delay
  /\ \E k \in ActiveOAuthSigningKey(r) :
       signed' = [signed EXCEPT ![k] = IF @ < t + TTL THEN t + TTL ELSE @]
  /\ UNCHANGED <<now, key, ring, boot, holder>>

\* oauthJWKS
JWKS == {k \in Kids : \/ key[k].status = "active"
                      \/ key[k].status = "retiring" /\ key[k].until > now}

\* Time passes, but no start takes longer than Delay.
Tick ==
  /\ now < MaxTime
  /\ \A r \in Replicas : boot[r].pc \in {"waiting", "locked"} => now < boot[r].begun + Delay
  /\ now' = now + 1
  /\ UNCHANGED <<key, signed, ring, boot, holder>>

----------------------------------------------------------------------------
Next ==
  \/ \E r \in Replicas, S \in SUBSET Versions, v \in Versions, t \in 0 .. MaxTime + Skew :
       Initialize(r, S, v, t)
  \/ \E r \in Replicas : LockAndRead(r) \/ KeepKey(r) \/ Stop(r)
  \/ \E r \in Replicas, k \in Kids : RotateKey(r, k)
  \/ \E r \in Replicas, t \in 0 .. MaxTime + Skew : SignOAuthJWT(r, t)
  \/ Tick

Spec == Init /\ [][Next]_vars

----------------------------------------------------------------------------
(* Properties.                                                             *)

\* The rows, the tokens' expiry and what each replica knows are of their types.
TypeOK ==
  /\ now \in Nat
  /\ key \in [Kids -> [status : {"absent", "active", "retiring", "retired"}, created : Nat,
                       until : Nat, version : Versions \cup {None}]]
  /\ signed \in [Kids -> Nat]
  /\ ring \in [Replicas -> [holds : SUBSET Versions, seals : Versions \cup {None}]]
  /\ boot \in [Replicas -> [pc : {"off", "waiting", "locked", "running"}, clock : Nat,
                            begun : Nat, active : Kids \cup {None}]]
  /\ holder \in Replicas \cup {None}

\* A token can be verified until it expires: oauthJWKS publishes the key that
\* signed it, however many rotations there have been since.
TokensVerifiable == \A k \in Kids : now < signed[k] => k \in JWKS

=============================================================================
