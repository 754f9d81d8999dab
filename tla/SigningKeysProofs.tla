-------------------------- MODULE SigningKeysProofs --------------------------
(***************************************************************************)
(* A token can be verified until it expires, for any number of replicas    *)
(* and rotations and for every skew, delay and lifetime for which the      *)
(* margin of publish_until suffices (SigningKeysAssumption).               *)
(***************************************************************************)
EXTENDS SigningKeys, TLAPS

\* The rows of oauth_signing_keys, and what a replica that starts has read.
KeyRow == [status : {"absent", "active", "retiring", "retired"}, created : Nat,
           until : Nat, version : Versions \cup {None}]
BootRow == [pc : {"off", "waiting", "locked", "running"}, clock : Nat,
            begun : Nat, active : Kids \cup {None}]

\* How long the tokens of a key can be valid, by the key's status: while it is
\* active they expire within TTL of a clock that is at most Skew ahead; while it
\* is published after that they expire Skew before the publication ends; once
\* it is retired they have expired.
KeyCovers(status, until, expiry, instant) ==
  /\ status = "absent" => expiry = 0
  /\ status = "active" => expiry <= instant + Skew + TTL
  /\ status = "retiring" => expiry + Skew <= until
  /\ status = "retired" => expiry <= instant

KeysCover == \A k \in Kids : KeyCovers(key[k].status, key[k].until, signed[k], now)

\* The clock reading of a replica that starts is within Skew of the instant it
\* was taken, and that was at most Delay ago.
ClocksRecent ==
  \A r \in Replicas :
    boot[r].pc \in {"waiting", "locked"} =>
      /\ boot[r].begun <= boot[r].clock + Skew /\ boot[r].clock <= boot[r].begun + Skew
      /\ boot[r].begun <= now /\ now <= boot[r].begun + Delay

\* The inductive invariant.
IInv == TypeOK /\ KeysCover /\ ClocksRecent

----------------------------------------------------------------------------
(* Types.                                                                  *)

\* The publication of a key ends at an instant.
LEMMA PublishUntilType ==
  ASSUME TypeOK, NEW r \in Replicas
  PROVE  PublishUntil(r) \in Nat /\ boot[r].clock + TTL + Margin <= PublishUntil(r)
BY SigningKeysAssumption DEF TypeOK, PublishUntil

\* The key that a rotation retires is given an end of publication, no other
\* row changes.
LEMMA RetiringRows ==
  ASSUME TypeOK, NEW r \in Replicas
  PROVE  /\ Retiring(r) \in [Kids -> KeyRow]
         /\ \A j \in Kids :
              \/ Retiring(r)[j] = key[j]
              \/ /\ key[j].status = "active"
                 /\ Retiring(r)[j].status = "retiring"
                 /\ Retiring(r)[j].until = PublishUntil(r)
<1> DEFINE a == boot[r].active
           row == [key[a] EXCEPT !.status = "retiring", !.until = PublishUntil(r)]
<1>1. CASE a \notin ActiveKids
  BY <1>1 DEF Retiring, TypeOK, KeyRow
<1>2. CASE a \in ActiveKids
  <2>1. a \in Kids /\ key[a].status = "active"
    BY <1>2 DEF ActiveKids
  <2>2. row \in KeyRow /\ row.status = "retiring" /\ row.until = PublishUntil(r)
    BY <2>1, PublishUntilType DEF TypeOK, KeyRow
  <2>3. Retiring(r) = [key EXCEPT ![a] = row]
    BY <1>2 DEF Retiring
  <2> HIDE DEF a, row
  <2> QED BY <2>1, <2>2, <2>3 DEF TypeOK, KeyRow
<1> QED BY <1>1, <1>2

\* The key that a rotation inserts is of its type.
LEMMA InsertRows ==
  ASSUME TypeOK, NEW r \in Replicas, NEW k \in Kids, NEW table \in [Kids -> KeyRow]
  PROVE  /\ InsertOAuthSigningKey(r, k, table) \in [Kids -> KeyRow]
         /\ InsertOAuthSigningKey(r, k, table)[k].status = "active"
         /\ \A j \in Kids \ {k} : InsertOAuthSigningKey(r, k, table)[j] = table[j]
<1> DEFINE row == [status |-> "active", created |-> boot[r].clock,
                   until |-> 0, version |-> Seals(r)]
<1>1. row \in KeyRow /\ row.status = "active"
  BY DEF TypeOK, KeyRow, Seals
<1>2. InsertOAuthSigningKey(r, k, table) = [table EXCEPT ![k] = row]
  BY DEF InsertOAuthSigningKey
<1> HIDE DEF row
<1> QED BY <1>1, <1>2

\* Rows whose publication has ended become retired, no other row changes.
LEMMA RetireRows ==
  ASSUME TypeOK, NEW r \in Replicas, NEW table \in [Kids -> KeyRow]
  PROVE  /\ RetireExpired(r, table) \in [Kids -> KeyRow]
         /\ \A j \in Kids :
              \/ RetireExpired(r, table)[j] = table[j]
              \/ /\ table[j].status = "retiring" /\ table[j].until <= boot[r].clock
                 /\ RetireExpired(r, table)[j].status = "retired"
<1>1. \A j \in Kids : [table[j] EXCEPT !.status = "retired"] \in KeyRow
  BY DEF KeyRow
<1>2. \A j \in Kids : [table[j] EXCEPT !.status = "retired"].status = "retired"
  BY DEF KeyRow
<1> QED BY <1>1, <1>2 DEF RetireExpired

\* What a rotation makes of each row (the transaction of Initialize).
LEMMA RotatedRows ==
  ASSUME TypeOK, NEW r \in Replicas, NEW k \in Kids, RotateKey(r, k)
  PROVE  /\ key' \in [Kids -> KeyRow]
         /\ \A j \in Kids :
              \/ key'[j] = key[j]
              \/ key[j].status = "absent" /\ key'[j].status = "active"
              \/ /\ key[j].status = "active"
                 /\ key'[j].status = "retiring" /\ key'[j].until = PublishUntil(r)
              \/ /\ key[j].status = "retiring" /\ key[j].until <= boot[r].clock
                 /\ key'[j].status = "retired"
<1>1. CASE InsertRefused(r)
  BY <1>1 DEF RotateKey, TypeOK, KeyRow
<1>2. CASE ~InsertRefused(r)
  <2> DEFINE t1 == Retiring(r)
             t2 == InsertOAuthSigningKey(r, k, t1)
             t3 == RetireExpired(r, t2)
  <2>1. key' = t3 /\ key[k].status = "absent"
    BY <1>2 DEF RotateKey, Absent
  <2>2. t1 \in [Kids -> KeyRow]
    BY RetiringRows
  <2>3. t2 \in [Kids -> KeyRow]
    BY <2>2, InsertRows
  <2>4. t3 \in [Kids -> KeyRow]
    BY <2>3, RetireRows
  <2>5. t2[k].status = "active" /\ \A j \in Kids \ {k} : t2[j] = t1[j]
    BY <2>2, InsertRows
  <2>6. \A j \in Kids : \/ t1[j] = key[j]
                        \/ /\ key[j].status = "active" /\ t1[j].status = "retiring"
                           /\ t1[j].until = PublishUntil(r)
    BY RetiringRows
  <2>7. \A j \in Kids : \/ t3[j] = t2[j]
                        \/ /\ t2[j].status = "retiring" /\ t2[j].until <= boot[r].clock
                           /\ t3[j].status = "retired"
    BY <2>3, RetireRows
  <2>8. ~(PublishUntil(r) <= boot[r].clock)
    BY PublishUntilType, SigningKeysAssumption DEF TypeOK
  <2> HIDE DEF t1, t2, t3
  <2>9. ASSUME NEW j \in Kids
        PROVE  \/ t3[j] = key[j]
               \/ key[j].status = "absent" /\ t3[j].status = "active"
               \/ /\ key[j].status = "active"
                  /\ t3[j].status = "retiring" /\ t3[j].until = PublishUntil(r)
               \/ /\ key[j].status = "retiring" /\ key[j].until <= boot[r].clock
                  /\ t3[j].status = "retired"
    <3>1. CASE j = k
      BY <2>1, <2>5, <2>7, <3>1
    <3>2. CASE j # k /\ t1[j] = key[j]
      BY <2>5, <2>7, <3>2
    <3>3. CASE j # k /\ t1[j] # key[j]
      BY <2>5, <2>6, <2>7, <2>8, <3>3
    <3> QED BY <3>1, <3>2, <3>3
  <2> QED BY <2>1, <2>4, <2>9
<1> QED BY <1>1, <1>2

\* No action writes anything that is not of its type.
LEMMA TypeStep == TypeOK /\ [Next]_vars => TypeOK'
<1> SUFFICES ASSUME TypeOK, [Next]_vars PROVE TypeOK'
  OBVIOUS
<1>1. Off \in BootRow /\ On \in BootRow
  BY DEF Off, On, BootRow
<1>2. ASSUME NEW r \in Replicas, NEW S \in SUBSET Versions, NEW v \in Versions,
             NEW t \in 0 .. MaxTime + Skew, Initialize(r, S, v, t)
      PROVE  TypeOK'
  <2>1. [pc |-> "waiting", clock |-> t, begun |-> now, active |-> None] \in BootRow
    BY SigningKeysAssumption DEF TypeOK, BootRow
  <2>2. boot' \in [Replicas -> BootRow]
    BY <1>2, <2>1 DEF Initialize, Go, TypeOK, BootRow
  <2> QED BY <1>2, <2>2 DEF TypeOK, Initialize, ParseEncryptionKeyring, BootRow
<1>3. ASSUME NEW r \in Replicas, LockAndRead(r) PROVE TypeOK'
  <2>1. PICK k \in ActiveKids \cup {None} :
          Go(r, [boot[r] EXCEPT !.pc = "locked", !.active = k])
    BY <1>3 DEF LockAndRead
  <2>2. [boot[r] EXCEPT !.pc = "locked", !.active = k] \in BootRow
    BY DEF TypeOK, BootRow, ActiveKids
  <2>3. boot' \in [Replicas -> BootRow]
    BY <2>1, <2>2 DEF Go, TypeOK, BootRow
  <2> QED BY <1>3, <2>3 DEF TypeOK, LockAndRead, BootRow
<1>4. ASSUME NEW r \in Replicas, KeepKey(r) PROVE TypeOK'
  BY <1>1, <1>4 DEF TypeOK, KeepKey, Release, Go, BootRow
<1>5. ASSUME NEW r \in Replicas, Stop(r) PROVE TypeOK'
  <2>1. NoRing \in [holds : SUBSET Versions, seals : Versions \cup {None}]
    BY DEF NoRing
  <2> QED BY <1>1, <1>5, <2>1 DEF TypeOK, Stop, Release, Go, BootRow
<1>6. ASSUME NEW r \in Replicas, NEW k \in Kids, RotateKey(r, k) PROVE TypeOK'
  <2>1. key' \in [Kids -> KeyRow]
    BY <1>6, RotatedRows
  <2>2. boot' \in [Replicas -> BootRow]
    BY <1>1, <1>6 DEF TypeOK, RotateKey, Go, BootRow
  <2> QED BY <1>6, <2>1, <2>2 DEF TypeOK, RotateKey, Release, KeyRow, BootRow
<1>7. ASSUME NEW r \in Replicas, NEW t \in 0 .. MaxTime + Skew, SignOAuthJWT(r, t) PROVE TypeOK'
  <2>1. t + TTL \in Nat
    BY SigningKeysAssumption
  <2> QED BY <1>7, <2>1 DEF TypeOK, SignOAuthJWT, ActiveOAuthSigningKey, ActiveKids
<1>8. CASE Tick
  BY <1>8 DEF TypeOK, Tick
<1>9. CASE UNCHANGED vars
  BY <1>9 DEF TypeOK, vars
<1> QED BY <1>2, <1>3, <1>4, <1>5, <1>6, <1>7, <1>8, <1>9 DEF Next

----------------------------------------------------------------------------
(* Clocks.                                                                 *)

\* A replica's start begins with a fresh reading, and time waits for its end.
LEMMA ClocksStep == TypeOK /\ ClocksRecent /\ [Next]_vars => ClocksRecent'
<1> SUFFICES ASSUME TypeOK, ClocksRecent, [Next]_vars, NEW q \in Replicas,
                    boot'[q].pc \in {"waiting", "locked"}
             PROVE  /\ boot'[q].begun <= boot'[q].clock + Skew
                    /\ boot'[q].clock <= boot'[q].begun + Skew
                    /\ boot'[q].begun <= now' /\ now' <= boot'[q].begun + Delay
  BY DEF ClocksRecent
<1> DEFINE Recent == /\ boot'[q].begun <= boot'[q].clock + Skew
                     /\ boot'[q].clock <= boot'[q].begun + Skew
                     /\ boot'[q].begun <= now' /\ now' <= boot'[q].begun + Delay
<1>1. ASSUME boot'[q] = boot[q], now' = now PROVE Recent
  BY <1>1 DEF ClocksRecent
<1>2. ASSUME NEW r \in Replicas, NEW b, b.pc \in {"off", "running"}, Go(r, b), now' = now
      PROVE  Recent
  <2>1. q # r
    BY <1>2 DEF Go, TypeOK
  <2> QED BY <1>1, <1>2, <2>1 DEF Go, TypeOK
<1>3. Off.pc \in {"off", "running"} /\ On.pc \in {"off", "running"}
  BY DEF Off, On
<1>4. ASSUME NEW r \in Replicas, NEW S \in SUBSET Versions, NEW v \in Versions,
             NEW t \in 0 .. MaxTime + Skew, Initialize(r, S, v, t)
      PROVE  Recent
  <2>1. CASE q = r
    <3>1. boot'[q].clock = t /\ boot'[q].begun = now /\ now' = now
      BY <1>4, <2>1 DEF Initialize, Go, TypeOK
    <3>2. t + Skew \in now .. now + 2 * Skew
      BY <1>4 DEF Initialize
    <3> QED BY <3>1, <3>2, SigningKeysAssumption DEF TypeOK
  <2>2. CASE q # r
    BY <1>1, <1>4, <2>2 DEF Initialize, Go, TypeOK
  <2> QED BY <2>1, <2>2
<1>5. ASSUME NEW r \in Replicas, LockAndRead(r) PROVE Recent
  <2>1. PICK k \in ActiveKids \cup {None} :
          Go(r, [boot[r] EXCEPT !.pc = "locked", !.active = k])
    BY <1>5 DEF LockAndRead
  <2>2. /\ boot'[q].clock = boot[q].clock /\ boot'[q].begun = boot[q].begun
        /\ boot[q].pc \in {"waiting", "locked"} /\ now' = now
    <3>1. CASE q = r
      BY <1>5, <2>1, <3>1 DEF LockAndRead, Go, TypeOK
    <3>2. CASE q # r
      BY <1>5, <2>1, <3>2 DEF LockAndRead, Go, TypeOK
    <3> QED BY <3>1, <3>2
  <2> QED BY <2>2 DEF ClocksRecent
<1>6. ASSUME NEW r \in Replicas, KeepKey(r) \/ Stop(r) PROVE Recent
  BY <1>2, <1>3, <1>6 DEF KeepKey, Stop
<1>7. ASSUME NEW r \in Replicas, NEW k \in Kids, RotateKey(r, k) PROVE Recent
  BY <1>2, <1>3, <1>7 DEF RotateKey
<1>8. ASSUME NEW r \in Replicas, NEW t \in 0 .. MaxTime + Skew, SignOAuthJWT(r, t) PROVE Recent
  BY <1>1, <1>8 DEF SignOAuthJWT
<1>9. CASE Tick
  <2>1. boot' = boot /\ now' = now + 1 /\ now < boot[q].begun + Delay
    BY <1>9 DEF Tick
  <2> QED BY <2>1, SigningKeysAssumption DEF TypeOK, ClocksRecent
<1>10. CASE UNCHANGED vars
  BY <1>1, <1>10 DEF vars
<1> QED BY <1>4, <1>5, <1>6, <1>7, <1>8, <1>9, <1>10 DEF Next

----------------------------------------------------------------------------
(* Publication.                                                            *)

\* A key covers its tokens later if it covers them now and stays as it is.
LEMMA CoversLater ==
  ASSUME NEW status, NEW until \in Nat, NEW expiry \in Nat, NEW n1 \in Nat, NEW n2 \in Nat,
         n1 <= n2, KeyCovers(status, until, expiry, n1)
  PROVE  KeyCovers(status, until, expiry, n2)
BY SigningKeysAssumption DEF KeyCovers

\* A rotation leaves every key covering its tokens: the margin outweighs the
\* skew of the clocks and the delay of the start (PublishUntil, RetireExpired).
LEMMA RotationCovers ==
  ASSUME IInv, NEW r \in Replicas, NEW k \in Kids, RotateKey(r, k), NEW j \in Kids
  PROVE  KeyCovers(key'[j].status, key'[j].until, signed'[j], now')
<1>1. signed' = signed /\ now' = now /\ boot[r].pc = "locked"
  BY DEF RotateKey
<1>2. /\ now \in Nat /\ signed[j] \in Nat /\ key[j].until \in Nat
      /\ boot[r].clock \in Nat /\ boot[r].begun \in Nat
  BY DEF IInv, TypeOK
<1>3. KeyCovers(key[j].status, key[j].until, signed[j], now)
  BY DEF IInv, KeysCover
<1>4. /\ boot[r].begun <= boot[r].clock + Skew /\ boot[r].clock <= boot[r].begun + Skew
      /\ boot[r].begun <= now /\ now <= boot[r].begun + Delay
  BY <1>1 DEF IInv, ClocksRecent
<1>5. CASE key'[j] = key[j]
  BY <1>1, <1>3, <1>5
<1>6. CASE key[j].status = "absent" /\ key'[j].status = "active"
  BY <1>1, <1>2, <1>3, <1>6, SigningKeysAssumption DEF KeyCovers
<1>7. CASE key[j].status = "active" /\ key'[j].status = "retiring" /\ key'[j].until = PublishUntil(r)
  <2>1. PublishUntil(r) \in Nat /\ boot[r].clock + TTL + Margin <= PublishUntil(r)
    BY PublishUntilType DEF IInv
  <2>2. signed[j] <= now + Skew + TTL
    BY <1>3, <1>7 DEF KeyCovers
  <2>3. signed[j] + Skew <= PublishUntil(r)
    BY <1>2, <1>4, <2>1, <2>2, SigningKeysAssumption
  <2> QED BY <1>1, <1>7, <2>3 DEF KeyCovers
<1>8. CASE key[j].status = "retiring" /\ key[j].until <= boot[r].clock /\ key'[j].status = "retired"
  <2>1. signed[j] + Skew <= key[j].until
    BY <1>3, <1>8 DEF KeyCovers
  <2>2. signed[j] <= now
    BY <1>2, <1>4, <1>8, <2>1, SigningKeysAssumption
  <2> QED BY <1>1, <1>8, <2>2 DEF KeyCovers
<1> QED BY <1>5, <1>6, <1>7, <1>8, RotatedRows DEF IInv

\* Every step leaves every key covering its tokens.
LEMMA CoversStep == IInv /\ [Next]_vars => KeysCover'
<1> SUFFICES ASSUME IInv, [Next]_vars, NEW j \in Kids
             PROVE  KeyCovers(key'[j].status, key'[j].until, signed'[j], now')
  BY DEF KeysCover, KeyCovers
<1>1. /\ now \in Nat /\ signed[j] \in Nat /\ key[j].until \in Nat
      /\ KeyCovers(key[j].status, key[j].until, signed[j], now)
  BY DEF IInv, TypeOK, KeysCover
<1>2. CASE UNCHANGED <<key, signed, now>>
  BY <1>1, <1>2
<1>3. ASSUME NEW r \in Replicas, NEW k \in Kids, RotateKey(r, k)
      PROVE  KeyCovers(key'[j].status, key'[j].until, signed'[j], now')
  BY <1>3, RotationCovers
<1>4. ASSUME NEW r \in Replicas, NEW t \in 0 .. MaxTime + Skew, SignOAuthJWT(r, t)
      PROVE  KeyCovers(key'[j].status, key'[j].until, signed'[j], now')
  <2>1. PICK k \in ActiveOAuthSigningKey(r) :
          signed' = [signed EXCEPT ![k] = IF @ < t + TTL THEN t + TTL ELSE @]
    BY <1>4 DEF SignOAuthJWT
  <2>2. key' = key /\ now' = now /\ t <= now + Skew
    BY <1>4 DEF SignOAuthJWT
  <2>3. k \in Kids /\ key[k].status = "active"
    BY DEF ActiveOAuthSigningKey, ActiveKids
  <2>4. CASE j # k
    BY <1>1, <2>1, <2>2, <2>4 DEF IInv, TypeOK
  <2>5. CASE j = k
    <3>1. signed'[j] = IF signed[j] < t + TTL THEN t + TTL ELSE signed[j]
      BY <2>1, <2>3, <2>5 DEF IInv, TypeOK
    <3>2. signed[j] <= now + Skew + TTL
      BY <1>1, <2>3, <2>5 DEF KeyCovers
    <3>3. signed'[j] <= now + Skew + TTL
      BY <1>1, <2>2, <3>1, <3>2, SigningKeysAssumption
    <3> QED BY <2>2, <2>3, <2>5, <3>3 DEF KeyCovers
  <2> QED BY <2>4, <2>5
<1>5. CASE Tick
  <2>1. key' = key /\ signed' = signed /\ now' = now + 1
    BY <1>5 DEF Tick
  <2>2. now' \in Nat /\ now <= now'
    BY <1>1, <2>1
  <2> QED BY <1>1, <2>1, <2>2, CoversLater
<1> QED BY <1>2, <1>3, <1>4, <1>5
        DEF Next, Initialize, LockAndRead, KeepKey, Stop, vars

----------------------------------------------------------------------------
(* Theorems.                                                               *)

\* The invariant holds before the first replica has started.
LEMMA InitIInv == Init => IInv
<1> SUFFICES ASSUME Init PROVE IInv
  OBVIOUS
<1>1. TypeOK
  BY SigningKeysAssumption DEF Init, TypeOK, Absent, Off, NoRing
<1>2. KeysCover
  BY SigningKeysAssumption DEF Init, KeysCover, KeyCovers, Absent
<1>3. ClocksRecent
  BY DEF Init, ClocksRecent, Off
<1> QED BY <1>1, <1>2, <1>3 DEF IInv

\* Every behaviour has the inductive invariant.
THEOREM Invariance == Spec => []IInv
<1>1. IInv /\ [Next]_vars => IInv'
  BY TypeStep, ClocksStep, CoversStep DEF IInv
<1> QED BY InitIInv, <1>1, PTL DEF Spec

\* Keys, clocks and the expiry of tokens keep their types.
THEOREM TypeCorrect == Spec => []TypeOK
<1>1. IInv => TypeOK
  BY DEF IInv
<1> QED BY Invariance, <1>1, PTL

\* oauthJWKS publishes the key of every token that has not expired, whichever
\* replicas rotated the keys in the meantime (Initialize, signOAuthJWT).
THEOREM TokensStayVerifiable == Spec => []TokensVerifiable
<1>1. IInv => TokensVerifiable
  <2> SUFFICES ASSUME IInv, NEW k \in Kids, now < signed[k] PROVE k \in JWKS
    BY DEF TokensVerifiable
  <2>1. KeyCovers(key[k].status, key[k].until, signed[k], now)
    BY DEF IInv, KeysCover
  <2>2. now \in Nat /\ signed[k] \in Nat /\ key[k].until \in Nat
    BY DEF IInv, TypeOK
  <2>3. key[k].status \in {"active", "retiring"}
    BY <2>1, <2>2 DEF KeyCovers, IInv, TypeOK
  <2>4. key[k].status = "retiring" => key[k].until > now
    BY <2>1, <2>2, SigningKeysAssumption DEF KeyCovers
  <2> QED BY <2>3, <2>4 DEF JWKS
<1> QED BY Invariance, <1>1, PTL
=============================================================================
