---------------------------- MODULE TenantProofs ----------------------------
(***************************************************************************)
(* Proofs about what a tenant administers: the login of a Project User,    *)
(* the settings of a Project, facial templates, service accounts and the   *)
(* intake of support cases, for any rows, any requests in flight and any   *)
(* limits.  Each part has an inductive invariant of its own; TenantInv     *)
(* puts them together along MCTenant.  The proofs about the members are    *)
(* in TenantMembershipProofs.                                              *)
(***************************************************************************)
EXTENDS MCTenant, FiniteSetTheorems, TLAPS

-----------------------------------------------------------------------------
(* Intake of support cases.                                                  *)

IntakeState == [pc : {"idle", "locked", "counted"}, scope : Intake!Scopes \cup {None}]

IntakeTypes ==
  /\ case \in [Couple \cup Duo -> {"absent", "active", "closed"}]
  /\ lock \in [Intake!Scopes -> Pair \cup Third \cup {None}]
  /\ request \in [Pair \cup Third -> IntakeState]
  /\ reopened \in Nat

\* A request that has begun holds the lock of its Project, or of the tenant.
HoldsLock ==
  \A h \in Pair \cup Third : request[h].pc # "idle" =>
    request[h].scope \in Intake!Scopes /\ lock[request[h].scope] = h

\* Requests that have counted, and have yet to insert their case.
Counted == {h \in Pair \cup Third : request[h].pc = "counted"}

\* A request that has counted is as good as a case.
Reserved ==
  Cardinality(Intake!Active) + Cardinality(Counted)
    <= (CaseLimit - 1) + Cardinality(Intake!Scopes) + reopened

IntakeInv == IntakeTypes /\ HoldsLock /\ Reserved

LEMMA IntakeConstants ==
  /\ IsFiniteSet(Intake!Scopes) /\ IsFiniteSet(Couple \cup Duo) /\ IsFiniteSet(Pair \cup Third)
  /\ CaseLimit \in Nat \ {0} /\ MaxReopens \in Nat
  /\ Tenant \notin Second /\ None \notin Pair \cup Third /\ None \notin Intake!Scopes
<1>1. /\ IsFiniteSet(Second) /\ IsFiniteSet(Couple \cup Duo) /\ IsFiniteSet(Pair \cup Third)
      /\ CaseLimit \in Nat \ {0} /\ MaxReopens \in Nat
      /\ Tenant \notin Second /\ None \notin (Pair \cup Third) \cup Second \cup {Tenant}
  BY TenantConstants DEF TenantConstants, Intake!IntakeAssumption, Intake!IsFiniteSet, IsFiniteSet
<1>2. IsFiniteSet(Second \cup {Tenant})
  BY <1>1, FS_AddElement
<1> QED
  BY <1>1, <1>2 DEF Intake!Scopes

LEMMA IntakeFinite ==
  /\ IsFiniteSet(Intake!Active) /\ Cardinality(Intake!Active) \in Nat
  /\ IsFiniteSet(Counted) /\ Cardinality(Counted) \in Nat
  /\ Cardinality(Intake!Scopes) \in Nat
<1>1. Intake!Active \subseteq Couple \cup Duo /\ Counted \subseteq Pair \cup Third
  BY DEF Intake!Active, Counted
<1>2. IsFiniteSet(Intake!Active) /\ IsFiniteSet(Counted)
  BY <1>1, IntakeConstants, FS_Subset
<1> QED
  BY <1>2, IntakeConstants, FS_CardinalityType

\* Requests that hold a lock each are no more than the rows there are to lock.
LEMMA LockedBounded ==
  ASSUME NEW C, NEW r, NEW l,
         \A h \in C : r[h].scope \in Intake!Scopes /\ l[r[h].scope] = h
  PROVE  Cardinality(C) \in Nat /\ Cardinality(C) <= Cardinality(Intake!Scopes)
<1> DEFINE f == [h \in C |-> r[h].scope]
<1>1. f \in [C -> Intake!Scopes]
  OBVIOUS
<1>2. \A g, h \in C : f[g] = f[h] => g = h
  OBVIOUS
<1>3. f \in Injection(C, Intake!Scopes)
  BY <1>1, <1>2 DEF Injection, IsInjective
<1>4. IsFiniteSet(C) /\ Cardinality(C) <= Cardinality(Intake!Scopes)
  BY <1>3, IntakeConstants, FS_Injection
<1> QED
  BY <1>4, FS_CardinalityType

LEMMA IntakeInit == Intake!Init => IntakeInv
<1> SUFFICES ASSUME Intake!Init PROVE IntakeInv
  OBVIOUS
<1>1. IntakeTypes /\ HoldsLock
  BY DEF Intake!Init, Intake!Idle, IntakeTypes, IntakeState, HoldsLock
<1>2. Intake!Active = {} /\ Counted = {}
  BY DEF Intake!Init, Intake!Active, Intake!Idle, Counted
<1>3. Cardinality(Intake!Active) = 0 /\ Cardinality(Counted) = 0
  BY <1>2, FS_EmptySet
<1> QED
  BY <1>1, <1>3, IntakeConstants, IntakeFinite DEF IntakeInv, Reserved, Intake!Init

\* A request that ends gives its lock back, and no other request loses one.
LEMMA IntakeEnds ==
  ASSUME IntakeTypes, HoldsLock, NEW h \in Pair \cup Third, Intake!End(h),
         case' \in [Couple \cup Duo -> {"absent", "active", "closed"}], reopened' \in Nat
  PROVE  /\ (IntakeTypes /\ HoldsLock)'
         /\ Counted' = Counted \ {h}
<1> USE IntakeConstants
<1>1. /\ lock' = [s \in Intake!Scopes |-> IF lock[s] = h THEN None ELSE lock[s]]
      /\ request' = [request EXCEPT ![h] = Intake!Idle]
  BY DEF Intake!End, Intake!Unlock
<1>2. Intake!Idle \in IntakeState /\ Intake!Idle.pc = "idle"
  BY DEF Intake!Idle, IntakeState
<1>3. request' = [k \in Pair \cup Third |-> IF k = h THEN Intake!Idle ELSE request[k]]
  BY <1>1 DEF IntakeTypes
<1>4. request' \in [Pair \cup Third -> IntakeState]
  BY <1>2, <1>3 DEF IntakeTypes
<1>5. lock' \in [Intake!Scopes -> Pair \cup Third \cup {None}]
  BY <1>1 DEF IntakeTypes
<1>6. IntakeTypes'
  BY <1>4, <1>5 DEF IntakeTypes
<1>7. HoldsLock'
  BY <1>1, <1>2, <1>3 DEF HoldsLock
<1>8. Counted' = Counted \ {h}
  BY <1>2, <1>3 DEF Counted
<1> QED
  BY <1>6, <1>7, <1>8

LEMMA IntakeHandle ==
  ASSUME IntakeInv, NEW h \in Pair \cup Third,
         \/ \E s \in Intake!Scopes : Intake!Begin(h, s)
         \/ Intake!CountActive(h) \/ Intake!CompleteSupportProblem(h) \/ Intake!Rollback(h)
         \/ \E c \in Couple \cup Duo :
              Intake!CreateSupportCase(h, c) \/ Intake!CreateSupportSubmission(h, c)
  PROVE  IntakeInv'
<1> USE IntakeConstants
<1>0. IntakeTypes /\ HoldsLock /\ Reserved
  BY DEF IntakeInv
<1>1. ASSUME NEW s \in Intake!Scopes, Intake!Begin(h, s)
      PROVE  IntakeInv'
  <2> DEFINE r == [pc |-> "locked", scope |-> s]
  <2>1. /\ request[h] = Intake!Idle /\ lock[s] = None
        /\ lock' = [lock EXCEPT ![s] = h] /\ request' = [request EXCEPT ![h] = r]
        /\ case' = case /\ reopened' = reopened
    BY <1>1 DEF Intake!Begin, Intake!MayLock
  <2>2. r \in IntakeState /\ r.pc = "locked" /\ r.scope = s
    BY DEF IntakeState
  <2> HIDE DEF r
  <2>3. request' = [k \in Pair \cup Third |-> IF k = h THEN r ELSE request[k]]
    BY <2>1, <1>0 DEF IntakeTypes
  <2>4. lock' = [z \in Intake!Scopes |-> IF z = s THEN h ELSE lock[z]]
    BY <2>1, <1>0 DEF IntakeTypes
  <2>5. IntakeTypes'
    BY <2>1, <2>2, <2>3, <2>4, <1>0 DEF IntakeTypes
  <2>6. HoldsLock'
    BY <2>1, <2>2, <2>3, <2>4, <1>0 DEF HoldsLock
  <2>7. request[h].pc = "idle"
    BY <2>1 DEF Intake!Idle
  <2>8. Counted' = Counted /\ Intake!Active' = Intake!Active
    BY <2>1, <2>2, <2>3, <2>7 DEF Counted, Intake!Active
  <2>9. Reserved'
    BY <2>1, <2>8, <1>0 DEF Reserved
  <2> QED
    BY <2>5, <2>6, <2>9 DEF IntakeInv
<1>2. CASE Intake!CountActive(h)
  <2> DEFINE r == [request[h] EXCEPT !.pc = "counted"]
  <2>1. /\ request[h].pc = "locked" /\ Intake!HasRoom
        /\ request' = [request EXCEPT ![h] = r]
        /\ case' = case /\ lock' = lock /\ reopened' = reopened
    BY <1>2 DEF Intake!CountActive
  <2>2. r \in IntakeState /\ r.pc = "counted" /\ r.scope = request[h].scope
    BY <1>0 DEF IntakeTypes, IntakeState
  <2> HIDE DEF r
  <2>3. request' = [k \in Pair \cup Third |-> IF k = h THEN r ELSE request[k]]
    BY <2>1, <1>0 DEF IntakeTypes
  <2>4. IntakeTypes'
    BY <2>1, <2>2, <2>3, <1>0 DEF IntakeTypes
  <2>5. HoldsLock'
    BY <2>1, <2>2, <2>3, <1>0 DEF HoldsLock
  <2>6. \A k \in Counted' :
          request'[k].scope \in Intake!Scopes /\ lock'[request'[k].scope] = k
    BY <2>5 DEF HoldsLock, Counted
  <2>7. Cardinality(Intake!Active) < CaseLimit /\ Intake!Active' = Intake!Active
    BY <2>1 DEF Intake!HasRoom, Intake!Active, Intake!Cardinality, Cardinality
  <2>8. Cardinality(Counted') \in Nat /\ Cardinality(Counted') <= Cardinality(Intake!Scopes)
    BY <2>6, LockedBounded
  <2>9. Reserved'
    BY <2>1, <2>7, <2>8, <1>0, IntakeFinite DEF Reserved, IntakeTypes
  <2> QED
    BY <2>4, <2>5, <2>9 DEF IntakeInv
<1>3. CASE Intake!CompleteSupportProblem(h) \/ Intake!Rollback(h)
  <2>1. Intake!End(h) /\ case' = case /\ reopened' = reopened
    BY <1>3 DEF Intake!CompleteSupportProblem, Intake!Rollback
  <2>2. (IntakeTypes /\ HoldsLock)' /\ Counted' = Counted \ {h}
    BY <2>1, <1>0, IntakeEnds DEF IntakeTypes
  <2>3. Intake!Active' = Intake!Active
    BY <2>1 DEF Intake!Active
  <2>4. Cardinality(Counted \ {h}) <= Cardinality(Counted) /\ Cardinality(Counted \ {h}) \in Nat
    BY IntakeFinite, FS_Subset, FS_CardinalityType
  <2>5. Reserved'
    BY <2>1, <2>2, <2>3, <2>4, <1>0, IntakeFinite DEF Reserved, IntakeTypes
  <2> QED
    BY <2>2, <2>5 DEF IntakeInv
<1>4. ASSUME NEW c \in Couple \cup Duo, Intake!Insert(h, c)
      PROVE  IntakeInv'
  <2>1. /\ request[h].pc = "counted" /\ case[c] = "absent"
        /\ case' = [case EXCEPT ![c] = "active"] /\ Intake!End(h) /\ reopened' = reopened
    BY <1>4 DEF Intake!Insert
  <2>2. case' \in [Couple \cup Duo -> {"absent", "active", "closed"}]
    BY <2>1, <1>0 DEF IntakeTypes
  <2>3. (IntakeTypes /\ HoldsLock)' /\ Counted' = Counted \ {h}
    BY <2>1, <2>2, <1>0, IntakeEnds DEF IntakeTypes
  <2>4. Intake!Active' = Intake!Active \cup {c} /\ c \notin Intake!Active
    BY <2>1, <1>0 DEF Intake!Active, IntakeTypes
  <2>5. Cardinality(Intake!Active \cup {c}) = Cardinality(Intake!Active) + 1
    BY <2>4, IntakeFinite, FS_AddElement
  <2>6. h \in Counted
    BY <2>1 DEF Counted
  <2>7. Cardinality(Counted \ {h}) = Cardinality(Counted) - 1
    BY <2>6, IntakeFinite, FS_RemoveElement
  <2>8. Reserved'
    BY <2>1, <2>3, <2>4, <2>5, <2>7, <1>0, IntakeFinite DEF Reserved, IntakeTypes
  <2> QED
    BY <2>3, <2>8 DEF IntakeInv
<1> QED
  BY <1>1, <1>2, <1>3, <1>4 DEF Intake!CreateSupportCase, Intake!CreateSupportSubmission

LEMMA IntakeCase ==
  ASSUME IntakeInv, NEW c \in Couple \cup Duo,
         Intake!Close(c) \/ Intake!Reopen(c) \/ Intake!Purge(c)
  PROVE  IntakeInv'
<1> USE IntakeConstants
<1>0. IntakeTypes /\ HoldsLock /\ Reserved
  BY DEF IntakeInv
<1>1. lock' = lock /\ request' = request
  BY DEF Intake!Close, Intake!Reopen, Intake!Purge
<1>2. HoldsLock' /\ Counted' = Counted
  BY <1>0, <1>1 DEF HoldsLock, Counted
<1>3. CASE Intake!Close(c) \/ Intake!Purge(c)
  <2>1. IntakeTypes' /\ reopened' = reopened
    BY <1>0, <1>1, <1>3 DEF IntakeTypes, Intake!Close, Intake!Purge
  <2>2. Intake!Active' = Intake!Active \ {c}
    BY <1>0, <1>3 DEF IntakeTypes, Intake!Close, Intake!Purge, Intake!Active
  <2>3. /\ Cardinality(Intake!Active \ {c}) <= Cardinality(Intake!Active)
        /\ Cardinality(Intake!Active \ {c}) \in Nat
    BY IntakeFinite, FS_Subset, FS_CardinalityType
  <2>4. Reserved'
    BY <1>0, <1>2, <2>1, <2>2, <2>3, IntakeFinite DEF Reserved, IntakeTypes
  <2> QED
    BY <1>2, <2>1, <2>4 DEF IntakeInv
<1>4. CASE Intake!Reopen(c)
  <2>1. IntakeTypes' /\ reopened' = reopened + 1
    BY <1>0, <1>1, <1>4 DEF IntakeTypes, Intake!Reopen
  <2>2. Intake!Active' = Intake!Active \cup {c} /\ c \notin Intake!Active
    BY <1>0, <1>4 DEF IntakeTypes, Intake!Reopen, Intake!Active
  <2>3. Cardinality(Intake!Active \cup {c}) = Cardinality(Intake!Active) + 1
    BY <2>2, IntakeFinite, FS_AddElement
  <2>4. Reserved'
    BY <1>0, <1>2, <2>1, <2>2, <2>3, IntakeFinite DEF Reserved, IntakeTypes
  <2> QED
    BY <1>2, <2>1, <2>4 DEF IntakeInv
<1> QED
  BY <1>3, <1>4

LEMMA IntakeStutters ==
  ASSUME IntakeInv, UNCHANGED <<case, lock, request, reopened>>
  PROVE  IntakeInv'
<1>1. Intake!Active' = Intake!Active /\ Counted' = Counted
  BY DEF Intake!Active, Counted
<1> QED
  BY <1>1 DEF IntakeInv, IntakeTypes, HoldsLock, Reserved

LEMMA IntakeNext ==
  ASSUME IntakeInv, Intake!Next
  PROVE  IntakeInv'
<1>1. CASE \E p \in Second, status \in {"active", "disabled"} : Intake!SetProject(p, status)
  BY <1>1, IntakeStutters DEF Intake!SetProject
<1> QED
  BY <1>1, IntakeHandle, IntakeCase DEF Intake!Next

LEMMA IntakeLimit == IntakeInv => Intake!IntakeBounded
<1> SUFFICES ASSUME IntakeInv PROVE Intake!IntakeBounded
  OBVIOUS
<1>1. Cardinality(Intake!Active) <= CaseLimit + (Cardinality(Intake!Scopes) - 1) + reopened
  BY IntakeConstants, IntakeFinite DEF IntakeInv, IntakeTypes, Reserved
<1>2. \A S : Intake!Cardinality(S) = Cardinality(S)
  BY DEF Intake!Cardinality, Cardinality
<1> QED
  BY <1>1, <1>2 DEF Intake!IntakeBounded

-----------------------------------------------------------------------------
(* Service accounts and their credentials.                                   *)

AccountRow == [status : {"unused", "active", "disabled", "deleted"},
               scopes : SUBSET Service!Scopes]
CredentialRow == [status : {"unused", "active", "revoked", "expired"},
                  account : First \cup {None}, subject : Second \cup {None},
                  scopes : SUBSET Service!Scopes]
IssuerState == [pc : {"idle", "authorized", "locked"},
                account : First \cup {None}, subject : Second \cup {None},
                scopes : SUBSET Service!Scopes]

ServiceTypes ==
  /\ account \in [First -> AccountRow]
  /\ credential \in [Couple \cup Third -> CredentialRow]
  /\ issuer \in [Pair -> IssuerState]

\* Whoever issues names an account, which is active from the lock on.
IssuersInv ==
  \A h \in Pair :
    /\ issuer[h].pc # "idle" => issuer[h].account \in First
    /\ issuer[h].pc = "locked" => account[issuer[h].account].status = "active"

\* An active credential is one of an active account.
ActiveOfActive ==
  \A c \in Couple \cup Third : credential[c].status = "active" =>
    credential[c].account \in First /\ account[credential[c].account].status = "active"

ServiceInv == ServiceTypes /\ IssuersInv /\ ActiveOfActive

LEMMA ServiceIdle == Service!Idle \in IssuerState /\ Service!Idle.pc = "idle"
BY DEF Service!Idle, IssuerState

LEMMA ServiceInit == Service!Init => ServiceInv
<1> SUFFICES ASSUME Service!Init PROVE ServiceInv
  OBVIOUS
<1>1. Service!NoAccount \in AccountRow
  BY DEF Service!NoAccount, AccountRow
<1>2. Service!NoCredential \in CredentialRow /\ Service!NoCredential.status = "unused"
  BY DEF Service!NoCredential, CredentialRow
<1> QED
  BY <1>1, <1>2, ServiceIdle DEF Service!Init, ServiceInv, ServiceTypes, IssuersInv, ActiveOfActive

\* A request goes on to state r; rows stay as they are.
LEMMA ServiceGoes ==
  ASSUME ServiceInv, NEW h \in Pair, NEW r \in IssuerState,
         issuer' = [issuer EXCEPT ![h] = r], UNCHANGED <<account, credential>>,
         r.pc # "idle" => r.account \in First,
         r.pc = "locked" => account[r.account].status = "active"
  PROVE  ServiceInv'
<1>1. issuer' = [k \in Pair |-> IF k = h THEN r ELSE issuer[k]]
  BY DEF ServiceInv, ServiceTypes
<1> QED
  BY <1>1 DEF ServiceInv, ServiceTypes, IssuersInv, ActiveOfActive

\* Credentials lose their force, accounts stay as they are.
LEMMA ServiceRevokes ==
  ASSUME ServiceInv, NEW C, NEW status \in {"revoked", "expired"},
         credential' = [c \in Couple \cup Third |->
           IF c \in C THEN [credential[c] EXCEPT !.status = status] ELSE credential[c]],
         UNCHANGED <<account, issuer>>
  PROVE  ServiceInv'
<1>1. \A c \in Couple \cup Third : LET r == [credential[c] EXCEPT !.status = status] IN
        r \in CredentialRow /\ r.status = status
  BY DEF ServiceInv, ServiceTypes, CredentialRow
<1>2. ServiceTypes'
  BY <1>1 DEF ServiceInv, ServiceTypes
<1>3. \A c \in Couple \cup Third : credential'[c].status = "active" => credential'[c] = credential[c]
  BY <1>1
<1> QED
  BY <1>2, <1>3 DEF ServiceInv, IssuersInv, ActiveOfActive

\* The account of the row is written while no issuing request has locked it.
LEMMA ServiceAccount ==
  ASSUME ServiceInv, NEW a \in First, NEW r \in AccountRow,
         account' = [account EXCEPT ![a] = r], issuer' = issuer,
         \A h \in Pair : ~(issuer[h].pc = "locked" /\ issuer[h].account = a),
         credential' \in [Couple \cup Third -> CredentialRow],
         \A c \in Couple \cup Third : credential'[c].status = "active" =>
           /\ credential'[c] = credential[c]
           /\ r.status = "active" \/ credential[c].account # a
  PROVE  ServiceInv'
<1>1. account' = [x \in First |-> IF x = a THEN r ELSE account[x]]
  BY DEF ServiceInv, ServiceTypes
<1>2. ServiceTypes'
  BY <1>1 DEF ServiceInv, ServiceTypes
<1>3. IssuersInv'
  BY <1>1 DEF ServiceInv, IssuersInv
<1>4. ActiveOfActive'
  BY <1>1 DEF ServiceInv, ActiveOfActive
<1> QED
  BY <1>2, <1>3, <1>4 DEF ServiceInv

LEMMA ServiceChange ==
  ASSUME ServiceInv, NEW a \in First, Service!ChangeAccount(a)
  PROVE  ServiceInv'
<1>0. \A c \in Couple \cup Third : LET r == [credential[c] EXCEPT !.status = "revoked"] IN
        r \in CredentialRow /\ r.status = "revoked"
  BY DEF ServiceInv, ServiceTypes, CredentialRow
<1>1. Service!Revoked(Service!OfAccount(a)) = [c \in Couple \cup Third |->
        IF credential[c].account = a THEN [credential[c] EXCEPT !.status = "revoked"]
                                     ELSE credential[c]]
  BY DEF Service!Revoked, Service!OfAccount
<1> DEFINE revoked == Service!Revoked(Service!OfAccount(a))
<1>2. /\ revoked \in [Couple \cup Third -> CredentialRow]
      /\ \A c \in Couple \cup Third : revoked[c].status = "active" =>
           revoked[c] = credential[c] /\ credential[c].account # a
  BY <1>0, <1>1 DEF ServiceInv, ServiceTypes
<1>3. credential \in [Couple \cup Third -> CredentialRow]
  BY DEF ServiceInv, ServiceTypes
<1> HIDE DEF revoked
<1>4. ASSUME NEW status \in Service!Status, NEW scopes \in SUBSET Service!Scopes,
             Service!UpdateServiceAccount(a, status, scopes)
      PROVE  ServiceInv'
  <2> DEFINE r == [status |-> status, scopes |-> scopes]
  <2>1. /\ ~Service!AccountLocked(a)
        /\ account' = [account EXCEPT ![a] = r] /\ issuer' = issuer
        /\ credential' = IF status = "disabled" THEN revoked ELSE credential
    BY <1>4 DEF Service!UpdateServiceAccount, Service!MayChange, revoked
  <2>2. r \in AccountRow /\ r.status \in {"active", "disabled"} /\ r.status = status
    BY DEF AccountRow, Service!Status
  <2>3. \A h \in Pair : ~(issuer[h].pc = "locked" /\ issuer[h].account = a)
    BY <2>1 DEF Service!AccountLocked
  <2> HIDE DEF r
  <2>4. /\ credential' \in [Couple \cup Third -> CredentialRow]
        /\ \A c \in Couple \cup Third : credential'[c].status = "active" =>
             credential'[c] = credential[c] /\ (r.status = "active" \/ credential[c].account # a)
    BY <1>2, <1>3, <2>1, <2>2
  <2> QED
    BY <2>1, <2>2, <2>3, <2>4, ServiceAccount
<1>5. CASE Service!DeleteServiceAccount(a)
  <2> DEFINE r == [account[a] EXCEPT !.status = "deleted"]
  <2>1. /\ ~Service!AccountLocked(a)
        /\ account' = [account EXCEPT ![a] = r] /\ issuer' = issuer /\ credential' = revoked
    BY <1>5 DEF Service!DeleteServiceAccount, Service!MayChange, revoked
  <2>2. r \in AccountRow
    BY DEF ServiceInv, ServiceTypes, AccountRow
  <2>3. \A h \in Pair : ~(issuer[h].pc = "locked" /\ issuer[h].account = a)
    BY <2>1 DEF Service!AccountLocked
  <2> HIDE DEF r
  <2> QED
    BY <1>2, <2>1, <2>2, <2>3, ServiceAccount
<1> QED
  BY <1>4, <1>5 DEF Service!ChangeAccount

LEMMA ServiceIssue ==
  ASSUME ServiceInv, NEW h \in Pair, Service!Issue(h)
  PROVE  ServiceInv'
<1>0. ServiceTypes /\ issuer[h] \in IssuerState
  BY DEF ServiceInv, ServiceTypes
<1>1. ASSUME NEW a \in First, Service!BeginStandard(h, a)
      PROVE  ServiceInv'
  <2> DEFINE r == [Service!Idle EXCEPT !.pc = "authorized", !.account = a]
  <2>1. r \in IssuerState /\ r.pc = "authorized" /\ r.account = a
    BY DEF Service!Idle, IssuerState
  <2>2. issuer' = [issuer EXCEPT ![h] = r] /\ UNCHANGED <<account, credential>>
    BY <1>1 DEF Service!BeginStandard
  <2> HIDE DEF r
  <2> QED
    BY <2>1, <2>2, ServiceGoes
<1>2. ASSUME NEW c \in Couple \cup Third, NEW s \in Second, NEW scopes \in SUBSET Service!Scopes,
             Service!BeginExternal(h, c, s, scopes)
      PROVE  ServiceInv'
  <2> DEFINE r == [pc |-> "authorized", account |-> credential[c].account,
                   subject |-> s, scopes |-> scopes]
  <2>1. credential[c].account \in First
    BY <1>2 DEF Service!BeginExternal, Service!Authorized, ServiceInv, ActiveOfActive
  <2>2. r \in IssuerState /\ r.pc = "authorized" /\ r.account \in First
    BY <2>1 DEF IssuerState
  <2>3. issuer' = [issuer EXCEPT ![h] = r] /\ UNCHANGED <<account, credential>>
    BY <1>2 DEF Service!BeginExternal
  <2> HIDE DEF r
  <2> QED
    BY <2>2, <2>3, ServiceGoes
<1>3. CASE Service!LockAccount(h)
  <2> DEFINE got == IF issuer[h].subject = None THEN {}
                    ELSE Service!ExternalCredentialScopes(issuer[h].scopes, account[issuer[h].account].scopes)
             r == [issuer[h] EXCEPT !.pc = "locked", !.scopes = got]
  <2>1. issuer[h].pc = "authorized" /\ account[issuer[h].account].status = "active"
    BY <1>3 DEF Service!LockAccount, Service!MayIssue
  <2>2. issuer[h].account \in First
    BY <2>1 DEF ServiceInv, IssuersInv
  <2>3. got \subseteq Service!Scopes
    BY <1>0, <2>2 DEF ServiceTypes, IssuerState, AccountRow, Service!ExternalCredentialScopes,
                      Service!Delegable
  <2>4. r \in IssuerState /\ r.pc = "locked" /\ r.account = issuer[h].account
    <3> HIDE DEF got
    <3> QED
      BY <1>0, <2>3 DEF IssuerState
  <2>5. issuer' = [issuer EXCEPT ![h] = r] /\ UNCHANGED <<account, credential>>
    BY <1>3 DEF Service!LockAccount
  <2> HIDE DEF r
  <2> QED
    BY <2>1, <2>2, <2>4, <2>5, ServiceGoes
<1>4. CASE Service!AbandonIssue(h)
  BY <1>4, ServiceIdle, ServiceGoes DEF Service!AbandonIssue
<1>5. ASSUME NEW c \in Couple \cup Third, Service!InsertCredential(h, c)
      PROVE  ServiceInv'
  <2> DEFINE r == [status |-> "active", account |-> issuer[h].account,
                   subject |-> issuer[h].subject, scopes |-> issuer[h].scopes]
  <2>1. /\ issuer[h].pc = "locked" /\ account' = account
        /\ credential' = [credential EXCEPT ![c] = r]
        /\ issuer' = [issuer EXCEPT ![h] = Service!Idle]
    BY <1>5 DEF Service!InsertCredential
  <2>2. issuer[h].account \in First /\ account[issuer[h].account].status = "active"
    BY <2>1 DEF ServiceInv, IssuersInv
  <2>3. r \in CredentialRow /\ r.account = issuer[h].account
    BY <1>0, <2>2 DEF IssuerState, CredentialRow
  <2> HIDE DEF r
  <2>4. /\ credential' = [x \in Couple \cup Third |-> IF x = c THEN r ELSE credential[x]]
        /\ issuer' = [k \in Pair |-> IF k = h THEN Service!Idle ELSE issuer[k]]
    BY <1>0, <2>1 DEF ServiceTypes
  <2>5. ServiceTypes'
    BY <1>0, <2>1, <2>3, <2>4, ServiceIdle DEF ServiceTypes
  <2>6. IssuersInv' /\ ActiveOfActive'
    BY <2>1, <2>2, <2>3, <2>4, ServiceIdle DEF ServiceInv, IssuersInv, ActiveOfActive
  <2> QED
    BY <2>5, <2>6 DEF ServiceInv
<1> QED
  BY <1>1, <1>2, <1>3, <1>4, <1>5 DEF Service!Issue

LEMMA ServiceStutters ==
  ASSUME ServiceInv, UNCHANGED <<account, credential, issuer>>
  PROVE  ServiceInv'
BY DEF ServiceInv, ServiceTypes, IssuersInv, ActiveOfActive

LEMMA ServiceCreate ==
  ASSUME ServiceInv, NEW h \in First, NEW a \in First, NEW scopes \in SUBSET Service!Scopes,
         Service!CreateServiceAccount(h, a, scopes)
  PROVE  ServiceInv'
<1> DEFINE r == [status |-> "active", scopes |-> scopes]
<1>1. account[a].status = "unused" /\ account' = [account EXCEPT ![a] = r]
      /\ credential' = credential /\ issuer' = issuer
  BY DEF Service!CreateServiceAccount, Service!NoAccount
<1>2. r \in AccountRow /\ r.status = "active"
  BY DEF AccountRow
<1> HIDE DEF r
<1>3. \A k \in Pair : ~(issuer[k].pc = "locked" /\ issuer[k].account = a)
  BY <1>1 DEF ServiceInv, IssuersInv
<1>4. credential' \in [Couple \cup Third -> CredentialRow]
  BY <1>1 DEF ServiceInv, ServiceTypes
<1> QED
  BY <1>1, <1>2, <1>3, <1>4, ServiceAccount

LEMMA ServiceNext ==
  ASSUME ServiceInv, Service!Next
  PROVE  ServiceInv'
<1>1. ASSUME NEW c \in Couple \cup Third, Service!ExpireCredential(c)
      PROVE  ServiceInv'
  <2>1. credential' = [x \in Couple \cup Third |->
          IF x \in {c} THEN [credential[x] EXCEPT !.status = "expired"] ELSE credential[x]]
    BY <1>1 DEF Service!ExpireCredential, ServiceInv, ServiceTypes
  <2>2. UNCHANGED <<account, issuer>>
    BY <1>1 DEF Service!ExpireCredential
  <2> QED
    BY <2>1, <2>2, ServiceRevokes
<1>2. ASSUME NEW c \in Couple \cup Third, credential' = Service!Revoked({c}),
             UNCHANGED <<account, issuer>>
      PROVE  ServiceInv'
  BY <1>2, ServiceRevokes DEF Service!Revoked
<1>3. CASE \E c \in Couple \cup Third :
             \/ Service!RevokeServiceCredential(c) \/ Service!ExpireCredential(c)
             \/ \E m \in Couple \cup Third : Service!RevokeExternalCredential(m, c)
  BY <1>1, <1>2, <1>3 DEF Service!RevokeServiceCredential, Service!RevokeExternalCredential
<1>4. CASE \/ \E h \in First : Service!CountAccounts(h) \/ Service!AbandonCreate(h)
           \/ \E status \in Service!Status :
                Service!SetProject(status) \/ \E s \in Second : Service!SetMember(s, status)
  BY <1>4, ServiceStutters DEF Service!CountAccounts, Service!AbandonCreate, Service!SetProject,
                               Service!SetMember
<1> QED
  BY <1>3, <1>4, ServiceIssue, ServiceChange, ServiceCreate DEF Service!Next

LEMMA ServiceDisabled == ServiceInv => Service!DisabledHasNone
BY DEF ServiceInv, ActiveOfActive, Service!DisabledHasNone


-----------------------------------------------------------------------------
(* The RP ID of a Project.                                                   *)

ConfigStatus == {"absent", "active", "disabled", None}
ConfigRow == [status : ConfigStatus, rp_id : RpIds \cup {None}, locked : BOOLEAN]
ConfigState == [pc : {"idle", "updating", "adding", "deleting", "registering"},
                rp_id : RpIds \cup {None}, status : ConfigStatus,
                origin : Origins \cup {None}]

\* A Project with a registered credential has its RP ID locked.
ConfigInv ==
  /\ project \in ConfigRow
  /\ credential \in [Duo -> RpIds \cup {None}]
  /\ request \in [Handlers -> ConfigState]
  /\ (\E k \in Duo : credential[k] # None) => project.locked

LEMMA ConfigIdle == Config!Idle \in ConfigState
BY DEF Config!Idle, ConfigState, ConfigStatus

LEMMA ConfigInit == Config!Init => ConfigInv
BY ConfigIdle DEF Config!Init, Config!NoProject, ConfigInv, ConfigRow, ConfigStatus

\* A request goes on to state r; rows stay as they are.
LEMMA ConfigGoes ==
  ASSUME ConfigInv, NEW h \in Handlers, NEW r \in ConfigState, Config!Go(h, r),
         UNCHANGED <<project, credential>>
  PROVE  ConfigInv' /\ Config!KeepsRpId
BY DEF ConfigInv, Config!Go, Config!KeepsRpId

LEMMA ConfigCreates ==
  ASSUME ConfigInv, NEW rp \in RpIds \cup BadRpIds, NEW o \in Origins, Config!CreateProject(rp, o)
  PROVE  ConfigInv' /\ Config!KeepsRpId
<1>1. /\ project.locked = FALSE /\ rp \in RpIds /\ credential' = credential /\ request' = request
      /\ project' = [status |-> "active", rp_id |-> rp, locked |-> FALSE]
  BY DEF Config!CreateProject, Config!NoProject, Config!ValidRPID
<1>2. project' \in ConfigRow
  BY <1>1 DEF ConfigRow, ConfigStatus
<1>3. \A k \in Duo : credential[k] = None
  BY <1>1 DEF ConfigInv
<1> QED
  BY <1>1, <1>2, <1>3 DEF ConfigInv, Config!KeepsRpId

LEMMA ConfigUpdate ==
  ASSUME ConfigInv, NEW h \in Handlers, Config!Update(h)
  PROVE  ConfigInv' /\ Config!KeepsRpId
<1>1. ASSUME NEW rp \in RpIds \cup BadRpIds \cup {None}, NEW status \in Config!Status \cup {None},
             Config!LoadForUpdate(h, rp, status)
      PROVE  ConfigInv' /\ Config!KeepsRpId
  <2> DEFINE next == IF rp = None THEN project.rp_id ELSE rp
             st == IF status = None THEN project.status ELSE status
             r == [Config!Idle EXCEPT !.pc = "updating", !.rp_id = next, !.status = st]
  <2>1. next \in RpIds /\ Config!Go(h, r) /\ UNCHANGED <<project, credential>>
    BY <1>1 DEF Config!LoadForUpdate, Config!ValidRPID
  <2>2. st \in ConfigStatus
    BY DEF ConfigInv, ConfigRow, ConfigStatus, Config!Status
  <2>3. r \in ConfigState
    <3> HIDE DEF next, st
    <3> QED
      BY <2>1, <2>2 DEF Config!Idle, ConfigState
  <2> HIDE DEF r
  <2> QED
    BY <2>1, <2>3, ConfigGoes
<1>2. CASE Config!UpdateProject(h)
  <2> DEFINE p == [project EXCEPT !.rp_id = request[h].rp_id, !.status = request[h].status]
  <2>1. /\ project' = IF Config!MayWriteRpId(request[h].rp_id) THEN p ELSE project
        /\ Config!Go(h, Config!Idle) /\ credential' = credential
    BY <1>2 DEF Config!UpdateProject
  <2>2. p \in ConfigRow /\ p.locked = project.locked /\ p.rp_id = request[h].rp_id
    BY DEF ConfigInv, ConfigRow, ConfigState
  <2> HIDE DEF p
  <2>3. project' \in ConfigRow /\ project'.locked = project.locked
    BY <2>1, <2>2 DEF ConfigInv
  <2>4. ConfigInv'
    BY <2>1, <2>3, ConfigIdle DEF ConfigInv, Config!Go
  <2>5. Config!KeepsRpId
    BY <2>1, <2>2 DEF ConfigInv, Config!KeepsRpId, Config!MayWriteRpId
  <2> QED
    BY <2>4, <2>5
<1> QED
  BY <1>1, <1>2 DEF Config!Update

LEMMA ConfigOrigins ==
  ASSUME ConfigInv, NEW h \in Handlers, Config!ChangeOrigins(h)
  PROVE  ConfigInv' /\ Config!KeepsRpId
<1>1. ASSUME NEW o \in Origins, NEW pc \in {"adding", "deleting"}
      PROVE  [Config!Idle EXCEPT !.pc = pc, !.origin = o] \in ConfigState
  BY DEF Config!Idle, ConfigState, ConfigStatus
<1>2. /\ UNCHANGED <<project, credential>>
      /\ \E r \in ConfigState : Config!Go(h, r)
  BY <1>1, ConfigIdle
     DEF Config!ChangeOrigins, Config!LoadForCreateOrigin, Config!LoadForDeleteOrigin,
         Config!CreateOrigin, Config!DeleteOrigin
<1> QED
  BY <1>2, ConfigGoes

LEMMA ConfigRegister ==
  ASSUME ConfigInv, NEW h \in Handlers, Config!Register(h)
  PROVE  ConfigInv' /\ Config!KeepsRpId
<1>1. CASE Config!WebAuthnForProject(h)
  <2> DEFINE r == [Config!Idle EXCEPT !.pc = "registering", !.rp_id = project.rp_id]
  <2>1. r \in ConfigState
    BY DEF Config!Idle, ConfigInv, ConfigRow, ConfigState, ConfigStatus
  <2> HIDE DEF r
  <2>2. Config!Go(h, r) /\ UNCHANGED <<project, credential>>
    BY <1>1 DEF Config!WebAuthnForProject, r
  <2> QED
    BY <2>1, <2>2, ConfigGoes
<1>2. ASSUME NEW k \in Duo, Config!RegisterCredential(h, k)
      PROVE  ConfigInv' /\ Config!KeepsRpId
  <2> DEFINE p == [project EXCEPT !.locked = TRUE]
  <2>1. /\ credential' = [credential EXCEPT ![k] = request[h].rp_id]
        /\ project' = p /\ Config!Go(h, Config!Idle)
    BY <1>2 DEF Config!RegisterCredential, Config!LockRpId
  <2>2. p \in ConfigRow /\ p.locked = TRUE /\ p.rp_id = project.rp_id
    BY DEF ConfigInv, ConfigRow
  <2>3. request[h].rp_id \in RpIds \cup {None}
    BY DEF ConfigInv, ConfigState
  <2> HIDE DEF p
  <2> QED
    BY <2>1, <2>2, <2>3, ConfigIdle DEF ConfigInv, Config!Go, Config!KeepsRpId
<1> QED
  BY <1>1, <1>2 DEF Config!Register

LEMMA ConfigNext ==
  ASSUME ConfigInv, Config!Next
  PROVE  ConfigInv' /\ Config!KeepsRpId
<1>1. ASSUME NEW h \in Handlers, Config!Abandon(h)
      PROVE  ConfigInv' /\ Config!KeepsRpId
  BY <1>1, ConfigIdle, ConfigGoes DEF Config!Abandon
<1> QED
  BY <1>1, ConfigCreates, ConfigUpdate, ConfigOrigins, ConfigRegister DEF Config!Next

-----------------------------------------------------------------------------
(* Facial templates.                                                         *)

Templates == First \cup Second \cup Third
TemplateRow == [uid : Pair \cup {None}, template : Templates \cup {None}]
BioState == [pc : {"idle", "enrolled", "old_read", "saved", "failed", "deleting", "deleted"},
             uid : Pair \cup {None}, new : Templates \cup {None}, old : Templates \cup {None}]

BioTypes ==
  /\ row \in TemplateRow
  /\ request \in [Handlers -> BioState]

\* The enrolment will still save its new template; it may still delete its old one.
Pending(h) == request[h].pc \in {"enrolled", "old_read"}
Replaces(h) == request[h].pc \in {"old_read", "saved"}

\* At the provider, or excused.
Accounted == provider \cup removed \cup contested

PendingInv ==
  \A h \in Handlers : Pending(h) => request[h].new \in Templates \cap Accounted

\* A template that one enrolment obtained and another replaces is contested.
ContestInv ==
  \A h, k \in Handlers :
    Pending(h) /\ Replaces(k) /\ h # k /\ request[k].old = request[h].new =>
      request[h].new \in contested

\* What an enrolment that is saved is about to delete is not the template in
\* force, unless that came back.
ReplacedInv ==
  \A k \in Handlers :
    /\ request[k].pc = "saved" /\ request[k].old \notin {None, request[k].new}
    /\ row.template = request[k].old
    => row.template \in contested

RowInv ==
  /\ row # Bio!NoRow => row.template # None
  /\ row.template # None => row.template \in Accounted

BioInv == BioTypes /\ PendingInv /\ ContestInv /\ ReplacedInv /\ RowInv

LEMMA BioConstants == None \notin Templates
BY TenantConstants DEF TenantConstants, Bio!BiometricsAssumption, Templates

LEMMA BioIdle ==
  /\ Bio!Idle \in BioState
  /\ Bio!Idle.pc = "idle" /\ Bio!Idle.new = None /\ Bio!Idle.old = None
BY DEF Bio!Idle, BioState

LEMMA BioInit == Bio!Init => BioInv
<1> SUFFICES ASSUME Bio!Init PROVE BioInv
  OBVIOUS
<1>1. Bio!NoRow \in TemplateRow /\ Bio!NoRow.template = None
  BY DEF Bio!NoRow, TemplateRow
<1>2. BioTypes
  BY <1>1, BioIdle DEF Bio!Init, BioTypes
<1>3. \A h \in Handlers : request[h].pc = "idle"
  BY BioIdle DEF Bio!Init
<1> QED
  BY <1>1, <1>2, <1>3 DEF Bio!Init, BioInv, PendingInv, Pending, ContestInv, ReplacedInv, RowInv

\* A request goes on without a write to the row other than its deletion, and no
\* template is lost to the provider that is not excused.
LEMMA BioGoes ==
  ASSUME BioInv, NEW h \in Handlers, NEW r \in BioState, Bio!Go(h, r),
         row' \in {row, Bio!NoRow},
         Accounted \subseteq Accounted', contested \subseteq contested',
         r.pc # "saved",
         r.pc \in {"enrolled", "old_read"} => Pending(h) /\ r.new = request[h].new,
         r.pc = "old_read" =>
           \A k \in Handlers \ {h} : Pending(k) /\ request[k].new = r.old => r.old \in contested'
  PROVE  BioInv'
<1>0. BioTypes /\ PendingInv /\ ContestInv /\ ReplacedInv /\ RowInv
  BY DEF BioInv
<1>1. request' = [k \in Handlers |-> IF k = h THEN r ELSE request[k]]
  BY <1>0 DEF Bio!Go, BioTypes
<1>2. Bio!NoRow \in TemplateRow /\ Bio!NoRow.template = None
  BY DEF Bio!NoRow, TemplateRow
<1>3. BioTypes'
  BY <1>0, <1>1, <1>2 DEF BioTypes
<1>4. \A k \in Handlers : Pending(k)' => Pending(k) /\ request'[k].new = request[k].new
  BY <1>1 DEF Pending
<1>5. PendingInv'
  BY <1>0, <1>4 DEF PendingInv
<1>6. ContestInv'
  <2> SUFFICES ASSUME NEW g \in Handlers, NEW k \in Handlers, Pending(g)', Replaces(k)', g # k,
                      request'[k].old = request'[g].new
               PROVE  request'[g].new \in contested'
    BY DEF ContestInv
  <2>1. Pending(g) /\ request'[g].new = request[g].new
    BY <1>4
  <2>2. CASE k = h
    BY <1>1, <2>1, <2>2 DEF Replaces
  <2>3. CASE k # h
    BY <1>0, <1>1, <2>1, <2>3 DEF Replaces, ContestInv
  <2> QED
    BY <2>2, <2>3
<1>7. ReplacedInv'
  BY <1>0, <1>1, <1>2 DEF ReplacedInv
<1>8. RowInv'
  BY <1>0, <1>2 DEF RowInv
<1> QED
  BY <1>3, <1>5, <1>6, <1>7, <1>8 DEF BioInv

LEMMA BioEnroll ==
  ASSUME BioInv, NEW h \in Handlers, NEW t \in Templates, NEW ok \in BOOLEAN, Bio!Enroll(h, t, ok)
  PROVE  BioInv'
<1>0. BioTypes /\ PendingInv /\ ContestInv /\ ReplacedInv /\ RowInv
  BY DEF BioInv
<1> DEFINE e == [Bio!Idle EXCEPT !.pc = "enrolled", !.new = t]
           r == IF ok THEN e ELSE Bio!Idle
<1>1. e \in BioState /\ e.pc = "enrolled" /\ e.new = t
  BY DEF Bio!Idle, BioState
<1>2. /\ provider' = provider \cup {t} /\ removed' = removed \ {t} /\ row' = row
      /\ contested' = IF Bio!Replacing(t) # {} THEN contested \cup {t} ELSE contested \ {t}
      /\ request' = [request EXCEPT ![h] = r]
  BY DEF Bio!Enroll, Bio!Go
<1> HIDE DEF e
<1>3. r \in BioState /\ r.pc \in {"idle", "enrolled"} /\ (r.pc = "enrolled" => r.new = t)
  BY <1>1, BioIdle
<1> HIDE DEF r
<1>4. request' = [k \in Handlers |-> IF k = h THEN r ELSE request[k]]
  BY <1>0, <1>2 DEF BioTypes
<1>5. BioTypes'
  BY <1>0, <1>2, <1>3, <1>4 DEF BioTypes
<1>6. Accounted \cup {t} \subseteq Accounted'
  BY <1>2 DEF Accounted
<1>7. \A k \in Handlers : Replaces(k) /\ request[k].old = t => t \in contested'
  BY <1>2 DEF Bio!Replacing, Replaces
<1>8. \A u : u # t /\ u \in contested => u \in contested'
  BY <1>2
<1>9. PendingInv'
  BY <1>0, <1>3, <1>4, <1>6 DEF PendingInv, Pending
<1>10. \A k \in Handlers : Replaces(k)' => Replaces(k) /\ request'[k] = request[k]
  BY <1>3, <1>4 DEF Replaces
<1>11. ContestInv'
  <2> SUFFICES ASSUME NEW g \in Handlers, NEW k \in Handlers, Pending(g)', Replaces(k)', g # k,
                      request'[k].old = request'[g].new
               PROVE  request'[g].new \in contested'
    BY DEF ContestInv
  <2>1. CASE request'[g].new = t
    BY <1>7, <1>10, <2>1
  <2>2. CASE request'[g].new # t
    <3>1. Pending(g) /\ request'[g] = request[g]
      BY <1>3, <1>4, <2>2 DEF Pending
    <3> QED
      BY <1>0, <1>8, <1>10, <2>2, <3>1 DEF ContestInv
  <2> QED
    BY <2>1, <2>2
<1>12. ReplacedInv'
  <2> SUFFICES ASSUME NEW k \in Handlers, request'[k].pc = "saved",
                      request'[k].old \notin {None, request'[k].new},
                      row.template = request'[k].old
               PROVE  row.template \in contested'
    BY <1>2 DEF ReplacedInv
  <2>1. Replaces(k) /\ request'[k] = request[k]
    BY <1>10 DEF Replaces
  <2> QED
    BY <1>0, <1>7, <1>8, <2>1 DEF ReplacedInv
<1>13. RowInv'
  BY <1>0, <1>2, <1>6 DEF RowInv
<1> QED
  BY <1>5, <1>9, <1>11, <1>12, <1>13 DEF BioInv

\* The row takes the new template, whether the request hears of it or not.
LEMMA BioUpserts ==
  ASSUME BioInv, NEW h \in Handlers, NEW u \in Pair, Bio!Upsert(h, u),
         NEW r \in BioState, Bio!Go(h, r), request[h].pc = "old_read",
         r.pc \in {"saved", "failed"}, r.old = request[h].old, r.new = request[h].new,
         UNCHANGED <<provider, removed, contested>>
  PROVE  BioInv'
<1>0. BioTypes /\ PendingInv /\ ContestInv /\ ReplacedInv /\ RowInv
  BY DEF BioInv
<1>1. request' = [k \in Handlers |-> IF k = h THEN r ELSE request[k]]
  BY <1>0 DEF Bio!Go, BioTypes
<1>2. /\ Pending(h) /\ request[h].new \in Templates /\ request[h].new # None
      /\ request[h].new \in Accounted
  BY <1>0, BioConstants DEF PendingInv, Pending
<1>3. row' \in TemplateRow /\ row'.template = request[h].new
  <2>1. (IF row = Bio!NoRow THEN u ELSE row.uid) \in Pair \cup {None}
    BY <1>0 DEF BioTypes, TemplateRow
  <2> QED
    BY <1>2, <2>1 DEF Bio!Upsert, Bio!Upserted, TemplateRow
<1>4. BioTypes'
  BY <1>0, <1>1, <1>3 DEF BioTypes
<1>5. \A k \in Handlers : Pending(k)' => k # h /\ Pending(k) /\ request'[k] = request[k]
  BY <1>1 DEF Pending
<1>6. PendingInv'
  BY <1>0, <1>5 DEF PendingInv, Accounted
<1>7. \A k \in Handlers : Replaces(k)' => Replaces(k) /\ request'[k].old = request[k].old
  BY <1>1 DEF Replaces
<1>8. ContestInv'
  BY <1>0, <1>5, <1>7 DEF ContestInv
<1>9. ReplacedInv'
  <2> SUFFICES ASSUME NEW k \in Handlers, request'[k].pc = "saved",
                      request'[k].old \notin {None, request'[k].new},
                      row'.template = request'[k].old
               PROVE  row'.template \in contested
    BY DEF ReplacedInv
  <2>1. k # h /\ Replaces(k)
    BY <1>1, <1>3 DEF Replaces
  <2> QED
    BY <1>0, <1>1, <1>2, <1>3, <2>1 DEF ContestInv
<1>10. RowInv'
  BY <1>2, <1>3 DEF RowInv, Accounted
<1> QED
  BY <1>4, <1>6, <1>8, <1>9, <1>10 DEF BioInv

LEMMA BioDeletesOld ==
  ASSUME BioInv, NEW h \in Handlers, NEW ok \in BOOLEAN, Bio!DeleteOldTemplate(h, ok)
  PROVE  BioInv'
<1>0. BioTypes /\ PendingInv /\ ContestInv /\ ReplacedInv /\ RowInv
  BY DEF BioInv
<1>1. /\ request[h].pc = "saved" /\ request' = [request EXCEPT ![h] = Bio!Idle]
      /\ provider \ Bio!Superseded(h) \subseteq provider'
      /\ UNCHANGED <<row, removed, contested>>
  BY DEF Bio!DeleteOldTemplate, Bio!At, Bio!Go
<1>2. request' = [k \in Handlers |-> IF k = h THEN Bio!Idle ELSE request[k]]
  BY <1>0, <1>1 DEF BioTypes
<1>3. \A u : u \in Accounted /\ (u = request[h].old /\ u \notin {None, request[h].new} => u \in contested)
             => u \in Accounted'
  BY <1>1 DEF Accounted, Bio!Superseded
<1>4. BioTypes'
  BY <1>0, <1>1, <1>2, BioIdle DEF BioTypes
<1>5. \A k \in Handlers :
        /\ Pending(k)' => k # h /\ Pending(k) /\ request'[k] = request[k]
        /\ Replaces(k)' => k # h /\ Replaces(k) /\ request'[k] = request[k]
  BY <1>2, BioIdle DEF Pending, Replaces
<1>6. PendingInv'
  <2> SUFFICES ASSUME NEW k \in Handlers, Pending(k)'
               PROVE  request'[k].new \in Templates \cap Accounted'
    BY DEF PendingInv
  <2>1. /\ k # h /\ Pending(k) /\ request'[k] = request[k]
        /\ request[k].new \in Templates \cap Accounted
    BY <1>0, <1>5 DEF PendingInv
  <2>2. request[k].new = request[h].old => request[k].new \in contested
    BY <1>0, <1>1, <2>1 DEF ContestInv, Replaces
  <2> QED
    BY <1>3, <2>1, <2>2
<1>7. ContestInv'
  BY <1>0, <1>1, <1>5 DEF ContestInv
<1>8. ReplacedInv'
  BY <1>0, <1>1, <1>2, BioIdle DEF ReplacedInv
<1>9. RowInv'
  BY <1>0, <1>1, <1>3 DEF RowInv, ReplacedInv
<1> QED
  BY <1>4, <1>6, <1>7, <1>8, <1>9 DEF BioInv

LEMMA BioHandle ==
  ASSUME BioInv, NEW h \in Handlers, Bio!Handle(h)
  PROVE  BioInv'
<1>0. BioTypes /\ PendingInv /\ request[h] \in BioState
  BY DEF BioInv, BioTypes
<1>1. ASSUME NEW read \in BOOLEAN, Bio!ReadOldTemplate(h, read)
      PROVE  BioInv'
  <2> DEFINE old == IF read THEN row.template ELSE None
             r == [request[h] EXCEPT !.pc = "old_read", !.old = old]
  <2>1. r \in BioState /\ r.pc = "old_read" /\ r.new = request[h].new /\ r.old = old
    BY <1>0 DEF BioTypes, TemplateRow, BioState
  <2>2. /\ Pending(h) /\ Bio!Go(h, r) /\ UNCHANGED <<row, provider, removed>>
        /\ contested' = IF Bio!Obtained(old) \ {h} # {} THEN contested \cup {old} ELSE contested
    BY <1>1 DEF Bio!ReadOldTemplate, Bio!At, Pending
  <2> HIDE DEF r, old
  <2>3. \A k \in Handlers \ {h} : Pending(k) /\ request[k].new = old => old \in contested'
    BY <2>2 DEF Bio!Obtained, Pending
  <2>4. contested \subseteq contested' /\ Accounted \subseteq Accounted'
    BY <2>2 DEF Accounted
  <2> QED
    BY <2>1, <2>2, <2>3, <2>4, BioGoes
<1>2. ASSUME NEW u \in Pair, Bio!SaveEnrollment(h, u)
      PROVE  BioInv'
  <2> DEFINE r == [request[h] EXCEPT !.pc = "saved"]
  <2>1. r \in BioState /\ r.pc = "saved" /\ r.old = request[h].old /\ r.new = request[h].new
    BY <1>0 DEF BioState
  <2>2. /\ request[h].pc = "old_read" /\ Bio!Go(h, r) /\ Bio!Upsert(h, u)
        /\ UNCHANGED <<provider, removed, contested>>
    BY <1>2 DEF Bio!SaveEnrollment, Bio!At
  <2> HIDE DEF r
  <2> QED
    BY <2>1, <2>2, BioUpserts
<1>3. CASE Bio!SaveFails(h)
  <2> DEFINE r == [request[h] EXCEPT !.pc = "failed"]
  <2>1. r \in BioState /\ r.pc = "failed" /\ r.old = request[h].old /\ r.new = request[h].new
    BY <1>0 DEF BioState
  <2>2. /\ request[h].pc = "old_read" /\ Bio!Go(h, r)
        /\ row' = row \/ \E u \in Pair : Bio!Upsert(h, u)
        /\ UNCHANGED <<provider, removed, contested>>
    BY <1>3 DEF Bio!SaveFails, Bio!At
  <2> HIDE DEF r
  <2>3. CASE row' = row
    BY <2>1, <2>2, <2>3, BioGoes DEF Accounted
  <2>4. CASE \E u \in Pair : Bio!Upsert(h, u)
    BY <2>1, <2>2, <2>4, BioUpserts
  <2> QED
    BY <2>2, <2>3, <2>4
<1>4. ASSUME NEW ok \in BOOLEAN, Bio!TakeBack(h, ok)
      PROVE  BioInv'
  <2>1. /\ Bio!Go(h, Bio!Idle) /\ UNCHANGED <<row, contested>>
        /\ provider \cup removed \subseteq provider' \cup removed'
    BY <1>4 DEF Bio!TakeBack
  <2> QED
    BY <2>1, BioIdle, BioGoes DEF Accounted
<1>5. ASSUME NEW ok \in BOOLEAN, Bio!DeleteTemplate(h, ok)
      PROVE  BioInv'
  <2> DEFINE d == [request[h] EXCEPT !.pc = "deleted"]
             r == IF ok THEN d ELSE Bio!Idle
  <2>1. d \in BioState /\ d.pc = "deleted"
    BY <1>0 DEF BioState
  <2>2. /\ Bio!Go(h, r) /\ UNCHANGED <<row, contested>>
        /\ provider \cup removed \subseteq provider' \cup removed'
    BY <1>5 DEF Bio!DeleteTemplate
  <2> HIDE DEF d
  <2>3. r \in BioState /\ r.pc \in {"deleted", "idle"}
    BY <2>1, BioIdle
  <2> HIDE DEF r
  <2> QED
    BY <2>2, <2>3, BioGoes DEF Accounted
<1>6. CASE Bio!ReadEnrollment(h)
  <2> DEFINE r == [Bio!Idle EXCEPT !.pc = "deleting", !.uid = row.uid, !.old = row.template]
  <2>1. r \in BioState /\ r.pc = "deleting"
    BY <1>0 DEF BioTypes, TemplateRow, BioState, Bio!Idle
  <2>2. Bio!Go(h, r) /\ UNCHANGED <<row, provider, removed, contested>>
    BY <1>6 DEF Bio!ReadEnrollment
  <2> HIDE DEF r
  <2> QED
    BY <2>1, <2>2, BioGoes DEF Accounted
<1>7. CASE Bio!DeleteEnrollment(h) \/ Bio!Abandon(h)
  <2>1. /\ Bio!Go(h, Bio!Idle) /\ row' \in {row, Bio!NoRow}
        /\ UNCHANGED <<provider, removed, contested>>
    BY <1>7 DEF Bio!DeleteEnrollment, Bio!Abandon
  <2> QED
    BY <2>1, BioIdle, BioGoes DEF Accounted
<1> QED
  BY <1>1, <1>2, <1>3, <1>4, <1>5, <1>6, <1>7, BioEnroll, BioDeletesOld DEF Bio!Handle, Templates

LEMMA BioNext ==
  ASSUME BioInv, Bio!Next
  PROVE  BioInv'
BY BioHandle DEF Bio!Next

LEMMA BioHeld == BioInv => Bio!EnrolledTemplateHeld
BY DEF BioInv, RowInv, Accounted, Bio!EnrolledTemplateHeld

-----------------------------------------------------------------------------
(* Logins of a Project User, with any number of requests.                    *)

\* Rows and requests of a login, for attempts A.
Factor == {"passkey", "security_key", "hybrid", "face", None}
UserAttempt == [status : {"unused", "unbound", "open", "consumed", "expired"}, verified : BOOLEAN]
UserCeremony(A) == [status : {"unused", "open", "consumed", "expired"},
                    type : {"authentication", "registration", None},
                    attempt : A \cup {None}, mode : Factor]
UserSession(A) == [status : {"unused", "live", "revoked"}, attempt : A \cup {None},
                   ceremony : Couple \cup {None}, by : Factor]
LoginState(A) == [pc : {"idle", "resolved", "password_checked", "asserting", "asserted",
                        "counting", "inserting", "completing", "updating", "revoking"},
                  attempt : A \cup {None}, verified : BOOLEAN, ceremony : Couple \cup {None},
                  mode : Factor, credential : First \cup {None},
                  status : {"absent", "active", "disabled", None}]

LoginTypes ==
  /\ user \in {"absent", "active", "disabled", None}
  /\ attempt \in [Second -> UserAttempt]
  /\ ceremony \in [Couple -> UserCeremony(Second)]
  /\ session \in [Duo -> UserSession(Second)]
  /\ request \in [Handlers -> LoginState(Second)]

\* A request that may still complete a login has an attempt to complete.
Resolved(r) ==
  r.pc \in {"resolved", "password_checked", "asserting", "asserted", "counting", "completing"}
    => r.attempt \in Second

\* A session names the attempt it consumed, and no other session names it.
LoginSessions ==
  /\ \A s \in Duo : session[s].attempt = None => session[s] = Login!NoSession
  /\ \A s \in Duo : session[s].attempt # None => attempt[session[s].attempt].status = "consumed"
  /\ \A s, t \in Duo :
       session[s].attempt # None /\ session[s].attempt = session[t].attempt => s = t

LoginInv == LoginTypes /\ (\A h \in Handlers : Resolved(request[h])) /\ LoginSessions

LEMMA LoginConstants ==
  /\ LoginModes \subseteq {"passkey", "security_key", "hybrid"}
  /\ None \notin Second \cup Pair \cup Couple \cup First \cup Duo
  /\ None \notin {"passkey", "security_key", "hybrid"}
BY TenantConstants DEF TenantConstants, Login!LoginAssumption, Factors!LoginAssumption

LEMMA LoginIdle ==
  /\ Login!Idle \in LoginState(Second) /\ Resolved(Login!Idle)
  /\ Login!Idle.pc = "idle" /\ Login!Idle.attempt = None
BY DEF Login!Idle, LoginState, Factor, Resolved

LEMMA LoginInit == Login!Init => LoginInv
<1> SUFFICES ASSUME Login!Init PROVE LoginInv
  OBVIOUS
<1>1. Login!NoAttempt \in UserAttempt
  BY DEF Login!NoAttempt, UserAttempt
<1>2. Login!NoCeremony \in UserCeremony(Second)
  BY DEF Login!NoCeremony, UserCeremony, Factor
<1>3. Login!NoSession \in UserSession(Second) /\ Login!NoSession.attempt = None
  BY DEF Login!NoSession, UserSession, Factor
<1>4. LoginTypes
  BY <1>1, <1>2, <1>3, LoginIdle DEF Login!Init, LoginTypes
<1>5. LoginSessions
  BY <1>3 DEF Login!Init, LoginSessions
<1>6. \A h \in Handlers : Resolved(request[h])
  BY LoginIdle DEF Login!Init
<1> QED
  BY <1>4, <1>5, <1>6 DEF LoginInv

\* A step that makes no session: a consumed attempt stays consumed, and sessions
\* at most change their status.
LEMMA LoginKeeps ==
  ASSUME LoginInv, LoginTypes',
         \A h \in Handlers : Resolved(request'[h]),
         \A a \in Second : attempt[a].status = "consumed" => attempt'[a].status = "consumed",
         \A s \in Duo : session'[s].attempt = session[s].attempt,
         \A s \in Duo : session[s] = Login!NoSession => session'[s] = session[s]
  PROVE  LoginInv'
<1>1. LoginSessions /\ LoginTypes
  BY DEF LoginInv
<1>2. \A s \in Duo : session[s].attempt # None => session[s].attempt \in Second
  BY <1>1 DEF LoginTypes, UserSession
<1>3. LoginSessions'
  BY <1>1, <1>2 DEF LoginSessions
<1> QED
  BY <1>3 DEF LoginInv

\* A request goes on to state r; rows of sessions and attempts stay.
LEMMA LoginGoes ==
  ASSUME LoginInv, NEW h \in Handlers, NEW r \in LoginState(Second), Login!Go(h, r), Resolved(r),
         UNCHANGED <<attempt, session>>,
         user' \in {"absent", "active", "disabled", None},
         ceremony' \in [Couple -> UserCeremony(Second)]
  PROVE  LoginInv'
<1>0. LoginTypes /\ \A k \in Handlers : Resolved(request[k])
  BY DEF LoginInv
<1>1. request' = [k \in Handlers |-> IF k = h THEN r ELSE request[k]]
  BY <1>0 DEF Login!Go, LoginTypes
<1>2. LoginTypes'
  BY <1>0, <1>1 DEF LoginTypes
<1>3. \A k \in Handlers : Resolved(request'[k])
  BY <1>0, <1>1
<1> QED
  BY <1>2, <1>3, LoginKeeps

\* Rows are written and requests stay where they are.
LEMMA LoginWrites ==
  ASSUME LoginInv, request' = request,
         user' \in {"absent", "active", "disabled", None},
         attempt' \in [Second -> UserAttempt],
         \A a \in Second : attempt[a].status = "consumed" => attempt'[a].status = "consumed",
         ceremony' \in [Couple -> UserCeremony(Second)],
         session' \in [Duo -> UserSession(Second)],
         \A s \in Duo : session'[s].attempt = session[s].attempt,
         \A s \in Duo : session[s] = Login!NoSession => session'[s] = session[s]
  PROVE  LoginInv'
<1>1. LoginTypes' /\ \A k \in Handlers : Resolved(request'[k])
  BY DEF LoginInv, LoginTypes
<1> QED
  BY <1>1, LoginKeeps

\* What becomes of rows.
LEMMA CeremonyMoves ==
  ASSUME NEW A, NEW x \in UserCeremony(A), NEW status \in {"consumed", "expired"}
  PROVE  LET n == [x EXCEPT !.status = status] IN
         /\ n \in UserCeremony(A)
         /\ n.status = status /\ n.type = x.type /\ n.attempt = x.attempt /\ n.mode = x.mode
BY DEF UserCeremony

LEMMA SessionRevoked ==
  ASSUME NEW A, NEW x \in UserSession(A)
  PROVE  LET n == [x EXCEPT !.status = "revoked"] IN
         /\ n \in UserSession(A)
         /\ n.status = "revoked" /\ n.attempt = x.attempt /\ n.ceremony = x.ceremony /\ n.by = x.by
BY DEF UserSession

LEMMA AttemptMoves ==
  ASSUME NEW x \in UserAttempt, NEW status \in {"unbound", "open", "consumed", "expired"}
  PROVE  LET n == [x EXCEPT !.status = status] IN
         n \in UserAttempt /\ n.status = status /\ n.verified = x.verified
BY DEF UserAttempt

LEMMA AttemptVerified ==
  ASSUME NEW x \in UserAttempt
  PROVE  LET n == [x EXCEPT !.verified = TRUE] IN
         n \in UserAttempt /\ n.status = x.status /\ n.verified = TRUE
BY DEF UserAttempt

LEMMA LoginConsumes ==
  ASSUME LoginTypes, NEW c \in Couple, NEW status \in {"consumed", "expired"}
  PROVE  [ceremony EXCEPT ![c].status = status] \in [Couple -> UserCeremony(Second)]
<1>1. ceremony[c] \in UserCeremony(Second)
  BY DEF LoginTypes
<1>2. [ceremony[c] EXCEPT !.status = status] \in UserCeremony(Second)
  BY <1>1, CeremonyMoves
<1> QED
  BY <1>2 DEF LoginTypes

LEMMA LoginRevokes ==
  ASSUME LoginTypes, NEW S,
         session' = [s \in Duo |-> IF s \in S THEN [session[s] EXCEPT !.status = "revoked"]
                                             ELSE session[s]],
         \A s \in S : session[s].status = "live"
  PROVE  /\ session' \in [Duo -> UserSession(Second)]
         /\ \A s \in Duo : session'[s].attempt = session[s].attempt
         /\ \A s \in Duo : session[s] = Login!NoSession => session'[s] = session[s]
<1>1. ASSUME NEW s \in Duo
      PROVE  /\ [session[s] EXCEPT !.status = "revoked"] \in UserSession(Second)
             /\ [session[s] EXCEPT !.status = "revoked"].attempt = session[s].attempt
             /\ session[s] \in UserSession(Second)
  <2>1. session[s] \in UserSession(Second)
    BY DEF LoginTypes
  <2> QED
    BY <2>1, SessionRevoked
<1>2. Login!NoSession.status = "unused"
  BY DEF Login!NoSession
<1> QED
  BY <1>1, <1>2

LEMMA LoginRevokeAll ==
  ASSUME LoginTypes, session' = Login!RevokeAll
  PROVE  /\ session' \in [Duo -> UserSession(Second)]
         /\ \A s \in Duo : session'[s].attempt = session[s].attempt
         /\ \A s \in Duo : session[s] = Login!NoSession => session'[s] = session[s]
<1> DEFINE S == {s \in Duo : session[s].status = "live"}
<1>1. session' = [s \in Duo |-> IF s \in S THEN [session[s] EXCEPT !.status = "revoked"]
                                            ELSE session[s]]
  BY DEF Login!RevokeAll
<1>2. \A s \in S : session[s].status = "live"
  OBVIOUS
<1> HIDE DEF S
<1> QED
  BY <1>1, <1>2, LoginRevokes

LEMMA LoginHandle ==
  ASSUME LoginInv, NEW h \in Handlers, Login!Handle(h)
  PROVE  LoginInv'
<1>0. /\ LoginTypes /\ Resolved(request[h]) /\ request[h] \in LoginState(Second)
      /\ \A k \in Handlers : Resolved(request[k])
      /\ user \in {"absent", "active", "disabled", None}
      /\ ceremony \in [Couple -> UserCeremony(Second)]
  BY DEF LoginInv, LoginTypes
<1>1. ASSUME NEW r \in LoginState(Second), Resolved(r), Login!Go(h, r),
             UNCHANGED <<user, attempt, ceremony, session>>
      PROVE  LoginInv'
  BY <1>0, <1>1, LoginGoes
<1>2. ASSUME NEW a \in Second, Login!ResolveLoginAttempt(h, a)
      PROVE  LoginInv'
  <2> DEFINE r == [Login!Idle EXCEPT !.pc = "resolved", !.attempt = a, !.verified = attempt[a].verified]
  <2>1. r \in LoginState(Second) /\ r.attempt = a
    BY <1>0 DEF LoginTypes, UserAttempt, LoginState, Login!Idle, Factor
  <2>2. Login!Go(h, r) /\ UNCHANGED <<user, attempt, ceremony, session>>
    BY <1>2 DEF Login!ResolveLoginAttempt
  <2> HIDE DEF r
  <2> QED
    BY <1>1, <2>1, <2>2 DEF Resolved
<1>3. CASE Login!CheckPassword(h)
  <2> DEFINE r == [request[h] EXCEPT !.pc = "password_checked"]
  <2>1. request[h].pc = "resolved" /\ Login!Go(h, r) /\ UNCHANGED <<user, attempt, ceremony, session>>
    BY <1>3 DEF Login!CheckPassword, Login!At
  <2>2. r \in LoginState(Second) /\ r.attempt = request[h].attempt
    BY <1>0 DEF LoginState
  <2> HIDE DEF r
  <2> QED
    BY <1>0, <1>1, <2>1, <2>2 DEF Resolved
<1>4. CASE Login!VerifyProjectUserLoginPassword(h)
  <2> DEFINE a == request[h].attempt
             v == [attempt[a] EXCEPT !.verified = TRUE]
  <2>1. /\ request[h].pc = "password_checked" /\ request' = [request EXCEPT ![h] = Login!Idle]
        /\ attempt' = attempt \/ attempt' = [attempt EXCEPT ![a] = v]
        /\ user' = user /\ ceremony' = ceremony /\ session' = session
    BY <1>4 DEF Login!VerifyProjectUserLoginPassword, Login!At, Login!Go
  <2>2. a \in Second
    BY <1>0, <2>1 DEF Resolved
  <2>3. v \in UserAttempt /\ v.status = attempt[a].status
    BY <1>0, <2>2, AttemptVerified DEF LoginTypes
  <2> HIDE DEF a, v
  <2>4. /\ attempt' \in [Second -> UserAttempt]
        /\ \A x \in Second : attempt'[x].status = attempt[x].status
    BY <1>0, <2>1, <2>2, <2>3 DEF LoginTypes
  <2>5. LoginTypes' /\ \A k \in Handlers : Resolved(request'[k])
    BY <1>0, <2>1, <2>4, LoginIdle DEF LoginTypes
  <2> QED
    BY <2>1, <2>4, <2>5, LoginKeeps
<1>5. ASSUME NEW c \in Couple,
             \/ Login!FinishFidoLogin(h, c) \/ Login!FinishFirstFidoEnrollment(h, c)
             \/ \E s \in Duo : Login!FinishFidoEnrollment(h, s, c)
      PROVE  LoginInv'
  <2>1. ceremony' \in [Couple -> UserCeremony(Second)]
    BY <1>0, <1>5, LoginConsumes
       DEF Login!FinishFidoLogin, Login!FinishFirstFidoEnrollment, Login!FinishFidoEnrollment,
           Login!ConsumeFidoCeremony
  <2>2. user' = user /\ UNCHANGED <<attempt, session>>
    BY <1>5
       DEF Login!FinishFidoLogin, Login!FinishFirstFidoEnrollment, Login!FinishFidoEnrollment
  <2>3. ceremony[c].mode \in Factor
    BY <1>0 DEF UserCeremony
  <2>4. ASSUME NEW pc \in {"asserting", "counting"}
        PROVE  LET n == [request[h] EXCEPT !.pc = pc, !.ceremony = c, !.mode = ceremony[c].mode] IN
               n \in LoginState(Second) /\ n.attempt = request[h].attempt /\ n.pc = pc
    BY <1>0, <2>3 DEF LoginState
  <2>5. LET n == [Login!Idle EXCEPT !.pc = "inserting", !.ceremony = c, !.mode = ceremony[c].mode] IN
        n \in LoginState(Second) /\ n.pc = "inserting"
    BY <2>3, LoginIdle DEF LoginState
  <2>6. CASE Login!FinishFidoLogin(h, c) \/ Login!FinishFirstFidoEnrollment(h, c)
    <3>1. request[h].attempt \in Second
      BY <1>0, <2>6 DEF Login!FinishFidoLogin, Login!FinishFirstFidoEnrollment, Login!At, Resolved
    <3>2. \E r \in LoginState(Second) : Login!Go(h, r) /\ Resolved(r)
      BY <2>4, <2>6, <3>1, LoginIdle
         DEF Login!FinishFidoLogin, Login!FinishFirstFidoEnrollment, Resolved
    <3> QED
      BY <1>0, <2>1, <2>2, <3>2, LoginGoes
  <2>7. CASE \E s \in Duo : Login!FinishFidoEnrollment(h, s, c)
    <3>1. \E r \in LoginState(Second) : Login!Go(h, r) /\ Resolved(r)
      BY <2>5, <2>7 DEF Login!FinishFidoEnrollment, Resolved
    <3> QED
      BY <1>0, <2>1, <2>2, <3>1, LoginGoes
  <2> QED
    BY <1>5, <2>6, <2>7
<1>6. ASSUME NEW k \in First, Login!LoadAssertion(h, k)
      PROVE  LoginInv'
  <2> DEFINE r == [request[h] EXCEPT !.pc = "asserted", !.credential = k]
  <2>1. request[h].pc = "asserting" /\ Login!Go(h, r) /\ UNCHANGED <<user, attempt, ceremony, session>>
    BY <1>6 DEF Login!LoadAssertion, Login!At
  <2>2. r \in LoginState(Second) /\ r.attempt = request[h].attempt
    BY <1>0 DEF LoginState
  <2> HIDE DEF r
  <2> QED
    BY <1>0, <1>1, <2>1, <2>2 DEF Resolved
<1>7. ASSUME NEW k \in First, Login!InsertCredential(h, k)
      PROVE  LoginInv'
  <2> DEFINE n == [request[h] EXCEPT !.pc = "completing"]
             r == IF request[h].attempt = None THEN Login!Idle ELSE n
  <2>1. n \in LoginState(Second) /\ n.attempt = request[h].attempt
    BY <1>0 DEF LoginState
  <2>2. request[h].attempt \in Second \cup {None}
    BY <1>0 DEF LoginState
  <2>3. Login!Go(h, r) /\ UNCHANGED <<user, attempt, ceremony, session>>
    BY <1>7 DEF Login!InsertCredential
  <2> HIDE DEF n
  <2>4. r \in LoginState(Second) /\ Resolved(r)
    BY <2>1, <2>2, LoginIdle DEF Resolved
  <2> HIDE DEF r
  <2> QED
    BY <1>1, <2>3, <2>4
<1>8. CASE Login!UpdateCredential(h) \/ Login!CountCredentials(h)
  <2>1. /\ UNCHANGED <<user, attempt, ceremony, session>>
        /\ request[h].pc \in {"asserted", "counting"}
        /\ \E pc \in {"completing", "inserting"} : Login!Go(h, [request[h] EXCEPT !.pc = pc])
    BY <1>8 DEF Login!UpdateCredential, Login!CountCredentials, Login!At
  <2>2. PICK pc \in {"completing", "inserting"} : Login!Go(h, [request[h] EXCEPT !.pc = pc])
    BY <2>1
  <2> DEFINE r == [request[h] EXCEPT !.pc = pc]
  <2>3. r \in LoginState(Second) /\ r.attempt = request[h].attempt
    BY <1>0 DEF LoginState
  <2>4. Login!Go(h, r)
    BY <2>2
  <2> HIDE DEF r
  <2> QED
    BY <1>0, <1>1, <2>1, <2>3, <2>4 DEF Resolved
<1>9. CASE Login!VerifyBiometricLogin(h)
  <2> DEFINE r == [request[h] EXCEPT !.pc = "completing", !.mode = "face"]
  <2>1. request[h].pc = "resolved" /\ Login!Go(h, r) /\ UNCHANGED <<user, attempt, ceremony, session>>
    BY <1>9 DEF Login!VerifyBiometricLogin, Login!At
  <2>2. r \in LoginState(Second) /\ r.attempt = request[h].attempt
    BY <1>0 DEF LoginState, Factor
  <2> HIDE DEF r
  <2> QED
    BY <1>0, <1>1, <2>1, <2>2 DEF Resolved
<1>10. ASSUME NEW s \in Duo, Login!CompleteLogin(h, s)
       PROVE  LoginInv'
  <2> DEFINE a == request[h].attempt
             n == Login!NewSession(h)
             x == [attempt[a] EXCEPT !.status = "consumed"]
  <2>1. /\ request[h].pc = "completing" /\ attempt[a].status = "open"
        /\ session[s] = Login!NoSession
        /\ attempt' = [attempt EXCEPT ![a] = x]
        /\ session' = [session EXCEPT ![s] = n]
        /\ request' = [request EXCEPT ![h] = Login!Idle]
        /\ user' = user /\ ceremony' = ceremony
    BY <1>10 DEF Login!CompleteLogin, Login!MayComplete, Login!Usable, Login!At, Login!Go
  <2>2. a \in Second /\ a # None
    BY <1>0, <2>1, LoginConstants DEF Resolved
  <2>3. n \in UserSession(Second) /\ n.attempt = a
    BY <1>0 DEF Login!NewSession, LoginState, UserSession
  <2>4. x \in UserAttempt /\ x.status = "consumed"
    BY <1>0, <2>2, AttemptMoves DEF LoginTypes
  <2> HIDE DEF a, n, x
  <2>5. /\ session' = [t \in Duo |-> IF t = s THEN n ELSE session[t]]
        /\ attempt' = [b \in Second |-> IF b = a THEN x ELSE attempt[b]]
    BY <1>0, <2>1 DEF LoginTypes
  <2>6. LoginTypes' /\ \A k \in Handlers : Resolved(request'[k])
    BY <1>0, <2>1, <2>3, <2>4, LoginIdle DEF LoginTypes
  <2>7. LoginSessions
    BY DEF LoginInv
  <2>8. \A t \in Duo : session[t].attempt # a
    BY <2>1, <2>2, <2>7 DEF LoginSessions
  <2>9. \A t \in Duo : session[t].attempt \in Second \cup {None}
    BY <1>0 DEF LoginTypes, UserSession
  <2>10. LoginSessions'
    BY <2>2, <2>3, <2>4, <2>5, <2>7, <2>8, <2>9 DEF LoginSessions
  <2> QED
    BY <2>6, <2>10 DEF LoginInv
<1>11. ASSUME NEW status \in Login!Status \cup {None}, Login!LoadProjectUser(h, status)
       PROVE  LoginInv'
  <2> DEFINE st == IF status = None THEN user ELSE status
             r == [Login!Idle EXCEPT !.pc = "updating", !.status = st]
  <2>1. st \in {"absent", "active", "disabled", None}
    BY <1>0 DEF Login!Status
  <2>2. Login!Go(h, r) /\ UNCHANGED <<user, attempt, ceremony, session>>
    BY <1>11 DEF Login!LoadProjectUser
  <2> HIDE DEF st
  <2>3. r \in LoginState(Second) /\ r.pc = "updating"
    BY <2>1 DEF Login!Idle, LoginState, Factor
  <2> HIDE DEF r
  <2> QED
    BY <1>1, <2>2, <2>3 DEF Resolved
<1>12. CASE Login!UpdateProjectUser(h)
  <2> DEFINE n == [request[h] EXCEPT !.pc = "revoking"]
             r == IF user' = "disabled" THEN n ELSE Login!Idle
  <2>1. n \in LoginState(Second) /\ n.pc = "revoking"
    BY <1>0 DEF LoginState
  <2>2. Login!Go(h, r) /\ UNCHANGED <<attempt, session>> /\ ceremony' = ceremony
        /\ user' = request[h].status
    BY <1>12 DEF Login!UpdateProjectUser
  <2>3. user' \in {"absent", "active", "disabled", None}
    BY <1>0, <2>2 DEF LoginState
  <2> HIDE DEF n
  <2>4. r \in LoginState(Second) /\ Resolved(r)
    BY <2>1, LoginIdle DEF Resolved
  <2> HIDE DEF r
  <2> QED
    BY <1>0, <2>2, <2>3, <2>4, LoginGoes
<1>13. CASE Login!RevokeOfDisabled(h)
  <2>1. /\ session' = Login!RevokeAll /\ request' = [request EXCEPT ![h] = Login!Idle]
        /\ user' = user /\ attempt' = attempt /\ ceremony' = ceremony
    BY <1>13 DEF Login!RevokeOfDisabled, Login!Go
  <2>2. /\ session' \in [Duo -> UserSession(Second)]
        /\ \A s \in Duo : session'[s].attempt = session[s].attempt
        /\ \A s \in Duo : session[s] = Login!NoSession => session'[s] = session[s]
    BY <1>0, <2>1, LoginRevokeAll
  <2>3. LoginTypes' /\ \A k \in Handlers : Resolved(request'[k])
    BY <1>0, <2>1, <2>2, LoginIdle DEF LoginTypes
  <2> QED
    BY <2>1, <2>2, <2>3, LoginKeeps
<1>14. CASE Login!Abandon(h)
  BY <1>1, <1>14, LoginIdle DEF Login!Abandon
<1> QED
  BY <1>2, <1>3, <1>4, <1>5, <1>6, <1>7, <1>8, <1>9, <1>10, <1>11, <1>12, <1>13, <1>14
     DEF Login!Handle

LEMMA LoginBegin ==
  ASSUME LoginInv, NEW c \in Couple, NEW mode \in LoginModes, Login!Begin(c, mode)
  PROVE  LoginInv'
<1>1. /\ UNCHANGED <<user, attempt, session, request>>
      /\ \E type \in {"authentication", "registration"}, a \in Second \cup {None} :
           ceremony' = [ceremony EXCEPT ![c] = Login!NewCeremony(type, a, mode)]
  BY DEF Login!Begin, Login!BeginFidoLogin, Login!BeginFirstFidoEnrollment, Login!BeginFidoEnrollment
<1>2. \A type \in {"authentication", "registration"}, a \in Second \cup {None} :
        Login!NewCeremony(type, a, mode) \in UserCeremony(Second)
  BY LoginConstants DEF Login!NewCeremony, UserCeremony, Factor
<1>3. ceremony' \in [Couple -> UserCeremony(Second)]
  BY <1>1, <1>2 DEF LoginInv, LoginTypes
<1>4. /\ user \in {"absent", "active", "disabled", None} /\ attempt \in [Second -> UserAttempt]
      /\ session \in [Duo -> UserSession(Second)]
  BY DEF LoginInv, LoginTypes
<1> QED
  BY <1>1, <1>3, <1>4, LoginWrites

LEMMA LoginNext ==
  ASSUME LoginInv, Login!Next
  PROVE  LoginInv'
<1>0. /\ LoginTypes
      /\ user \in {"absent", "active", "disabled", None} /\ attempt \in [Second -> UserAttempt]
      /\ ceremony \in [Couple -> UserCeremony(Second)] /\ session \in [Duo -> UserSession(Second)]
  BY DEF LoginInv, LoginTypes
<1>1. ASSUME NEW a \in Second, Login!StartProjectUserLogin(a) \/ Login!ExpireAttempt(a)
      PROVE  LoginInv'
  <2>1. \E st \in {"open", "unbound", "expired"} : attempt' = [attempt EXCEPT ![a].status = st]
    BY <1>1 DEF Login!StartProjectUserLogin, Login!ExpireAttempt
  <2>2. /\ attempt[a].status # "consumed" /\ UNCHANGED <<user, ceremony, session, request>>
    BY <1>1 DEF Login!StartProjectUserLogin, Login!ExpireAttempt, Login!NoAttempt, Login!Usable
  <2>3. \A st \in {"open", "unbound", "expired"} : [attempt[a] EXCEPT !.status = st] \in UserAttempt
    BY <1>0, AttemptMoves
  <2>4. /\ attempt' \in [Second -> UserAttempt]
        /\ \A b \in Second : attempt[b].status = "consumed" => attempt'[b].status = "consumed"
    BY <1>0, <2>1, <2>2, <2>3
  <2> QED
    BY <1>0, <2>2, <2>4, LoginWrites
<1>2. ASSUME NEW c \in Couple, Login!ExpireCeremony(c)
      PROVE  LoginInv'
  <2>1. ceremony' \in [Couple -> UserCeremony(Second)] /\ UNCHANGED <<user, attempt, session, request>>
    BY <1>0, <1>2, LoginConsumes DEF Login!ExpireCeremony
  <2> QED
    BY <1>0, <2>1, LoginWrites
<1>3. ASSUME NEW s \in Duo, Login!RuntimeRevoke(s)
      PROVE  LoginInv'
  <2>1. /\ session' = [t \in Duo |-> IF t \in {s} THEN [session[t] EXCEPT !.status = "revoked"]
                                                  ELSE session[t]]
        /\ \A t \in {s} : session[t].status = "live"
        /\ UNCHANGED <<user, attempt, ceremony, request>>
    BY <1>0, <1>3 DEF Login!RuntimeRevoke
  <2>2. /\ session' \in [Duo -> UserSession(Second)]
        /\ \A t \in Duo : session'[t].attempt = session[t].attempt
        /\ \A t \in Duo : session[t] = Login!NoSession => session'[t] = session[t]
    BY <1>0, <2>1, LoginRevokes
  <2> QED
    BY <1>0, <2>1, <2>2, LoginWrites
<1>4. CASE Login!RevokeProjectUserSessions \/ Login!ReplaceProjectUserPassword
  <2>1. session' = Login!RevokeAll /\ UNCHANGED <<user, attempt, ceremony, request>>
    BY <1>4 DEF Login!RevokeProjectUserSessions, Login!ReplaceProjectUserPassword
  <2>2. /\ session' \in [Duo -> UserSession(Second)]
        /\ \A t \in Duo : session'[t].attempt = session[t].attempt
        /\ \A t \in Duo : session[t] = Login!NoSession => session'[t] = session[t]
    BY <1>0, <2>1, LoginRevokeAll
  <2> QED
    BY <1>0, <2>1, <2>2, LoginWrites
<1>5. CASE \/ \E s \in Duo : Login!SetFace(s)
           \/ \E k \in First : Login!DeletePasskey(k)
           \/ \E status \in Login!Status : Login!SetProject(status)
           \/ Login!CreateProjectUser
  <2>1. user' \in {user, "active"} /\ UNCHANGED <<attempt, ceremony, session, request>>
    BY <1>5 DEF Login!SetFace, Login!DeletePasskey, Login!SetProject, Login!CreateProjectUser
  <2> QED
    BY <1>0, <2>1, LoginWrites
<1> QED
  BY <1>1, <1>2, <1>3, <1>4, <1>5, LoginHandle, LoginBegin DEF Login!Next

LEMMA LoginOneSession == LoginInv => Login!OneSessionPerAttempt
<1> SUFFICES ASSUME LoginInv, NEW s \in Duo, NEW t \in Duo,
                    session[s] # Login!NoSession, session[s].attempt = session[t].attempt
             PROVE  s = t
  BY DEF Login!OneSessionPerAttempt
<1> QED
  BY DEF LoginInv, LoginSessions

-----------------------------------------------------------------------------
(* Logins of a Project User, with every mode.                                *)

UserCredential == [status : {"unused", "present", "deleted"}, kind : Factor,
                   ceremony : Couple \cup {None}]

FactorsTypes ==
  /\ user \in {"absent", "active", "disabled", None}
  /\ attempt \in [Pair -> UserAttempt]
  /\ ceremony \in [Couple -> UserCeremony(Pair)]
  /\ credential \in [First -> UserCredential]
  /\ session \in [Duo -> UserSession(Pair)]
  /\ request \in [Second -> LoginState(Pair)]

\* What a request knows is true of attempts at and ceremonies ce: a password it
\* found verified is; its ceremony is one of its attempt; and it is on the way
\* to a session only with a security key or a verified password.
StateHolds(r, at, ce) ==
  /\ r.verified => r.attempt \in Pair /\ at[r.attempt].verified
  /\ r.pc \in {"resolved", "password_checked"} => r.attempt \in Pair /\ r.ceremony = None
  /\ r.ceremony # None =>
       /\ ce[r.ceremony].status # "unused"
       /\ r.attempt # None => ce[r.ceremony].attempt = r.attempt
  /\ r.pc \in {"asserting", "asserted", "completing"} =>
       r.attempt \in Pair /\ (r.mode = "security_key" \/ at[r.attempt].verified)
  /\ r.pc \in {"counting", "inserting"} =>
       /\ r.ceremony # None /\ ce[r.ceremony].type = "registration"
       /\ r.attempt # None => at[r.attempt].verified

SessionBacked(x, at, ce) ==
  /\ x # Factors!NoSession =>
       x.attempt \in Pair /\ (x.by = "security_key" \/ at[x.attempt].verified)
  /\ x.ceremony # None =>
       ce[x.ceremony].status # "unused" /\ ce[x.ceremony].attempt = x.attempt

CredentialBacked(x, ce) ==
  x # Factors!NoCredential =>
    /\ x.ceremony \in Couple
    /\ ce[x.ceremony].status # "unused" /\ ce[x.ceremony].type = "registration"

CeremonyBacked(x, at) ==
  x.type = "registration" /\ x.attempt # None => at[x.attempt].verified

FactorsInv ==
  /\ FactorsTypes
  /\ \A h \in Second : StateHolds(request[h], attempt, ceremony)
  /\ \A s \in Duo : SessionBacked(session[s], attempt, ceremony)
  /\ \A k \in First : CredentialBacked(credential[k], ceremony)
  /\ \A c \in Couple : CeremonyBacked(ceremony[c], attempt)

\* Attempts stay verified, and a ceremony stays what it was begun for.
Grows(at, ce, at2, ce2) ==
  /\ \A a \in Pair : at[a].verified => at2[a].verified
  /\ \A c \in Couple : ce[c].status # "unused" =>
       ce2[c].status # "unused" /\ ce2[c].type = ce[c].type /\ ce2[c].attempt = ce[c].attempt

LEMMA StateGrows ==
  ASSUME NEW at, NEW ce, NEW at2, NEW ce2, Grows(at, ce, at2, ce2),
         NEW r \in LoginState(Pair), StateHolds(r, at, ce)
  PROVE  StateHolds(r, at2, ce2)
<1>1. r.ceremony \in Couple \cup {None} /\ r.attempt \in Pair \cup {None}
  BY DEF LoginState
<1> QED
  BY <1>1 DEF StateHolds, Grows

LEMMA SessionGrows ==
  ASSUME NEW at, NEW ce, NEW at2, NEW ce2, Grows(at, ce, at2, ce2),
         NEW x \in UserSession(Pair), SessionBacked(x, at, ce)
  PROVE  SessionBacked(x, at2, ce2)
<1>1. x.ceremony \in Couple \cup {None}
  BY DEF UserSession
<1> QED
  BY <1>1 DEF SessionBacked, Grows

\* The invariant is kept when attempts and ceremonies grow and whatever row or
\* request is new is as the invariant says.
LEMMA FactorsKeeps ==
  ASSUME FactorsInv, FactorsTypes', Grows(attempt, ceremony, attempt', ceremony'),
         \A h \in Second : request'[h] = request[h] \/ StateHolds(request'[h], attempt', ceremony'),
         \A s \in Duo : session'[s] = session[s] \/ SessionBacked(session'[s], attempt', ceremony'),
         \A k \in First : credential'[k] = credential[k] \/ CredentialBacked(credential'[k], ceremony'),
         \A c \in Couple : ceremony'[c] = ceremony[c] \/ CeremonyBacked(ceremony'[c], attempt')
  PROVE  FactorsInv'
<1>0. FactorsTypes
  BY DEF FactorsInv
<1>1. ASSUME NEW h \in Second PROVE StateHolds(request'[h], attempt', ceremony')
  <2>1. request[h] \in LoginState(Pair) /\ StateHolds(request[h], attempt, ceremony)
    BY <1>0 DEF FactorsInv, FactorsTypes
  <2>2. StateHolds(request[h], attempt', ceremony')
    BY <2>1, StateGrows
  <2> QED
    BY <2>2
<1>2. ASSUME NEW s \in Duo PROVE SessionBacked(session'[s], attempt', ceremony')
  <2>1. session[s] \in UserSession(Pair) /\ SessionBacked(session[s], attempt, ceremony)
    BY <1>0 DEF FactorsInv, FactorsTypes
  <2>2. SessionBacked(session[s], attempt', ceremony')
    BY <2>1, SessionGrows
  <2> QED
    BY <2>2
<1>3. ASSUME NEW k \in First PROVE CredentialBacked(credential'[k], ceremony')
  BY DEF FactorsInv, CredentialBacked, Grows
<1>4. ASSUME NEW c \in Couple PROVE CeremonyBacked(ceremony'[c], attempt')
  <2>1. ceremony[c].attempt \in Pair \cup {None} /\ CeremonyBacked(ceremony[c], attempt)
    BY <1>0 DEF FactorsInv, FactorsTypes, UserCeremony
  <2> QED
    BY <2>1 DEF CeremonyBacked, Grows
<1> QED
  BY <1>1, <1>2, <1>3, <1>4 DEF FactorsInv

LEMMA FactorsIdle ==
  /\ Factors!Idle \in LoginState(Pair)
  /\ Factors!Idle.pc = "idle" /\ Factors!Idle.attempt = None /\ Factors!Idle.verified = FALSE
  /\ Factors!Idle.ceremony = None
  /\ \A at, ce : StateHolds(Factors!Idle, at, ce)
BY DEF Factors!Idle, LoginState, Factor, StateHolds

LEMMA FactorsInit == Factors!Init => FactorsInv
<1> SUFFICES ASSUME Factors!Init PROVE FactorsInv
  OBVIOUS
<1>1. Factors!NoAttempt \in UserAttempt
  BY DEF Factors!NoAttempt, UserAttempt
<1>2. Factors!NoCeremony \in UserCeremony(Pair) /\ Factors!NoCeremony.attempt = None
  BY DEF Factors!NoCeremony, UserCeremony, Factor
<1>3. Factors!NoSession \in UserSession(Pair) /\ Factors!NoSession.ceremony = None
  BY DEF Factors!NoSession, UserSession, Factor
<1>4. Factors!NoCredential \in UserCredential
  BY DEF Factors!NoCredential, UserCredential, Factor
<1>5. FactorsTypes
  BY <1>1, <1>2, <1>3, <1>4, FactorsIdle DEF Factors!Init, FactorsTypes
<1>6. \A h \in Second : StateHolds(request[h], attempt, ceremony)
  BY FactorsIdle DEF Factors!Init
<1>7. \A s \in Duo : SessionBacked(session[s], attempt, ceremony)
  BY <1>3 DEF Factors!Init, SessionBacked
<1>8. \A k \in First : CredentialBacked(credential[k], ceremony)
  BY DEF Factors!Init, CredentialBacked
<1>9. \A c \in Couple : CeremonyBacked(ceremony[c], attempt)
  BY <1>2 DEF Factors!Init, CeremonyBacked
<1> QED
  BY <1>5, <1>6, <1>7, <1>8, <1>9 DEF FactorsInv

LEMMA FactorsSame == Grows(attempt, ceremony, attempt, ceremony)
BY DEF Grows

\* A request goes on to state r; rows stay as they are.
LEMMA FactorsGoes ==
  ASSUME FactorsInv, NEW h \in Second, NEW r \in LoginState(Pair), Factors!Go(h, r),
         StateHolds(r, attempt, ceremony), UNCHANGED <<attempt, ceremony, credential, session>>,
         user' \in {"absent", "active", "disabled", None}
  PROVE  FactorsInv'
<1>0. FactorsTypes
  BY DEF FactorsInv
<1>1. request' = [k \in Second |-> IF k = h THEN r ELSE request[k]]
  BY <1>0 DEF Factors!Go, FactorsTypes
<1>2. FactorsTypes'
  BY <1>0, <1>1 DEF FactorsTypes
<1>3. Grows(attempt, ceremony, attempt', ceremony')
  BY FactorsSame
<1>4. \A k \in Second : request'[k] = request[k] \/ StateHolds(request'[k], attempt', ceremony')
  BY <1>1
<1> QED
  BY <1>2, <1>3, <1>4, FactorsKeeps

\* A ceremony is consumed or expires, and a request may go on with it.
LEMMA FactorsConsumes ==
  ASSUME FactorsInv, NEW c \in Couple, NEW status \in {"consumed", "expired"},
         ceremony[c].status = "open",
         ceremony' = [ceremony EXCEPT ![c].status = status],
         UNCHANGED <<user, attempt, credential, session>>
  PROVE  /\ Grows(attempt, ceremony, attempt', ceremony')
         /\ ceremony' \in [Couple -> UserCeremony(Pair)]
         /\ ceremony'[c].status = status
         /\ ceremony'[c].type = ceremony[c].type /\ ceremony'[c].attempt = ceremony[c].attempt
         /\ \A h \in Second, r \in LoginState(Pair) :
              Factors!Go(h, r) /\ StateHolds(r, attempt', ceremony') => FactorsInv'
         /\ request' = request => FactorsInv'
<1>0. FactorsTypes /\ ceremony[c] \in UserCeremony(Pair)
  BY DEF FactorsInv, FactorsTypes
<1> DEFINE x == [ceremony[c] EXCEPT !.status = status]
<1>1. /\ x \in UserCeremony(Pair)
      /\ x.status = status /\ x.type = ceremony[c].type /\ x.attempt = ceremony[c].attempt
  BY <1>0 DEF UserCeremony
<1> HIDE DEF x
<1>2. ceremony' = [d \in Couple |-> IF d = c THEN x ELSE ceremony[d]]
  BY <1>0 DEF FactorsTypes, x
<1>3. Grows(attempt, ceremony, attempt', ceremony')
  BY <1>1, <1>2 DEF Grows
<1>4. ceremony' \in [Couple -> UserCeremony(Pair)]
  BY <1>0, <1>1, <1>2 DEF FactorsTypes
<1>5. \A d \in Couple : ceremony'[d] = ceremony[d] \/ CeremonyBacked(ceremony'[d], attempt')
  BY <1>1, <1>2 DEF FactorsInv, CeremonyBacked
<1>6. ASSUME NEW h \in Second, NEW r \in LoginState(Pair), Factors!Go(h, r),
             StateHolds(r, attempt', ceremony')
      PROVE  FactorsInv'
  <2>1. request' = [k \in Second |-> IF k = h THEN r ELSE request[k]]
    BY <1>0, <1>6 DEF Factors!Go, FactorsTypes
  <2>2. FactorsTypes'
    BY <1>0, <1>4, <1>6, <2>1 DEF FactorsTypes
  <2>3. \A k \in Second : request'[k] = request[k] \/ StateHolds(request'[k], attempt', ceremony')
    BY <1>6, <2>1
  <2> QED
    BY <1>3, <1>5, <2>2, <2>3, FactorsKeeps
<1>7. ASSUME request' = request PROVE FactorsInv'
  <2>1. FactorsTypes'
    BY <1>0, <1>4, <1>7 DEF FactorsTypes
  <2> QED
    BY <1>3, <1>5, <1>7, <2>1, FactorsKeeps
<1> QED
  BY <1>1, <1>2, <1>3, <1>4, <1>6, <1>7

\* Sessions are revoked, and a request may end.
LEMMA FactorsRevokes ==
  ASSUME FactorsInv, NEW S,
         session' = [s \in Duo |-> IF s \in S THEN [session[s] EXCEPT !.status = "revoked"]
                                             ELSE session[s]],
         \A s \in S : session[s].status = "live",
         request' = request \/ \E h \in Second : Factors!Go(h, Factors!Idle),
         UNCHANGED <<user, attempt, ceremony, credential>>
  PROVE  FactorsInv'
<1>0. FactorsTypes
  BY DEF FactorsInv
<1>1. ASSUME NEW s \in Duo
      PROVE  LET n == [session[s] EXCEPT !.status = "revoked"] IN
             /\ n \in UserSession(Pair) /\ session[s] \in UserSession(Pair)
             /\ n.attempt = session[s].attempt /\ n.ceremony = session[s].ceremony
             /\ n.by = session[s].by
  <2>1. session[s] \in UserSession(Pair)
    BY <1>0 DEF FactorsTypes
  <2> QED
    BY <2>1, SessionRevoked
<1>2. session' \in [Duo -> UserSession(Pair)]
  BY <1>1
<1>3. request' \in [Second -> LoginState(Pair)]
      /\ \A k \in Second : request'[k] = request[k] \/ request'[k] = Factors!Idle
  BY <1>0, FactorsIdle DEF FactorsTypes, Factors!Go
<1>4. FactorsTypes'
  BY <1>0, <1>2, <1>3 DEF FactorsTypes
<1>5. ASSUME NEW s \in Duo, s \in S
      PROVE  SessionBacked(session'[s], attempt', ceremony')
  <2>1. session[s] # Factors!NoSession
    BY <1>5 DEF Factors!NoSession
  <2>2. SessionBacked(session[s], attempt, ceremony)
    BY DEF FactorsInv
  <2>3. /\ session'[s].attempt = session[s].attempt /\ session'[s].ceremony = session[s].ceremony
        /\ session'[s].by = session[s].by
    BY <1>1, <1>5
  <2> QED
    BY <2>1, <2>2, <2>3 DEF SessionBacked
<1>6. \A s \in Duo : session'[s] = session[s] \/ SessionBacked(session'[s], attempt', ceremony')
  BY <1>5
<1>7. \A k \in Second : request'[k] = request[k] \/ StateHolds(request'[k], attempt', ceremony')
  BY <1>3, FactorsIdle
<1>8. Grows(attempt, ceremony, attempt', ceremony')
  BY FactorsSame
<1> QED
  BY <1>4, <1>6, <1>7, <1>8, FactorsKeeps

LEMMA FactorsRevokeAll ==
  ASSUME FactorsInv, session' = Factors!RevokeAll,
         request' = request \/ \E h \in Second : Factors!Go(h, Factors!Idle),
         UNCHANGED <<user, attempt, ceremony, credential>>
  PROVE  FactorsInv'
<1> DEFINE S == {s \in Duo : session[s].status = "live"}
<1>1. session' = [s \in Duo |-> IF s \in S THEN [session[s] EXCEPT !.status = "revoked"]
                                            ELSE session[s]]
  BY DEF Factors!RevokeAll
<1>2. \A s \in S : session[s].status = "live"
  OBVIOUS
<1> HIDE DEF S
<1> QED
  BY <1>1, <1>2, FactorsRevokes

\* The ends of ceremonies: a login, a first enrolment, a further enrolment.
LEMMA FactorsFinish ==
  ASSUME FactorsInv, NEW h \in Second, NEW c \in Couple,
         \/ Factors!FinishFidoLogin(h, c) \/ Factors!FinishFirstFidoEnrollment(h, c)
         \/ \E s \in Duo : Factors!FinishFidoEnrollment(h, s, c)
  PROVE  FactorsInv'
<1>0. /\ FactorsTypes /\ request[h] \in LoginState(Pair)
      /\ StateHolds(request[h], attempt, ceremony) /\ ceremony[c].mode \in Factor
  BY DEF FactorsInv, FactorsTypes, UserCeremony
<1>1. /\ ceremony[c].status = "open"
      /\ ceremony' = [ceremony EXCEPT ![c].status = "consumed"]
      /\ UNCHANGED <<user, attempt, credential, session>>
  BY DEF Factors!FinishFidoLogin, Factors!FinishFirstFidoEnrollment, Factors!FinishFidoEnrollment,
         Factors!ConsumeFidoCeremony, Factors!Consumable
<1>2. /\ ceremony'[c].status = "consumed"
      /\ ceremony'[c].type = ceremony[c].type /\ ceremony'[c].attempt = ceremony[c].attempt
      /\ \A r \in LoginState(Pair) :
           Factors!Go(h, r) /\ StateHolds(r, attempt', ceremony') => FactorsInv'
  BY <1>1, FactorsConsumes
<1>3. c # None
  BY LoginConstants
<1>4. ASSUME Factors!Go(h, Factors!Idle) PROVE FactorsInv'
  BY <1>2, <1>4, FactorsIdle
<1>5. CASE Factors!FinishFidoLogin(h, c)
  <2> DEFINE r == [request[h] EXCEPT !.pc = "asserting", !.ceremony = c, !.mode = ceremony[c].mode]
  <2>1. /\ r \in LoginState(Pair)
        /\ r.pc = "asserting" /\ r.attempt = request[h].attempt /\ r.verified = request[h].verified
        /\ r.ceremony = c /\ r.mode = ceremony[c].mode
    BY <1>0 DEF LoginState
  <2>2. /\ request[h].pc = "resolved"
        /\ \/ Factors!Go(h, Factors!Idle)
           \/ /\ ceremony[c].attempt = request[h].attempt
              /\ request[h].verified \/ ceremony[c].mode = "security_key"
              /\ Factors!Go(h, r)
    BY <1>5 DEF Factors!FinishFidoLogin, Factors!At, Factors!CeremonyMatches, Factors!PasswordFirst
  <2> HIDE DEF r
  <2>3. CASE /\ ceremony[c].attempt = request[h].attempt
             /\ request[h].verified \/ ceremony[c].mode = "security_key"
             /\ Factors!Go(h, r)
    <3>1. StateHolds(r, attempt', ceremony')
      BY <1>0, <1>1, <1>2, <2>1, <2>2, <2>3 DEF StateHolds
    <3> QED
      BY <1>2, <2>1, <2>3, <3>1
  <2> QED
    BY <1>4, <2>2, <2>3
<1>6. CASE Factors!FinishFirstFidoEnrollment(h, c)
  <2> DEFINE r == [request[h] EXCEPT !.pc = "counting", !.ceremony = c, !.mode = ceremony[c].mode]
  <2>1. /\ r \in LoginState(Pair)
        /\ r.pc = "counting" /\ r.attempt = request[h].attempt /\ r.verified = request[h].verified
        /\ r.ceremony = c /\ r.mode = ceremony[c].mode
    BY <1>0 DEF LoginState
  <2>2. /\ request[h].pc = "resolved" /\ request[h].verified /\ ceremony[c].type = "registration"
        /\ \/ Factors!Go(h, Factors!Idle)
           \/ ceremony[c].attempt = request[h].attempt /\ Factors!Go(h, r)
    BY <1>6 DEF Factors!FinishFirstFidoEnrollment, Factors!At, Factors!CeremonyMatches,
                Factors!ConsumeFidoCeremony, Factors!Consumable
  <2> HIDE DEF r
  <2>3. CASE ceremony[c].attempt = request[h].attempt /\ Factors!Go(h, r)
    <3>1. StateHolds(r, attempt', ceremony')
      BY <1>0, <1>1, <1>2, <1>3, <2>1, <2>2, <2>3 DEF StateHolds
    <3> QED
      BY <1>2, <2>1, <2>3, <3>1
  <2> QED
    BY <1>4, <2>2, <2>3
<1>7. CASE \E s \in Duo : Factors!FinishFidoEnrollment(h, s, c)
  <2> DEFINE r == [Factors!Idle EXCEPT !.pc = "inserting", !.ceremony = c, !.mode = ceremony[c].mode]
  <2>1. /\ r \in LoginState(Pair)
        /\ r.pc = "inserting" /\ r.attempt = None /\ r.verified = FALSE /\ r.ceremony = c
    BY <1>0, FactorsIdle DEF LoginState
  <2>2. ceremony[c].type = "registration" /\ Factors!Go(h, r)
    BY <1>7 DEF Factors!FinishFidoEnrollment, Factors!ConsumeFidoCeremony, Factors!Consumable
  <2> HIDE DEF r
  <2>3. StateHolds(r, attempt', ceremony')
    BY <1>2, <1>3, <2>1, <2>2 DEF StateHolds
  <2> QED
    BY <1>2, <2>1, <2>2, <2>3
<1> QED
  BY <1>5, <1>6, <1>7

LEMMA FactorsComplete ==
  ASSUME FactorsInv, NEW h \in Second, NEW s \in Duo, Factors!CompleteLogin(h, s)
  PROVE  FactorsInv'
<1>0. /\ FactorsTypes /\ request[h] \in LoginState(Pair)
      /\ StateHolds(request[h], attempt, ceremony)
  BY DEF FactorsInv, FactorsTypes
<1> DEFINE a == request[h].attempt
           n == Factors!NewSession(h)
           x == [attempt[a] EXCEPT !.status = "consumed"]
<1>1. /\ request[h].pc = "completing"
      /\ attempt' = [attempt EXCEPT ![a] = x] /\ session' = [session EXCEPT ![s] = n]
      /\ request' = [request EXCEPT ![h] = Factors!Idle]
      /\ user' = user /\ ceremony' = ceremony /\ credential' = credential
  BY DEF Factors!CompleteLogin, Factors!At, Factors!Go
<1>2. /\ a \in Pair /\ a # None /\ (request[h].mode = "security_key" \/ attempt[a].verified)
      /\ request[h].ceremony # None =>
           ceremony[request[h].ceremony].status # "unused" /\ ceremony[request[h].ceremony].attempt = a
  BY <1>0, <1>1, LoginConstants DEF StateHolds
<1>3. /\ n \in UserSession(Pair) /\ n.attempt = a
      /\ n.ceremony = request[h].ceremony /\ n.by = request[h].mode
  BY <1>0 DEF Factors!NewSession, LoginState, UserSession
<1>4. x \in UserAttempt /\ x.verified = attempt[a].verified
  BY <1>0, <1>2, AttemptMoves DEF FactorsTypes
<1> HIDE DEF a, n, x
<1>5. /\ session' = [t \in Duo |-> IF t = s THEN n ELSE session[t]]
      /\ attempt' = [b \in Pair |-> IF b = a THEN x ELSE attempt[b]]
      /\ request' = [k \in Second |-> IF k = h THEN Factors!Idle ELSE request[k]]
  BY <1>0, <1>1 DEF FactorsTypes
<1>6. FactorsTypes'
  BY <1>0, <1>1, <1>3, <1>4, <1>5, FactorsIdle DEF FactorsTypes
<1>7. Grows(attempt, ceremony, attempt', ceremony')
  BY <1>1, <1>4, <1>5 DEF Grows
<1>8. SessionBacked(n, attempt', ceremony')
  BY <1>1, <1>2, <1>3, <1>4, <1>5 DEF SessionBacked
<1>9. \A k \in Second : request'[k] = request[k] \/ StateHolds(request'[k], attempt', ceremony')
  BY <1>5, FactorsIdle
<1> QED
  BY <1>1, <1>5, <1>6, <1>7, <1>8, <1>9, FactorsKeeps

LEMMA FactorsInsert ==
  ASSUME FactorsInv, NEW h \in Second, NEW k \in First, Factors!InsertCredential(h, k)
  PROVE  FactorsInv'
<1>0. /\ FactorsTypes /\ request[h] \in LoginState(Pair)
      /\ StateHolds(request[h], attempt, ceremony)
  BY DEF FactorsInv, FactorsTypes
<1> DEFINE n == [request[h] EXCEPT !.pc = "completing"]
           r == IF request[h].attempt = None THEN Factors!Idle ELSE n
           x == [status |-> "present", kind |-> request[h].mode, ceremony |-> request[h].ceremony]
<1>1. /\ request[h].pc = "inserting" /\ credential' = [credential EXCEPT ![k] = x]
      /\ request' = [request EXCEPT ![h] = r]
      /\ user' = user /\ attempt' = attempt /\ ceremony' = ceremony /\ session' = session
  BY DEF Factors!InsertCredential, Factors!At, Factors!Go
<1>2. /\ n \in LoginState(Pair) /\ n.pc = "completing" /\ n.attempt = request[h].attempt
      /\ n.verified = request[h].verified /\ n.ceremony = request[h].ceremony
  BY <1>0 DEF LoginState
<1>3. x \in UserCredential /\ x.ceremony = request[h].ceremony
  BY <1>0 DEF LoginState, UserCredential
<1>4. request[h].attempt \in Pair \cup {None} /\ request[h].ceremony \in Couple \cup {None}
  BY <1>0 DEF LoginState
<1> HIDE DEF n, x
<1>5. StateHolds(r, attempt, ceremony) /\ r \in LoginState(Pair)
  <2>1. CASE request[h].attempt = None
    BY <2>1, FactorsIdle
  <2>2. CASE request[h].attempt # None
    BY <1>0, <1>1, <1>2, <1>4, <2>2 DEF StateHolds
  <2> QED
    BY <2>1, <2>2
<1> HIDE DEF r
<1>6. CredentialBacked(x, ceremony)
  BY <1>0, <1>1, <1>3, <1>4 DEF StateHolds, CredentialBacked
<1>7. /\ credential' = [y \in First |-> IF y = k THEN x ELSE credential[y]]
      /\ request' = [g \in Second |-> IF g = h THEN r ELSE request[g]]
  BY <1>0, <1>1 DEF FactorsTypes
<1>8. FactorsTypes'
  BY <1>0, <1>1, <1>3, <1>5, <1>7 DEF FactorsTypes
<1>9. Grows(attempt, ceremony, attempt', ceremony')
  BY <1>1, FactorsSame
<1> QED
  BY <1>1, <1>5, <1>6, <1>7, <1>8, <1>9, FactorsKeeps

\* Attempt a is written, stays verified if it was, and a request may end.
LEMMA FactorsAttempt ==
  ASSUME FactorsInv, NEW a \in Pair, NEW x \in UserAttempt, attempt[a].verified => x.verified,
         attempt' = [attempt EXCEPT ![a] = x],
         request' = request \/ \E h \in Second : Factors!Go(h, Factors!Idle),
         UNCHANGED <<user, ceremony, credential, session>>
  PROVE  FactorsInv'
<1>0. FactorsTypes
  BY DEF FactorsInv
<1>1. attempt' = [b \in Pair |-> IF b = a THEN x ELSE attempt[b]]
  BY <1>0 DEF FactorsTypes
<1>2. request' \in [Second -> LoginState(Pair)]
      /\ \A k \in Second : request'[k] = request[k] \/ request'[k] = Factors!Idle
  BY <1>0, FactorsIdle DEF FactorsTypes, Factors!Go
<1>3. FactorsTypes'
  BY <1>0, <1>1, <1>2 DEF FactorsTypes
<1>4. Grows(attempt, ceremony, attempt', ceremony')
  BY <1>1 DEF Grows
<1>5. \A k \in Second : request'[k] = request[k] \/ StateHolds(request'[k], attempt', ceremony')
  BY <1>2, FactorsIdle
<1> QED
  BY <1>3, <1>4, <1>5, FactorsKeeps

LEMMA FactorsHandle ==
  ASSUME FactorsInv, NEW h \in Second, Factors!Handle(h)
  PROVE  FactorsInv'
<1>0. /\ FactorsTypes /\ request[h] \in LoginState(Pair)
      /\ StateHolds(request[h], attempt, ceremony)
      /\ user \in {"absent", "active", "disabled", None}
  BY DEF FactorsInv, FactorsTypes
<1>1. ASSUME NEW r \in LoginState(Pair), StateHolds(r, attempt, ceremony), Factors!Go(h, r),
             UNCHANGED <<user, attempt, ceremony, credential, session>>
      PROVE  FactorsInv'
  BY <1>0, <1>1, FactorsGoes
<1>2. ASSUME NEW a \in Pair, Factors!ResolveLoginAttempt(h, a)
      PROVE  FactorsInv'
  <2> DEFINE r == [Factors!Idle EXCEPT !.pc = "resolved", !.attempt = a, !.verified = attempt[a].verified]
  <2>1. /\ r \in LoginState(Pair) /\ r.attempt = a /\ r.pc = "resolved"
        /\ r.verified = attempt[a].verified /\ r.ceremony = None
    BY <1>0 DEF FactorsTypes, UserAttempt, LoginState, Factors!Idle, Factor
  <2>2. Factors!Go(h, r) /\ UNCHANGED <<user, attempt, ceremony, credential, session>>
    BY <1>2 DEF Factors!ResolveLoginAttempt
  <2> HIDE DEF r
  <2>3. StateHolds(r, attempt, ceremony)
    BY <2>1 DEF StateHolds
  <2> QED
    BY <1>1, <2>1, <2>2, <2>3
<1>3. CASE Factors!CheckPassword(h)
  <2> DEFINE r == [request[h] EXCEPT !.pc = "password_checked"]
  <2>1. /\ request[h].pc = "resolved" /\ Factors!Go(h, r)
        /\ UNCHANGED <<user, attempt, ceremony, credential, session>>
    BY <1>3 DEF Factors!CheckPassword, Factors!At
  <2>2. /\ r \in LoginState(Pair) /\ r.attempt = request[h].attempt /\ r.pc = "password_checked"
        /\ r.verified = request[h].verified /\ r.ceremony = request[h].ceremony
    BY <1>0 DEF LoginState
  <2> HIDE DEF r
  <2>3. StateHolds(r, attempt, ceremony)
    BY <1>0, <2>1, <2>2 DEF StateHolds
  <2> QED
    BY <1>1, <2>1, <2>2, <2>3
<1>4. CASE Factors!VerifyProjectUserLoginPassword(h)
  <2> DEFINE a == request[h].attempt
             v == [attempt[a] EXCEPT !.verified = TRUE]
  <2>1. /\ request[h].pc = "password_checked" /\ Factors!Go(h, Factors!Idle)
        /\ attempt' = attempt \/ attempt' = [attempt EXCEPT ![a] = v]
        /\ UNCHANGED <<user, ceremony, credential, session>>
    BY <1>4 DEF Factors!VerifyProjectUserLoginPassword, Factors!At
  <2>2. a \in Pair
    BY <1>0, <2>1 DEF StateHolds
  <2>3. v \in UserAttempt /\ v.verified = TRUE
    BY <1>0, <2>2, AttemptVerified DEF FactorsTypes
  <2> HIDE DEF a, v
  <2>4. CASE attempt' = attempt
    BY <1>0, <1>1, <2>1, <2>4, FactorsIdle
  <2>5. CASE attempt' = [attempt EXCEPT ![a] = v]
    BY <2>1, <2>2, <2>3, <2>5, FactorsAttempt
  <2> QED
    BY <2>1, <2>4, <2>5
<1>5. ASSUME NEW k \in First, Factors!LoadAssertion(h, k)
      PROVE  FactorsInv'
  <2> DEFINE r == [request[h] EXCEPT !.pc = "asserted", !.credential = k]
  <2>1. /\ request[h].pc = "asserting" /\ Factors!Go(h, r)
        /\ UNCHANGED <<user, attempt, ceremony, credential, session>>
    BY <1>5 DEF Factors!LoadAssertion, Factors!At
  <2>2. /\ r \in LoginState(Pair) /\ r.attempt = request[h].attempt /\ r.pc = "asserted"
        /\ r.verified = request[h].verified /\ r.ceremony = request[h].ceremony
        /\ r.mode = request[h].mode
    BY <1>0 DEF LoginState
  <2> HIDE DEF r
  <2>3. StateHolds(r, attempt, ceremony)
    BY <1>0, <2>1, <2>2 DEF StateHolds
  <2> QED
    BY <1>1, <2>1, <2>2, <2>3
<1>6. ASSUME NEW pc \in {"completing", "inserting"},
             \/ request[h].pc = "asserted" /\ pc = "completing"
             \/ request[h].pc = "counting" /\ pc = "inserting",
             Factors!Go(h, [request[h] EXCEPT !.pc = pc]),
             UNCHANGED <<user, attempt, ceremony, credential, session>>
      PROVE  FactorsInv'
  <2> DEFINE r == [request[h] EXCEPT !.pc = pc]
  <2>1. /\ r \in LoginState(Pair) /\ r.attempt = request[h].attempt /\ r.pc = pc
        /\ r.verified = request[h].verified /\ r.ceremony = request[h].ceremony
        /\ r.mode = request[h].mode
    BY <1>0 DEF LoginState
  <2>2. Factors!Go(h, r)
    BY <1>6
  <2> HIDE DEF r
  <2>3. StateHolds(r, attempt, ceremony)
    BY <1>0, <1>6, <2>1 DEF StateHolds
  <2> QED
    BY <1>1, <1>6, <2>1, <2>2, <2>3
<1>7. CASE Factors!UpdateCredential(h) \/ Factors!CountCredentials(h)
  BY <1>6, <1>7 DEF Factors!UpdateCredential, Factors!CountCredentials, Factors!At
<1>8. CASE Factors!VerifyBiometricLogin(h)
  <2> DEFINE r == [request[h] EXCEPT !.pc = "completing", !.mode = "face"]
  <2>1. /\ request[h].pc = "resolved" /\ request[h].verified /\ Factors!Go(h, r)
        /\ UNCHANGED <<user, attempt, ceremony, credential, session>>
    BY <1>8 DEF Factors!VerifyBiometricLogin, Factors!At
  <2>2. /\ r \in LoginState(Pair) /\ r.attempt = request[h].attempt /\ r.pc = "completing"
        /\ r.verified = request[h].verified /\ r.ceremony = request[h].ceremony
    BY <1>0 DEF LoginState, Factor
  <2> HIDE DEF r
  <2>3. StateHolds(r, attempt, ceremony)
    BY <1>0, <2>1, <2>2 DEF StateHolds
  <2> QED
    BY <1>1, <2>1, <2>2, <2>3
<1>9. ASSUME NEW status \in Factors!Status \cup {None}, Factors!LoadProjectUser(h, status)
      PROVE  FactorsInv'
  <2> DEFINE st == IF status = None THEN user ELSE status
             r == [Factors!Idle EXCEPT !.pc = "updating", !.status = st]
  <2>1. st \in {"absent", "active", "disabled", None}
    BY <1>0 DEF Factors!Status
  <2>2. Factors!Go(h, r) /\ UNCHANGED <<user, attempt, ceremony, credential, session>>
    BY <1>9 DEF Factors!LoadProjectUser
  <2> HIDE DEF st
  <2>3. r \in LoginState(Pair) /\ r.pc = "updating" /\ r.verified = FALSE /\ r.ceremony = None
    BY <2>1 DEF Factors!Idle, LoginState, Factor
  <2> HIDE DEF r
  <2>4. StateHolds(r, attempt, ceremony)
    BY <2>3 DEF StateHolds
  <2> QED
    BY <1>1, <2>2, <2>3, <2>4
<1>10. CASE Factors!UpdateProjectUser(h)
  <2> DEFINE n == [request[h] EXCEPT !.pc = "revoking"]
             r == IF user' = "disabled" THEN n ELSE Factors!Idle
  <2>1. /\ n \in LoginState(Pair) /\ n.pc = "revoking" /\ n.attempt = request[h].attempt
        /\ n.verified = request[h].verified /\ n.ceremony = request[h].ceremony
    BY <1>0 DEF LoginState
  <2>2. /\ Factors!Go(h, r) /\ UNCHANGED <<attempt, ceremony, credential, session>>
        /\ user' = request[h].status
    BY <1>10 DEF Factors!UpdateProjectUser
  <2>3. user' \in {"absent", "active", "disabled", None}
    BY <1>0, <2>2 DEF LoginState
  <2> HIDE DEF n
  <2>4. StateHolds(n, attempt, ceremony)
    BY <1>0, <2>1 DEF StateHolds
  <2>5. r \in LoginState(Pair) /\ StateHolds(r, attempt, ceremony)
    BY <2>1, <2>4, FactorsIdle
  <2> HIDE DEF r
  <2> QED
    BY <2>2, <2>3, <2>5, FactorsGoes
<1>11. CASE Factors!RevokeOfDisabled(h)
  BY <1>11, FactorsRevokeAll DEF Factors!RevokeOfDisabled
<1>12. CASE Factors!Abandon(h)
  BY <1>1, <1>12, FactorsIdle DEF Factors!Abandon
<1> QED
  BY <1>2, <1>3, <1>4, <1>5, <1>7, <1>8, <1>9, <1>10, <1>11, <1>12,
     FactorsFinish, FactorsComplete, FactorsInsert DEF Factors!Handle

LEMMA FactorsBegin ==
  ASSUME FactorsInv, NEW c \in Couple, NEW mode \in {"passkey", "security_key", "hybrid"},
         Factors!Begin(c, mode)
  PROVE  FactorsInv'
<1>0. FactorsTypes
  BY DEF FactorsInv
<1>1. /\ UNCHANGED <<user, attempt, credential, session, request>>
      /\ ceremony[c] = Factors!NoCeremony
      /\ \E type \in {"authentication", "registration"}, a \in Pair \cup {None} :
           /\ ceremony' = [ceremony EXCEPT ![c] = Factors!NewCeremony(type, a, mode)]
           /\ type = "registration" /\ a # None => attempt[a].verified
  BY DEF Factors!Begin, Factors!BeginFidoLogin, Factors!BeginFirstFidoEnrollment,
         Factors!BeginFidoEnrollment
<1>2. PICK type \in {"authentication", "registration"}, a \in Pair \cup {None} :
        /\ ceremony' = [ceremony EXCEPT ![c] = Factors!NewCeremony(type, a, mode)]
        /\ type = "registration" /\ a # None => attempt[a].verified
  BY <1>1
<1> DEFINE x == Factors!NewCeremony(type, a, mode)
<1>3. x \in UserCeremony(Pair) /\ x.type = type /\ x.attempt = a
  BY DEF Factors!NewCeremony, UserCeremony, Factor
<1> HIDE DEF x
<1>4. ceremony' = [d \in Couple |-> IF d = c THEN x ELSE ceremony[d]]
  BY <1>0, <1>2 DEF FactorsTypes, x
<1>5. FactorsTypes'
  BY <1>0, <1>1, <1>3, <1>4 DEF FactorsTypes
<1>6. ceremony[c].status = "unused"
  BY <1>1 DEF Factors!NoCeremony
<1>7. Grows(attempt, ceremony, attempt', ceremony')
  BY <1>1, <1>4, <1>6 DEF Grows
<1>8. CeremonyBacked(x, attempt')
  BY <1>1, <1>2, <1>3 DEF CeremonyBacked
<1> QED
  BY <1>1, <1>4, <1>5, <1>7, <1>8, FactorsKeeps

LEMMA FactorsDeletes ==
  ASSUME FactorsInv, NEW k \in First, Factors!DeletePasskey(k)
  PROVE  FactorsInv'
<1>0. FactorsTypes /\ credential[k] \in UserCredential /\ CredentialBacked(credential[k], ceremony)
  BY DEF FactorsInv, FactorsTypes
<1> DEFINE x == [credential[k] EXCEPT !.status = "deleted"]
<1>1. /\ credential[k].status = "present" /\ credential' = [credential EXCEPT ![k] = x]
      /\ UNCHANGED <<user, attempt, ceremony, session, request>>
  BY DEF Factors!DeletePasskey, Factors!Present
<1>2. x \in UserCredential /\ x.ceremony = credential[k].ceremony
  BY <1>0 DEF UserCredential
<1> HIDE DEF x
<1>3. credential[k] # Factors!NoCredential
  BY <1>1 DEF Factors!NoCredential
<1>4. CredentialBacked(x, ceremony')
  BY <1>0, <1>1, <1>2, <1>3 DEF CredentialBacked
<1>5. credential' = [y \in First |-> IF y = k THEN x ELSE credential[y]]
  BY <1>0, <1>1 DEF FactorsTypes
<1>6. FactorsTypes'
  BY <1>0, <1>1, <1>2, <1>5 DEF FactorsTypes
<1>7. Grows(attempt, ceremony, attempt', ceremony')
  BY <1>1, FactorsSame
<1> QED
  BY <1>1, <1>4, <1>5, <1>6, <1>7, FactorsKeeps

LEMMA FactorsStutters ==
  ASSUME FactorsInv, user' \in {user, "active"},
         UNCHANGED <<attempt, ceremony, credential, session, request>>
  PROVE  FactorsInv'
BY DEF FactorsInv, FactorsTypes

LEMMA FactorsNext ==
  ASSUME FactorsInv, Factors!Next
  PROVE  FactorsInv'
<1>0. FactorsTypes
  BY DEF FactorsInv
<1>1. ASSUME NEW a \in Pair, Factors!StartProjectUserLogin(a) \/ Factors!ExpireAttempt(a)
      PROVE  FactorsInv'
  <2>1. \E st \in {"open", "unbound", "expired"} : attempt' = [attempt EXCEPT ![a].status = st]
    BY <1>1 DEF Factors!StartProjectUserLogin, Factors!ExpireAttempt
  <2>2. PICK st \in {"open", "unbound", "expired"} : attempt' = [attempt EXCEPT ![a].status = st]
    BY <2>1
  <2> DEFINE x == [attempt[a] EXCEPT !.status = st]
  <2>3. x \in UserAttempt /\ x.verified = attempt[a].verified
    BY <1>0 DEF FactorsTypes, UserAttempt
  <2>4. attempt' = [attempt EXCEPT ![a] = x] /\ request' = request
        /\ UNCHANGED <<user, ceremony, credential, session>>
    BY <1>1, <2>2 DEF Factors!StartProjectUserLogin, Factors!ExpireAttempt
  <2> HIDE DEF x
  <2> QED
    BY <2>3, <2>4, FactorsAttempt
<1>2. ASSUME NEW c \in Couple, Factors!ExpireCeremony(c)
      PROVE  FactorsInv'
  <2>1. /\ ceremony[c].status = "open" /\ ceremony' = [ceremony EXCEPT ![c].status = "expired"]
        /\ UNCHANGED <<user, attempt, credential, session>> /\ request' = request
    BY <1>2 DEF Factors!ExpireCeremony
  <2> QED
    BY <2>1, FactorsConsumes
<1>3. ASSUME NEW s \in Duo, Factors!RuntimeRevoke(s)
      PROVE  FactorsInv'
  <2> DEFINE S == {s}
  <2>1. /\ session' = [t \in Duo |-> IF t \in S THEN [session[t] EXCEPT !.status = "revoked"]
                                                ELSE session[t]]
        /\ \A t \in S : session[t].status = "live"
        /\ UNCHANGED <<user, attempt, ceremony, credential>> /\ request' = request
    BY <1>0, <1>3 DEF Factors!RuntimeRevoke, FactorsTypes
  <2> HIDE DEF S
  <2> QED
    BY <2>1, FactorsRevokes
<1>4. CASE Factors!RevokeProjectUserSessions \/ Factors!ReplaceProjectUserPassword
  BY <1>4, FactorsRevokeAll DEF Factors!RevokeProjectUserSessions, Factors!ReplaceProjectUserPassword
<1>5. CASE \/ \E s \in Duo : Factors!SetFace(s)
           \/ \E status \in Factors!Status : Factors!SetProject(status)
           \/ Factors!CreateProjectUser
  BY <1>5, FactorsStutters DEF Factors!SetFace, Factors!SetProject, Factors!CreateProjectUser
<1> QED
  BY <1>1, <1>2, <1>3, <1>4, <1>5, FactorsHandle, FactorsBegin, FactorsDeletes DEF Factors!Next

LEMMA FactorsCeremony == FactorsInv => Factors!SessionOfItsCeremony
BY DEF FactorsInv, SessionBacked, Factors!SessionOfItsCeremony

LEMMA FactorsSecond == FactorsInv => Factors!SecondFactor
<1> SUFFICES ASSUME FactorsInv PROVE Factors!SecondFactor
  OBVIOUS
<1>1. \A s \in Duo : session[s] # Factors!NoSession /\ session[s].by # "security_key" =>
        attempt[session[s].attempt].verified
  BY DEF FactorsInv, SessionBacked
<1>2. ASSUME NEW k \in First, credential[k] # Factors!NoCredential,
             ceremony[credential[k].ceremony].attempt # None
      PROVE  attempt[ceremony[credential[k].ceremony].attempt].verified
  BY <1>2 DEF FactorsInv, CredentialBacked, CeremonyBacked
<1> QED
  BY <1>1, <1>2 DEF Factors!SecondFactor

-----------------------------------------------------------------------------
(* What a tenant administers.                                                *)

TenantInv ==
  /\ part = "login" => LoginInv
  /\ part = "factors" => FactorsInv
  /\ part = "config" => ConfigInv
  /\ part = "biometrics" => BioInv
  /\ part = "service" => ServiceInv
  /\ part = "intake" => IntakeInv

LEMMA TenantInit == MCInit => TenantInv
BY LoginInit, FactorsInit, ConfigInit, BioInit, ServiceInit, IntakeInit DEF MCInit, TenantInv

LEMMA TenantStutters ==
  ASSUME TenantInv, UNCHANGED allVars
  PROVE  TenantInv'
<1>1. /\ part' = part
      /\ UNCHANGED <<user, attempt, ceremony, session, project, credential, request>>
      /\ UNCHANGED <<row, provider, removed, contested, account, issuer, case, lock, reopened>>
  BY DEF allVars, loginVars, sharedVars, bioVars, serviceVars, caseVars
<1>2. LoginInv => LoginInv'
  BY <1>1 DEF LoginInv, LoginTypes, LoginSessions
<1>3. FactorsInv => FactorsInv'
  BY <1>1, FactorsStutters
<1>4. ConfigInv => ConfigInv'
  BY <1>1 DEF ConfigInv
<1>5. BioInv => BioInv'
  BY <1>1 DEF BioInv, BioTypes, PendingInv, Pending, Replaces, Accounted, ContestInv, ReplacedInv,
              RowInv
<1>6. ServiceInv => ServiceInv'
  BY <1>1, ServiceStutters
<1>7. IntakeInv => IntakeInv'
  BY <1>1, IntakeStutters
<1> QED
  BY <1>1, <1>2, <1>3, <1>4, <1>5, <1>6, <1>7 DEF TenantInv

LEMMA TenantNext == TenantInv /\ [MCNext]_allVars => TenantInv'
<1> SUFFICES ASSUME TenantInv, [MCNext]_allVars
             PROVE  TenantInv'
  OBVIOUS
<1>1. CASE MCNext
  BY <1>1, LoginNext, FactorsNext, ConfigNext, BioNext, ServiceNext, IntakeNext
     DEF MCNext, TenantInv
<1>2. CASE UNCHANGED allVars
  BY <1>2, TenantStutters
<1> QED
  BY <1>1, <1>2

LEMMA TenantInvariant == MCSpec => []TenantInv
BY TenantInit, TenantNext, PTL DEF MCSpec

\* An attempt gives at most one session, for any number of requests that
\* present its factors at the same moment (completeLogin).
THEOREM OneSessionHolds == MCSpec => []OneSessionPerAttempt
<1>1. TenantInv => OneSessionPerAttempt
  BY LoginOneSession DEF TenantInv, OneSessionPerAttempt
<1> QED
  BY <1>1, TenantInvariant, PTL

\* The assertion or enrolment of one login never completes another, for any
\* attempts and ceremonies (finishFidoLogin, finishFirstFidoEnrollment).
THEOREM SessionOfItsCeremonyHolds == MCSpec => []SessionOfItsCeremony
<1>1. TenantInv => SessionOfItsCeremony
  BY FactorsCeremony DEF TenantInv, SessionOfItsCeremony
<1> QED
  BY <1>1, TenantInvariant, PTL

\* No session without a verified password or a security key, and no credential
\* from a ceremony that neither a verified password nor a session began, for any
\* attempts, ceremonies and requests.
THEOREM SecondFactorHolds == MCSpec => []SecondFactor
<1>1. TenantInv => SecondFactor
  BY FactorsSecond DEF TenantInv, SecondFactor
<1> QED
  BY <1>1, TenantInvariant, PTL

\* From the first registration on no request changes the RP ID, for any
\* requests that read the Project before it (updateProject).
THEOREM RpIdPermanentHolds == MCSpec => RpIdPermanent
<1>1. TenantInv /\ [MCNext]_allVars => [part = "config" => Config!KeepsRpId]_allVars
  BY ConfigNext DEF TenantInv, MCNext
<1> QED
  BY <1>1, TenantInvariant, PTL DEF MCSpec, RpIdPermanent

\* The template the user is verified against is at the provider, but for a
\* deletion, an enrolment that reported an error and a template given out again
\* while it was replaced, for any enrolments that overlap and fail.
THEOREM EnrolledTemplateHeldHolds == MCSpec => []EnrolledTemplateHeld
<1>1. TenantInv => EnrolledTemplateHeld
  BY BioHeld DEF TenantInv, EnrolledTemplateHeld
<1> QED
  BY <1>1, TenantInvariant, PTL

\* An account that is disabled or deleted has no active credential, for any
\* accounts, credentials and requests that issue one meanwhile.
THEOREM DisabledHasNoneHolds == MCSpec => []DisabledHasNone
<1>1. TenantInv => DisabledHasNone
  BY ServiceDisabled DEF TenantInv, DisabledHasNone
<1> QED
  BY <1>1, TenantInvariant, PTL

\* Requests that count at the same moment exceed the limit on active cases by
\* no more than one for each further row they can lock and the cases that were
\* reopened, for any Projects, requests and limit.
THEOREM IntakeBoundedHolds == MCSpec => []IntakeBounded
<1>1. TenantInv => IntakeBounded
  BY IntakeLimit DEF TenantInv, IntakeBounded
<1> QED
  BY <1>1, TenantInvariant, PTL
=============================================================================
