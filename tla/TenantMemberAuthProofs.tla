----------------------- MODULE TenantMemberAuthProofs -----------------------
(***************************************************************************)
(* Proofs about the authentication of a Tenant Member, for any attempts,   *)
(* sessions, ceremonies, credentials, proofs and requests in flight and    *)
(* for any limit on credentials.                                           *)
(***************************************************************************)
EXTENDS MCTenantMemberAuth, FiniteSetTheorems, TLAPS

AttemptRow == [status : RowStatus, proof : Verified]
CeremonyRow == [status : RowStatus, type : {"authentication", "registration"},
                by : Owners, allowed : SUBSET Credentials]
SessionRow == [status : RowStatus, assurance : {"bootstrap", "strong"},
               by : Attempts \cup {Nobody}]
RequestState == [pc : {"idle", "resolved", "marked", "verified"},
                 op : Operations, by : Owners, allowed : SUBSET Credentials,
                 hash : Passwords, legacy : BOOLEAN]

\* The types, without the limit on credentials.
Types ==
  /\ member \in [password : Passwords, legacy : BOOLEAN, status : {"active", "disabled"}]
  /\ epoch \in Passwords
  /\ attempt \in [Attempts -> AttemptRow]
  /\ ceremony \in [Ceremonies -> CeremonyRow]
  /\ credential \in [Credentials -> [status : RowStatus]]
  /\ session \in [Sessions -> SessionRow]
  /\ proof \in [Proofs -> [status : RowStatus]]
  /\ handler \in [Handlers -> RequestState]

CredentialsBounded == IsFiniteSet(Enrolled) /\ Cardinality(Enrolled) <= MaxCredentials

\* What a request works on: an attempt, or a session that was open once.
RequestsInv ==
  \A h \in Handlers :
    /\ handler[h].pc # "idle" /\ handler[h].op \in {"password", "login", "initial"} =>
         handler[h].by \in Attempts
    /\ handler[h].pc # "idle" /\ handler[h].op \in {"session", "delete"} =>
         handler[h].by \in Sessions /\ session[handler[h].by].status # "unused"
    /\ handler[h].pc = "marked" => handler[h].op = "password"

\* The only bootstrap session is the one of the signup, and while it is usable
\* nobody has logged in; a login consumed its attempt and gave a strong session.
SessionsInv ==
  /\ \A s \in Sessions : session[s].status # "unused" /\ session[s].assurance = "bootstrap"
       => s = Signup
  /\ session[Signup].status = "open" /\ session[Signup].assurance = "bootstrap"
       => \A s \in Sessions \ {Signup} : session[s].status = "unused"
  /\ \A s \in Sessions : session[s].by # Nobody =>
       /\ session[s].assurance = "strong"
       /\ session[s].by \in Attempts
       /\ attempt[session[s].by].status = "closed"

AuthInv ==
  /\ Types /\ CredentialsBounded /\ RequestsInv /\ SessionsInv
  /\ AssuranceMatchesCredentials /\ OneSessionPerAttempt

LEMMA Constants ==
  /\ MaxCredentials \in Nat \ {0} /\ MaxResets \in Nat /\ Signup \in Sessions
  /\ Nobody \notin Attempts \cup Sessions /\ Attempts \cap Sessions = {}
BY AuthConstants DEF AuthConstants, AuthAssumption

LEMMA IdleTyped == Idle \in RequestState
BY Constants DEF Idle, RequestState, Operations, Owners, Passwords

LEMMA AuthInit == Init => AuthInv
<1> SUFFICES ASSUME Init PROVE AuthInv
  OBVIOUS
<1> USE Constants
<1>1. Types
  <2>1. handler \in [Handlers -> RequestState]
    BY IdleTyped DEF Init
  <2>2. session \in [Sessions -> SessionRow] /\ attempt \in [Attempts -> AttemptRow]
    BY DEF Init, SessionRow, AttemptRow, RowStatus, Verified
  <2> QED
    BY <2>1, <2>2 DEF Init, Types, CeremonyRow, RowStatus, Owners, Passwords
<1>2. Enrolled = {}
  BY DEF Init, Enrolled
<1>3. CredentialsBounded
  BY <1>2, FS_EmptySet DEF CredentialsBounded
<1>4. RequestsInv /\ SessionsInv
  BY DEF Init, Idle, RequestsInv, SessionsInv
<1>5. AssuranceMatchesCredentials /\ OneSessionPerAttempt
  BY <1>2 DEF Init, AssuranceMatchesCredentials, OneSessionPerAttempt, OpenSessions
<1> QED
  BY <1>1, <1>3, <1>4, <1>5 DEF AuthInv

-----------------------------------------------------------------------------
(* Steps that change no credential.                                          *)

\* Sessions only end, attempts are never opened again, and requests go on with
\* what they had.
LEMMA AuthEnds ==
  ASSUME AuthInv, Types', credential' = credential,
         \A s \in Sessions :
            \/ session'[s] = session[s]
            \/ /\ session[s].status = "open" /\ session'[s].status = "closed"
               /\ session'[s].by = session[s].by /\ session'[s].assurance = session[s].assurance,
         \A a \in Attempts : attempt[a].status = "closed" => attempt'[a].status = "closed",
         RequestsInv'
  PROVE  AuthInv'
<1>1. Enrolled' = Enrolled
  BY DEF Enrolled
<1>2. CredentialsBounded'
  BY <1>1 DEF AuthInv, CredentialsBounded
<1>3. SessionsInv'
  BY Constants DEF AuthInv, SessionsInv
<1>4. AssuranceMatchesCredentials' /\ OneSessionPerAttempt'
  BY <1>1 DEF AuthInv, AssuranceMatchesCredentials, OneSessionPerAttempt, OpenSessions
<1> QED
  BY <1>2, <1>3, <1>4 DEF AuthInv

\* What closing leaves of a row.
LEMMA SessionCloses ==
  ASSUME NEW r \in SessionRow
  PROVE  /\ [r EXCEPT !.status = "closed"] \in SessionRow
         /\ [r EXCEPT !.status = "closed"].status = "closed"
         /\ [r EXCEPT !.status = "closed"].by = r.by
         /\ [r EXCEPT !.status = "closed"].assurance = r.assurance
BY DEF SessionRow, RowStatus

LEMMA AttemptCloses ==
  ASSUME NEW r \in AttemptRow
  PROVE  /\ [r EXCEPT !.status = "closed"] \in AttemptRow
         /\ [r EXCEPT !.status = "closed"].status = "closed"
BY DEF AttemptRow, RowStatus

LEMMA CeremonyCloses ==
  ASSUME NEW r \in CeremonyRow
  PROVE  [r EXCEPT !.status = "closed"] \in CeremonyRow
BY DEF CeremonyRow, RowStatus

LEMMA RowCloses ==
  ASSUME NEW r \in [status : RowStatus]
  PROVE  /\ [r EXCEPT !.status = "closed"] \in [status : RowStatus]
         /\ [r EXCEPT !.status = "closed"].status = "closed"
BY DEF RowStatus

\* A request that goes on to the given state.
LEMMA Goes ==
  ASSUME AuthInv, NEW h \in Handlers, NEW state \in RequestState,
         handler' = [handler EXCEPT ![h] = state],
         \A s \in Sessions : session[s].status # "unused" => session'[s].status # "unused",
         state.pc # "idle" /\ state.op \in {"password", "login", "initial"} => state.by \in Attempts,
         state.pc # "idle" /\ state.op \in {"session", "delete"} =>
           state.by \in Sessions /\ session[state.by].status # "unused",
         state.pc = "marked" => state.op = "password"
  PROVE  handler' \in [Handlers -> RequestState] /\ RequestsInv'
<1>1. /\ handler' \in [Handlers -> RequestState] /\ handler'[h] = state
      /\ \A g \in Handlers : g # h => handler'[g] = handler[g]
  BY DEF AuthInv, Types
<1>2. ASSUME NEW g \in Handlers
      PROVE  /\ handler'[g].pc # "idle" /\ handler'[g].op \in {"password", "login", "initial"} =>
                  handler'[g].by \in Attempts
             /\ handler'[g].pc # "idle" /\ handler'[g].op \in {"session", "delete"} =>
                  handler'[g].by \in Sessions /\ session'[handler'[g].by].status # "unused"
             /\ handler'[g].pc = "marked" => handler'[g].op = "password"
  BY <1>1 DEF AuthInv, RequestsInv
<1> QED
  BY <1>1, <1>2 DEF RequestsInv

LEMMA Stops ==
  ASSUME AuthInv, NEW h \in Handlers, handler' = [handler EXCEPT ![h] = Idle],
         \A s \in Sessions : session[s].status # "unused" => session'[s].status # "unused"
  PROVE  handler' \in [Handlers -> RequestState] /\ RequestsInv'
<1>1. Idle.pc = "idle"
  BY DEF Idle
<1> QED
  BY <1>1, IdleTyped, Goes

LEMMA AuthPassword ==
  ASSUME AuthInv, NEW h \in Handlers,
         (\E a \in Attempts : ReadPasswordHash(h, a)) \/ MarkVerified(h) \/ Rehash(h)
  PROVE  AuthInv'
<1>1. ASSUME NEW a \in Attempts, ReadPasswordHash(h, a)
      PROVE  AuthInv'
  <2> DEFINE state == [Idle EXCEPT !.pc = "resolved", !.op = "password", !.by = a,
                                   !.hash = member.password, !.legacy = member.legacy]
  <2>1. /\ handler' = [handler EXCEPT ![h] = state]
        /\ UNCHANGED <<member, epoch, attempt, ceremony, credential, session, proof>>
    BY <1>1 DEF ReadPasswordHash
  <2>2. state \in RequestState
    BY DEF Idle, RequestState, Operations, Owners, AuthInv, Types
  <2>3. state.pc = "resolved" /\ state.op = "password" /\ state.by = a
    BY DEF Idle
  <2> HIDE DEF state
  <2>4. handler' \in [Handlers -> RequestState] /\ RequestsInv'
    BY <2>1, <2>2, <2>3, Goes
  <2>5. Types'
    BY <2>1, <2>4 DEF AuthInv, Types
  <2> QED
    BY <2>1, <2>4, <2>5, AuthEnds
<1>2. CASE MarkVerified(h)
  <2> DEFINE a == handler[h].by
             state == IF handler[h].legacy THEN [handler[h] EXCEPT !.pc = "marked"] ELSE Idle
             value == IF attempt[a].proof = NotVerified THEN handler[h].hash ELSE attempt[a].proof
  <2>1. /\ handler[h].pc = "resolved" /\ handler[h].op = "password"
        /\ attempt' = [attempt EXCEPT ![a].proof = value]
        /\ handler' = [handler EXCEPT ![h] = state]
        /\ UNCHANGED <<member, epoch, ceremony, credential, session, proof>>
    BY <1>2 DEF MarkVerified
  <2>2. a \in Attempts /\ handler[h] \in RequestState /\ attempt[a] \in AttemptRow
    BY <2>1 DEF AuthInv, Types, RequestsInv
  <2>3. value \in Verified
    BY <2>2 DEF RequestState, AttemptRow, Verified
  <2> HIDE DEF value
  <2>4. /\ attempt' \in [Attempts -> AttemptRow]
        /\ \A b \in Attempts : attempt'[b].status = attempt[b].status
    BY <2>1, <2>2, <2>3 DEF AuthInv, Types, AttemptRow
  <2>5. /\ state \in RequestState
        /\ state.pc # "idle" => state.op = "password" /\ state.by = a
    BY <2>1, <2>2, IdleTyped DEF RequestState, Idle
  <2> HIDE DEF state
  <2>6. handler' \in [Handlers -> RequestState] /\ RequestsInv'
    BY <2>1, <2>2, <2>5, Goes
  <2>7. Types'
    BY <2>1, <2>4, <2>6 DEF AuthInv, Types
  <2> QED
    BY <2>1, <2>4, <2>6, <2>7, AuthEnds
<1>3. CASE Rehash(h)
  <2>1. /\ member' = [member EXCEPT !.password = handler[h].hash, !.legacy = FALSE]
        /\ handler' = [handler EXCEPT ![h] = Idle]
        /\ UNCHANGED <<epoch, attempt, ceremony, credential, session, proof>>
    BY <1>3 DEF Rehash
  <2>2. handler' \in [Handlers -> RequestState] /\ RequestsInv'
    BY <2>1, Stops
  <2>3. handler[h].hash \in Passwords
    BY DEF AuthInv, Types, RequestState
  <2>4. Types'
    BY <2>1, <2>2, <2>3 DEF AuthInv, Types
  <2> QED
    BY <2>1, <2>2, <2>4, AuthEnds
<1> QED
  BY <1>1, <1>2, <1>3

LEMMA AuthResolve ==
  ASSUME AuthInv, NEW h \in Handlers, NEW op \in Operations, NEW by \in Owners, Resolve(h, op, by)
  PROVE  AuthInv'
<1> DEFINE state == [Idle EXCEPT !.pc = "resolved", !.op = op, !.by = by]
<1>1. /\ MayFinish(op, by)
      /\ handler' = [handler EXCEPT ![h] = state]
      /\ UNCHANGED <<member, epoch, attempt, ceremony, credential, session, proof>>
  BY DEF Resolve
<1>2. state \in RequestState
  BY IdleTyped DEF RequestState
<1>3. state.pc = "resolved" /\ state.op = op /\ state.by = by
  BY DEF Idle
<1>4. /\ op \in {"login", "initial"} => by \in Attempts
      /\ op \in {"session", "delete"} => by \in Sessions /\ session[by].status = "open"
      /\ op # "password"
  BY <1>1 DEF MayFinish, Authenticated, Open
<1> HIDE DEF state
<1>5. handler' \in [Handlers -> RequestState] /\ RequestsInv'
  BY <1>1, <1>2, <1>3, <1>4, Goes
<1>6. Types'
  BY <1>1, <1>5 DEF AuthInv, Types
<1> QED
  BY <1>1, <1>5, <1>6, AuthEnds

LEMMA AuthVerify ==
  ASSUME AuthInv, NEW h \in Handlers, NEW k \in Ceremonies, VerifyCeremony(h, k)
  PROVE  AuthInv'
<1> DEFINE state == IF Matches(h, k)
                    THEN [handler[h] EXCEPT !.pc = "verified", !.allowed = ceremony[k].allowed]
                    ELSE Idle
<1>1. /\ handler[h].pc = "resolved"
      /\ ceremony' = [ceremony EXCEPT ![k] = [ceremony[k] EXCEPT !.status = "closed"]]
      /\ handler' = [handler EXCEPT ![h] = state]
      /\ UNCHANGED <<member, epoch, attempt, credential, session, proof>>
  BY DEF VerifyCeremony, Close
<1>2. handler[h] \in RequestState /\ ceremony[k] \in CeremonyRow
  BY DEF AuthInv, Types
<1>3. /\ state \in RequestState
      /\ state.pc # "idle" => state.pc = "verified" /\ state.op = handler[h].op /\ state.by = handler[h].by
  BY <1>2, IdleTyped DEF RequestState, CeremonyRow, Idle
<1> HIDE DEF state
<1>4. handler' \in [Handlers -> RequestState] /\ RequestsInv'
  <2>1. /\ handler[h].op \in {"password", "login", "initial"} => handler[h].by \in Attempts
        /\ handler[h].op \in {"session", "delete"} =>
             handler[h].by \in Sessions /\ session[handler[h].by].status # "unused"
    BY <1>1 DEF AuthInv, RequestsInv
  <2> QED
    BY <1>1, <1>3, <2>1, Goes
<1>5. ceremony' \in [Ceremonies -> CeremonyRow]
  BY <1>1, <1>2, CeremonyCloses DEF AuthInv, Types
<1>6. Types'
  BY <1>1, <1>4, <1>5 DEF AuthInv, Types
<1> QED
  BY <1>1, <1>4, <1>6, AuthEnds

LEMMA AuthAbandon ==
  ASSUME AuthInv, NEW h \in Handlers, Abandon(h)
  PROVE  AuthInv'
<1>1. /\ handler' = [handler EXCEPT ![h] = Idle]
      /\ UNCHANGED <<member, epoch, attempt, ceremony, credential, session, proof>>
  BY DEF Abandon
<1>2. handler' \in [Handlers -> RequestState] /\ RequestsInv'
  BY <1>1, Stops
<1>3. Types'
  BY <1>1, <1>2 DEF AuthInv, Types
<1> QED
  BY <1>1, <1>2, <1>3, AuthEnds

LEMMA AuthAround ==
  ASSUME AuthInv,
         \/ \E a \in Attempts : StartLogin(a) \/ ExpireAttempt(a)
         \/ \E op \in Operations, by \in Owners, k \in Ceremonies : Begin(op, by, k)
         \/ \E k \in Ceremonies : ExpireCeremony(k)
         \/ \E s \in Sessions : EndSession(s)
         \/ \E p \in Proofs : IssueReset(p) \/ ExpireProof(p)
         \/ \E status \in {"active", "disabled"} : SetStatus(status)
  PROVE  AuthInv'
<1>1. ASSUME NEW a \in Attempts, StartLogin(a) \/ ExpireAttempt(a)
      PROVE  AuthInv'
  <2>1. PICK status \in {"open", "closed"} :
             /\ attempt[a].status = "unused" \/ status = "closed"
             /\ attempt' = [attempt EXCEPT ![a].status = status]
    BY <1>1 DEF StartLogin, ExpireAttempt, Unused, Close
  <2>2. UNCHANGED <<member, epoch, ceremony, credential, session, proof, handler>>
    BY <1>1 DEF StartLogin, ExpireAttempt
  <2>3. /\ attempt' \in [Attempts -> AttemptRow]
        /\ \A b \in Attempts : attempt[b].status = "closed" => attempt'[b].status = "closed"
    BY <2>1 DEF AuthInv, Types, AttemptRow, RowStatus
  <2>4. Types' /\ RequestsInv'
    BY <2>2, <2>3 DEF AuthInv, Types, RequestsInv
  <2> QED
    BY <2>2, <2>3, <2>4, AuthEnds
<1>2. ASSUME NEW k \in Ceremonies,
             ExpireCeremony(k) \/ \E op \in Operations, by \in Owners : Begin(op, by, k)
      PROVE  AuthInv'
  <2>1. UNCHANGED <<member, epoch, attempt, credential, session, proof, handler>>
    BY <1>2 DEF ExpireCeremony, Begin
  <2>2. ceremony' \in [Ceremonies -> CeremonyRow]
    <3>1. CASE ExpireCeremony(k)
      <4>1. ceremony' = [ceremony EXCEPT ![k] = [ceremony[k] EXCEPT !.status = "closed"]]
        BY <3>1 DEF ExpireCeremony, Close
      <4> QED
        BY <4>1, CeremonyCloses DEF AuthInv, Types
    <3>2. ASSUME NEW op \in Operations, NEW by \in Owners, Begin(op, by, k)
          PROVE  ceremony' \in [Ceremonies -> CeremonyRow]
      <4> DEFINE new == [status |-> "open", type |-> TypeOf(op), by |-> by,
                         allowed |-> IF op = "login" THEN Enrolled ELSE {}]
      <4>1. new \in CeremonyRow
        BY DEF CeremonyRow, RowStatus, TypeOf, Enrolled
      <4>2. ceremony' = [ceremony EXCEPT ![k] = new]
        BY <3>2 DEF Begin
      <4> HIDE DEF new
      <4> QED
        BY <4>1, <4>2 DEF AuthInv, Types
    <3> QED
      BY <1>2, <3>1, <3>2
  <2>3. Types' /\ RequestsInv'
    BY <2>1, <2>2 DEF AuthInv, Types, RequestsInv
  <2> QED
    BY <2>1, <2>3, AuthEnds
<1>3. ASSUME session' \in [Sessions -> SessionRow],
             \A s \in Sessions :
                \/ session'[s] = session[s]
                \/ session[s].status = "open" /\ session'[s] = [session[s] EXCEPT !.status = "closed"],
             member' \in [password : Passwords, legacy : BOOLEAN, status : {"active", "disabled"}],
             UNCHANGED <<epoch, attempt, ceremony, credential, proof, handler>>
      PROVE  AuthInv'
  <2>1. ASSUME NEW s \in Sessions
        PROVE  \/ session'[s] = session[s]
               \/ /\ session[s].status = "open" /\ session'[s].status = "closed"
                  /\ session'[s].by = session[s].by /\ session'[s].assurance = session[s].assurance
    <3>1. session[s] \in SessionRow
      BY DEF AuthInv, Types
    <3> QED
      BY <1>3, <3>1, SessionCloses
  <2>2. Types'
    BY <1>3 DEF AuthInv, Types
  <2>3. \A s \in Sessions : session[s].status # "unused" => session'[s].status # "unused"
    BY <2>1
  <2>4. RequestsInv'
    BY <1>3, <2>3 DEF AuthInv, RequestsInv
  <2> QED
    BY <1>3, <2>1, <2>2, <2>4, AuthEnds
<1>4. ASSUME NEW s \in Sessions, EndSession(s)
      PROVE  AuthInv'
  <2>1. /\ session[s].status = "open"
        /\ session' = [session EXCEPT ![s] = [session[s] EXCEPT !.status = "closed"]]
        /\ UNCHANGED <<member, epoch, attempt, ceremony, credential, proof, handler>>
    BY <1>4 DEF EndSession, Open, Close
  <2>2. session' \in [Sessions -> SessionRow]
    BY <2>1, SessionCloses DEF AuthInv, Types
  <2>3. \A t \in Sessions :
                \/ session'[t] = session[t]
                \/ session[t].status = "open" /\ session'[t] = [session[t] EXCEPT !.status = "closed"]
    BY <2>1 DEF AuthInv, Types
  <2> QED
    BY <1>3, <2>1, <2>2, <2>3 DEF AuthInv, Types
<1>5. ASSUME NEW status \in {"active", "disabled"}, SetStatus(status)
      PROVE  AuthInv'
  <2>1. /\ member' = [member EXCEPT !.status = status]
        /\ UNCHANGED <<epoch, attempt, ceremony, credential, proof, handler>>
    BY <1>5 DEF SetStatus
  <2>2. session' = session \/
        session' = [s \in Sessions |-> IF session[s].status = "open"
                      THEN [session[s] EXCEPT !.status = "closed"] ELSE session[s]]
    BY <1>5 DEF SetStatus, CloseAll, AuthInv, Types
  <2>3. session' \in [Sessions -> SessionRow]
    BY <2>2, SessionCloses DEF AuthInv, Types
  <2>4. \A t \in Sessions :
                \/ session'[t] = session[t]
                \/ session[t].status = "open" /\ session'[t] = [session[t] EXCEPT !.status = "closed"]
    BY <2>2
  <2>5. member' \in [password : Passwords, legacy : BOOLEAN, status : {"active", "disabled"}]
    BY <2>1 DEF AuthInv, Types
  <2> QED
    BY <1>3, <2>1, <2>3, <2>4, <2>5
<1>6. ASSUME NEW p \in Proofs, IssueReset(p) \/ ExpireProof(p)
      PROVE  AuthInv'
  <2>1. UNCHANGED <<member, epoch, attempt, ceremony, credential, session, handler>>
    BY <1>6 DEF IssueReset, ExpireProof
  <2>2. proof' \in [Proofs -> [status : RowStatus]]
    <3>1. CASE ExpireProof(p)
      BY <3>1, RowCloses DEF ExpireProof, Close, AuthInv, Types
    <3>2. CASE IssueReset(p)
      <4> DEFINE closed == CloseAll(proof)
      <4>1. closed \in [Proofs -> [status : RowStatus]]
        BY RowCloses DEF CloseAll, AuthInv, Types
      <4>2. proof' = [closed EXCEPT ![p].status = "open"]
        BY <3>2 DEF IssueReset
      <4> HIDE DEF closed
      <4> QED
        BY <4>1, <4>2 DEF RowStatus
    <3> QED
      BY <1>6, <3>1, <3>2
  <2>3. Types' /\ RequestsInv'
    BY <2>1, <2>2 DEF AuthInv, Types, RequestsInv
  <2> QED
    BY <2>1, <2>3, AuthEnds
<1> QED
  BY <1>1, <1>2, <1>4, <1>5, <1>6

-----------------------------------------------------------------------------
(* The transactions.                                                         *)

\* A new session of attempt a, and the end of the bootstrap sessions.
LEMMA NewLogin ==
  ASSUME AuthInv, NEW a \in Attempts, NEW s \in Sessions, Unused(session, s),
         attempt' = Close(attempt, a),
         session' = [RevokeBootstrap EXCEPT ![s] = NewSession(a)]
  PROVE  /\ session' \in [Sessions -> SessionRow] /\ attempt' \in [Attempts -> AttemptRow]
         /\ SessionsInv'
         /\ session'[s].status = "open" /\ session'[s].by = a /\ session'[s].assurance = "strong"
         /\ \A t \in Sessions \ {s} :
              /\ session'[t].by = session[t].by /\ session'[t].assurance = session[t].assurance
              /\ session'[t].status = "open" =>
                   session[t].status = "open" /\ session[t].assurance = "strong"
         /\ \A t \in Sessions : session[t].status # "unused" => session'[t].status # "unused"
<1>1. /\ session'[s] = NewSession(a)
      /\ \A t \in Sessions \ {s} : session'[t] = RevokeBootstrap[t]
  BY DEF RevokeBootstrap
<1>2. NewSession(a) \in SessionRow
  BY DEF NewSession, SessionRow, RowStatus
<1>3. \A t \in Sessions : session[t] \in SessionRow
  BY DEF AuthInv, Types
<1>4. session' \in [Sessions -> SessionRow]
  <2>1. RevokeBootstrap \in [Sessions -> SessionRow]
    BY <1>3, SessionCloses DEF RevokeBootstrap
  <2> QED
    BY <1>2, <2>1
<1>5. /\ attempt' \in [Attempts -> AttemptRow] /\ attempt'[a].status = "closed"
      /\ \A b \in Attempts : attempt[b].status = "closed" => attempt'[b].status = "closed"
  BY AttemptCloses DEF Close, AuthInv, Types
<1>6. session'[s].status = "open" /\ session'[s].by = a /\ session'[s].assurance = "strong"
  BY <1>1 DEF NewSession
<1>7. ASSUME NEW t \in Sessions \ {s}
      PROVE  /\ session'[t].by = session[t].by /\ session'[t].assurance = session[t].assurance
             /\ session'[t].status =
                  IF session[t].status = "open" /\ session[t].assurance = "bootstrap"
                  THEN "closed" ELSE session[t].status
  <2>1. session[t] \in SessionRow /\ session'[t] = RevokeBootstrap[t]
    BY <1>1, <1>3
  <2> QED
    BY <2>1, SessionCloses DEF RevokeBootstrap
<1>8. ASSUME NEW t \in Sessions \ {s}
      PROVE  /\ session'[t].status = "open" =>
                   session[t].status = "open" /\ session[t].assurance = "strong"
             /\ session[t].status # "unused" => session'[t].status # "unused"
             /\ session'[t].status # "unused" => session[t].status # "unused"
  <2>1. session[t].assurance \in {"bootstrap", "strong"}
    BY <1>3 DEF SessionRow
  <2> QED
    BY <1>7, <2>1
<1>9. SessionsInv'
  <2>1. \A t \in Sessions : session'[t].status # "unused" /\ session'[t].assurance = "bootstrap"
          => t = Signup
    BY <1>6, <1>7, <1>8 DEF AuthInv, SessionsInv
  <2>2. ~(session'[Signup].status = "open" /\ session'[Signup].assurance = "bootstrap")
    BY <1>6, <1>7, <1>8, Constants
  <2>3. ASSUME NEW t \in Sessions, session'[t].by # Nobody
        PROVE  /\ session'[t].assurance = "strong" /\ session'[t].by \in Attempts
               /\ attempt'[session'[t].by].status = "closed"
    BY <1>5, <1>6, <1>7, <2>3 DEF AuthInv, SessionsInv
  <2> QED
    BY <2>1, <2>2, <2>3 DEF SessionsInv
<1>10. session[s].status = "unused"
  BY DEF Unused
<1> QED
  BY <1>4, <1>5, <1>6, <1>7, <1>8, <1>9, <1>10

LEMMA AuthCompleteLogin ==
  ASSUME AuthInv, NEW h \in Handlers, NEW c \in Credentials, NEW s \in Sessions,
         CompleteLogin(h, c, s)
  PROVE  AuthInv'
<1> DEFINE a == handler[h].by
<1>1. /\ handler[h].pc = "verified" /\ handler[h].op = "login"
      /\ c \in Enrolled /\ attempt[a].status = "open" /\ Unused(session, s)
      /\ attempt' = Close(attempt, a)
      /\ session' = [RevokeBootstrap EXCEPT ![s] = NewSession(a)]
      /\ handler' = [handler EXCEPT ![h] = Idle]
      /\ UNCHANGED <<member, epoch, ceremony, credential, proof>>
  BY DEF CompleteLogin, Ready, Consumable, Open
<1>2. a \in Attempts
  BY <1>1 DEF AuthInv, RequestsInv
<1> HIDE DEF a
<1>3. /\ session' \in [Sessions -> SessionRow] /\ attempt' \in [Attempts -> AttemptRow]
      /\ SessionsInv'
      /\ session'[s].status = "open" /\ session'[s].by = a /\ session'[s].assurance = "strong"
      /\ \A t \in Sessions \ {s} :
           /\ session'[t].by = session[t].by /\ session'[t].assurance = session[t].assurance
           /\ session'[t].status = "open" =>
                session[t].status = "open" /\ session[t].assurance = "strong"
      /\ \A t \in Sessions : session[t].status # "unused" => session'[t].status # "unused"
  BY <1>1, <1>2, NewLogin
<1>4. handler' \in [Handlers -> RequestState] /\ RequestsInv'
  BY <1>1, <1>3, Stops
<1>5. Types'
  BY <1>1, <1>3, <1>4 DEF AuthInv, Types
<1>6. Enrolled' = Enrolled /\ Enrolled # {}
  BY <1>1 DEF Enrolled
<1>7. AssuranceMatchesCredentials' /\ CredentialsBounded'
  BY <1>3, <1>6 DEF AuthInv, AssuranceMatchesCredentials, OpenSessions, CredentialsBounded
<1>8. \A t \in Sessions : session[t].by # a
  BY <1>1, <1>2, Constants DEF AuthInv, SessionsInv
<1>9. OneSessionPerAttempt'
  BY <1>3, <1>8 DEF AuthInv, OneSessionPerAttempt, OpenSessions
<1> QED
  BY <1>3, <1>4, <1>5, <1>7, <1>9 DEF AuthInv

\* A credential is enrolled.
LEMMA EnrollOne ==
  ASSUME AuthInv, NEW c \in Credentials, Enroll(c), Cardinality(Enrolled) < MaxCredentials
  PROVE  /\ credential' \in [Credentials -> [status : RowStatus]]
         /\ Enrolled' = Enrolled \cup {c} /\ CredentialsBounded'
<1>1. credential' \in [Credentials -> [status : RowStatus]]
  BY DEF Enroll, AuthInv, Types, RowStatus
<1>2. Enrolled' = Enrolled \cup {c}
  BY DEF Enroll, Enrolled, AuthInv, Types
<1>3. IsFiniteSet(Enrolled) /\ Cardinality(Enrolled) \in Nat
  BY FS_CardinalityType DEF AuthInv, CredentialsBounded
<1>4. /\ IsFiniteSet(Enrolled \cup {c})
      /\ Cardinality(Enrolled \cup {c}) \in {Cardinality(Enrolled), Cardinality(Enrolled) + 1}
  BY <1>3, FS_AddElement
<1>5. CredentialsBounded'
  BY <1>2, <1>3, <1>4, Constants DEF CredentialsBounded
<1> QED
  BY <1>1, <1>2, <1>5

LEMMA AuthPersistInitial ==
  ASSUME AuthInv, NEW h \in Handlers, NEW c \in Credentials, NEW s \in Sessions,
         PersistInitial(h, c, s)
  PROVE  AuthInv'
<1> DEFINE a == handler[h].by
<1>1. /\ handler[h].pc = "verified" /\ handler[h].op = "initial"
      /\ Enrolled = {} /\ Enroll(c) /\ Unused(session, s)
      /\ attempt' = Close(attempt, a)
      /\ session' = [RevokeBootstrap EXCEPT ![s] = NewSession(a)]
      /\ handler' = [handler EXCEPT ![h] = Idle]
      /\ UNCHANGED <<member, epoch, ceremony, proof>>
  BY DEF PersistInitial, Ready
<1>2. a \in Attempts
  BY <1>1 DEF AuthInv, RequestsInv
<1> HIDE DEF a
<1>3. /\ session' \in [Sessions -> SessionRow] /\ attempt' \in [Attempts -> AttemptRow]
      /\ SessionsInv'
      /\ session'[s].status = "open" /\ session'[s].by = a /\ session'[s].assurance = "strong"
      /\ \A t \in Sessions \ {s} :
           /\ session'[t].by = session[t].by /\ session'[t].assurance = session[t].assurance
           /\ session'[t].status = "open" =>
                session[t].status = "open" /\ session[t].assurance = "strong"
      /\ \A t \in Sessions : session[t].status # "unused" => session'[t].status # "unused"
  BY <1>1, <1>2, NewLogin
<1>4. handler' \in [Handlers -> RequestState] /\ RequestsInv'
  BY <1>1, <1>3, Stops
<1>5. Cardinality(Enrolled) < MaxCredentials
  BY <1>1, FS_EmptySet, Constants
<1>6. /\ credential' \in [Credentials -> [status : RowStatus]]
      /\ Enrolled' # {} /\ CredentialsBounded'
  BY <1>1, <1>5, EnrollOne
<1>7. Types'
  BY <1>1, <1>3, <1>4, <1>6 DEF AuthInv, Types
<1>8. \A t \in Sessions \ {s} : session'[t].status # "open"
  BY <1>1, <1>3 DEF AuthInv, AssuranceMatchesCredentials, OpenSessions
<1>9. AssuranceMatchesCredentials' /\ OneSessionPerAttempt'
  BY <1>3, <1>6, <1>8 DEF AssuranceMatchesCredentials, OneSessionPerAttempt, OpenSessions
<1> QED
  BY <1>3, <1>4, <1>6, <1>7, <1>9 DEF AuthInv

LEMMA AuthPersistSession ==
  ASSUME AuthInv, NEW h \in Handlers, NEW c \in Credentials, PersistSession(h, c)
  PROVE  AuthInv'
<1> DEFINE s == handler[h].by
<1>1. /\ handler[h].pc = "verified" /\ handler[h].op = "session"
      /\ Cardinality(Enrolled) < MaxCredentials /\ Enroll(c)
      /\ session' = [session EXCEPT ![s].assurance = "strong"]
      /\ handler' = [handler EXCEPT ![h] = Idle]
      /\ UNCHANGED <<member, epoch, attempt, ceremony, proof>>
  BY DEF PersistSession, Ready, BelowLimit
<1>2. s \in Sessions /\ session[s].status # "unused"
  BY <1>1 DEF AuthInv, RequestsInv
<1> HIDE DEF s
<1>3. /\ session' \in [Sessions -> SessionRow]
      /\ \A t \in Sessions :
           /\ session'[t].status = session[t].status /\ session'[t].by = session[t].by
           /\ session'[t].assurance = IF t = s THEN "strong" ELSE session[t].assurance
  BY <1>1, <1>2 DEF AuthInv, Types, SessionRow
<1>4. handler' \in [Handlers -> RequestState] /\ RequestsInv'
  BY <1>1, <1>3, Stops
<1>5. /\ credential' \in [Credentials -> [status : RowStatus]]
      /\ Enrolled' # {} /\ CredentialsBounded'
  BY <1>1, EnrollOne
<1>6. Types'
  BY <1>1, <1>3, <1>4, <1>5 DEF AuthInv, Types
<1>7. SessionsInv'
  BY <1>1, <1>3, Constants DEF AuthInv, SessionsInv
\* An open session that was not strong is the one of the signup, and then it is s.
<1>8. ASSUME NEW t \in Sessions, session[t].status = "open"
      PROVE  session'[t].assurance = "strong"
  <2>1. session[t].assurance = "strong" \/ t = s
    <3>1. session[t].assurance \in {"bootstrap", "strong"}
      BY DEF AuthInv, Types, SessionRow
    <3>2. CASE session[t].assurance = "bootstrap"
      BY <1>2, <1>8, <3>2 DEF AuthInv, SessionsInv
    <3> QED
      BY <3>1, <3>2
  <2> QED
    BY <1>3, <2>1
<1>9. AssuranceMatchesCredentials' /\ OneSessionPerAttempt'
  BY <1>3, <1>5, <1>8 DEF AuthInv, AssuranceMatchesCredentials, OneSessionPerAttempt, OpenSessions
<1> QED
  BY <1>4, <1>5, <1>6, <1>7, <1>9 DEF AuthInv

\* A deletion leaves a credential.
LEMMA DeletionKeepsOne ==
  ASSUME AuthInv, NEW h \in Handlers, NEW c \in Credentials, DeleteCredential(h, c)
  PROVE  Enrolled' # {} /\ CredentialsBounded'
<1>1. c \in Enrolled /\ Cardinality(Enrolled) > 1 /\ credential' = Close(credential, c)
  BY DEF DeleteCredential, NotTheLast
<1>2. Enrolled' = Enrolled \ {c}
  BY <1>1, RowCloses DEF Enrolled, Close, AuthInv, Types
<1>3. IsFiniteSet(Enrolled) /\ Cardinality(Enrolled) \in Nat
  BY FS_CardinalityType DEF AuthInv, CredentialsBounded
<1>4. IsFiniteSet(Enrolled \ {c}) /\ Cardinality(Enrolled \ {c}) = Cardinality(Enrolled) - 1
  BY <1>1, <1>3, FS_RemoveElement
<1>5. Enrolled \ {c} # {}
  BY <1>1, <1>3, <1>4, FS_EmptySet
<1> QED
  BY <1>2, <1>3, <1>4, <1>5, Constants DEF AuthInv, CredentialsBounded

LEMMA AuthDelete ==
  ASSUME AuthInv, NEW h \in Handlers, NEW c \in Credentials, DeleteCredential(h, c)
  PROVE  AuthInv'
<1>1. /\ c \in Enrolled /\ credential' = Close(credential, c)
      /\ session' = [s \in Sessions |-> IF s # handler[h].by /\ Open(session, s)
                       THEN [session[s] EXCEPT !.status = "closed"] ELSE session[s]]
      /\ handler' = [handler EXCEPT ![h] = Idle]
      /\ UNCHANGED <<member, epoch, attempt, ceremony, proof>>
  BY DEF DeleteCredential
<1>2. Enrolled' # {} /\ CredentialsBounded'
  BY DeletionKeepsOne
<1>3. credential' \in [Credentials -> [status : RowStatus]]
  BY <1>1, RowCloses DEF Close, AuthInv, Types
<1>4. ASSUME NEW s \in Sessions
      PROVE  /\ session'[s] \in SessionRow
             /\ session'[s].by = session[s].by /\ session'[s].assurance = session[s].assurance
             /\ session'[s].status = "open" => session[s].status = "open"
             /\ session[s].status = "unused" <=> session'[s].status = "unused"
  <2>1. session[s] \in SessionRow
    BY DEF AuthInv, Types
  <2> QED
    BY <1>1, <2>1, SessionCloses DEF Open
<1>5. session' \in [Sessions -> SessionRow]
  BY <1>1, <1>4
<1>6. handler' \in [Handlers -> RequestState] /\ RequestsInv'
  BY <1>1, <1>4, Stops
<1>7. Types'
  BY <1>1, <1>3, <1>5, <1>6 DEF AuthInv, Types
<1>8. SessionsInv'
  BY <1>1, <1>4, Constants DEF AuthInv, SessionsInv
<1>9. AssuranceMatchesCredentials' /\ OneSessionPerAttempt'
  BY <1>1, <1>2, <1>4 DEF AuthInv, AssuranceMatchesCredentials, OneSessionPerAttempt, OpenSessions
<1> QED
  BY <1>2, <1>6, <1>7, <1>8, <1>9 DEF AuthInv

LEMMA AuthReset ==
  ASSUME AuthInv, NEW p \in Proofs, ResetPassword(p)
  PROVE  AuthInv' /\ epoch' # epoch
<1>1. /\ epoch < MaxResets /\ epoch' = epoch + 1
      /\ member' = [member EXCEPT !.password = epoch + 1, !.legacy = FALSE]
      /\ proof' = CloseAll(proof) /\ attempt' = CloseAll(attempt)
      /\ session' = CloseAll(session) /\ credential' = CloseAll(credential)
      /\ UNCHANGED <<ceremony, handler>>
  BY DEF ResetPassword, SessionsAfterReset, CredentialsAfterReset
<1>2. epoch' \in Passwords /\ epoch' # epoch
  BY <1>1, Constants DEF AuthInv, Types, Passwords
<1>3. member' \in [password : Passwords, legacy : BOOLEAN, status : {"active", "disabled"}]
  BY <1>1, <1>2 DEF AuthInv, Types
<1>4. /\ proof' \in [Proofs -> [status : RowStatus]]
      /\ credential' \in [Credentials -> [status : RowStatus]]
      /\ \A c \in Credentials : credential'[c].status # "open"
  BY <1>1, RowCloses DEF CloseAll, AuthInv, Types
<1>5. /\ attempt' \in [Attempts -> AttemptRow]
      /\ \A a \in Attempts : attempt[a].status = "closed" => attempt'[a].status = "closed"
  BY <1>1, AttemptCloses DEF CloseAll, AuthInv, Types
<1>6. session' = [s \in Sessions |-> IF session[s].status = "open"
                    THEN [session[s] EXCEPT !.status = "closed"] ELSE session[s]]
  BY <1>1 DEF CloseAll, AuthInv, Types
<1>7. ASSUME NEW s \in Sessions
      PROVE  /\ session'[s] \in SessionRow /\ session'[s].status # "open"
             /\ session'[s].by = session[s].by /\ session'[s].assurance = session[s].assurance
             /\ session[s].status = "unused" <=> session'[s].status = "unused"
  <2>1. session[s] \in SessionRow
    BY DEF AuthInv, Types
  <2> QED
    BY <1>6, <2>1, SessionCloses
<1>8. Types'
  BY <1>1, <1>2, <1>3, <1>4, <1>5, <1>6, <1>7 DEF AuthInv, Types
<1>9. Enrolled' = {} /\ CredentialsBounded'
  <2>1. Enrolled' = {}
    BY <1>4 DEF Enrolled
  <2> QED
    BY <2>1, FS_EmptySet, Constants DEF CredentialsBounded
<1>10. RequestsInv'
  BY <1>1, <1>7 DEF AuthInv, RequestsInv
<1>11. SessionsInv'
  BY <1>5, <1>7, Constants DEF AuthInv, SessionsInv
<1>12. AssuranceMatchesCredentials' /\ OneSessionPerAttempt'
  BY <1>7 DEF AssuranceMatchesCredentials, OneSessionPerAttempt, OpenSessions
<1> QED
  BY <1>2, <1>8, <1>9, <1>10, <1>11, <1>12 DEF AuthInv

-----------------------------------------------------------------------------
LEMMA AuthNext == AuthInv /\ [Next]_vars => AuthInv'
<1> SUFFICES ASSUME AuthInv, [Next]_vars
             PROVE  AuthInv'
  OBVIOUS
<1>1. ASSUME NEW h \in Handlers, Request(h)
      PROVE  AuthInv'
  BY <1>1, AuthPassword, AuthResolve, AuthVerify, AuthAbandon, AuthCompleteLogin,
     AuthPersistInitial, AuthPersistSession, AuthDelete
     DEF Request
<1>2. CASE UNCHANGED vars
  BY <1>2 DEF vars, AuthInv, Types, CredentialsBounded, Enrolled, RequestsInv, SessionsInv,
              AssuranceMatchesCredentials, OneSessionPerAttempt, OpenSessions
<1> QED
  BY <1>1, <1>2, AuthAround, AuthReset DEF Next

LEMMA AuthInvariant == Spec => []AuthInv
BY AuthInit, AuthNext, PTL DEF Spec

\* Rows and requests are of their types, and the credentials never exceed
\* maxTenantMemberCredentials although it is checked when a ceremony begins.
THEOREM TypeCorrect == Spec => []TypeOK
<1>1. AuthInv => TypeOK
  BY DEF AuthInv, Types, CredentialsBounded, TypeOK, AttemptRow, CeremonyRow, SessionRow, RequestState
<1> QED
  BY <1>1, AuthInvariant, PTL

\* A usable session is strong exactly when the member has a credential,
\* whichever enrolments, deletions, resets and logins overlap.
THEOREM AssuranceHolds == Spec => []AssuranceMatchesCredentials
BY AuthInvariant, PTL DEF AuthInv

\* One login attempt never has two usable sessions, although the first
\* enrolment does not check that it consumed the attempt.
THEOREM OneSessionHolds == Spec => []OneSessionPerAttempt
BY AuthInvariant, PTL DEF AuthInv

\* A member who has a credential keeps one until a password reset.
THEOREM LastCredentialKeptHolds == Spec => LastCredentialKept
<1>1. AuthInv /\ [Next]_vars => [KeepsACredential]_vars
  <2> SUFFICES ASSUME AuthInv, Next, Enrolled # {}, Enrolled' = {}
               PROVE  epoch' # epoch
    BY DEF KeepsACredential
  <2>1. credential' # credential
    BY DEF Enrolled
  <2>2. ASSUME NEW h \in Handlers, NEW c \in Credentials, Enroll(c)
        PROVE  FALSE
    BY <2>2 DEF Enroll, Enrolled, AuthInv, Types
  <2>3. ASSUME NEW h \in Handlers, Request(h)
        PROVE  FALSE
    BY <2>1, <2>2, <2>3, DeletionKeepsOne
       DEF Request, ReadPasswordHash, MarkVerified, Rehash, Resolve, VerifyCeremony, CompleteLogin,
           PersistInitial, PersistSession, Abandon
  <2> QED
    BY <2>1, <2>3, AuthReset
       DEF Next, StartLogin, ExpireAttempt, Begin, ExpireCeremony, EndSession, IssueReset,
           ExpireProof, SetStatus
<1> QED
  BY <1>1, AuthInvariant, PTL DEF Spec, LastCredentialKept
=============================================================================
