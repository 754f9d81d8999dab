---------------------------- MODULE OAuthProofs ----------------------------
(***************************************************************************)
(* Proofs about the OAuth server, for any sessions, requests, codes,       *)
(* tokens, decisions and exchanges in flight, any scopes, grants, secrets  *)
(* and editors, and for any bounds.  The authorization of a client and     *)
(* each of the three registries has an inductive invariant of its own;     *)
(* OAuthInv puts them together along MCOAuth.                              *)
(***************************************************************************)
EXTENDS MCOAuth, FiniteSetTheorems, TLAPS

-----------------------------------------------------------------------------
(* From an authorization request to an access token.                         *)

CodeRow == [status : {"unused", "outstanding", "consumed", "expired"},
            request : Single \cup {None}, session : Pair \cup {None}, born : Nat]
TokenRow == [status : {"unused", "live", "revoked", "expired"}, code : Couple \cup {None}]
DecisionState == [pc : {"idle", "authorized", "approving"},
                  request : Single \cup {None}, session : Pair \cup {None}]
ExchangeState == [pc : {"idle", "authenticated", "signing"}, code : Couple \cup {None}]

\* What the rest of the invariant needs of the types.
AuthTypes ==
  /\ request \in [Single -> {"unused", "pending", "approved", "denied", "expired"}]
  /\ code \in [Couple -> CodeRow]
  /\ token \in [Couple -> TokenRow]
  /\ decider \in [Pair -> DecisionState]
  /\ exchanger \in [Pair -> ExchangeState]
  /\ resets \in Nat

\* The request a decision works on is a row; while it approves, the request is
\* pending and no other decision approves it.
DecidersInv ==
  /\ \A d \in Pair : decider[d].pc # "idle" => decider[d].request \in Single
  /\ \A d \in Pair : decider[d].pc = "approving" => request[decider[d].request] = "pending"
  /\ \A d, e \in Pair :
       /\ decider[d].pc = "approving" /\ decider[e].pc = "approving"
       /\ decider[d].request = decider[e].request
       => d = e

\* A code was given for an approved request, and no other code was.
CodesInv ==
  /\ \A c \in Couple : code[c].status # "unused" =>
       code[c].request \in Single /\ request[code[c].request] = "approved"
  /\ \A c, k \in Couple :
       /\ code[c].status # "unused" /\ code[k].status # "unused"
       /\ code[c].request = code[k].request
       => c = k

\* An exchange that signs is alone with its code and no token has it yet.
ExchangersInv ==
  /\ \A x \in Pair : exchanger[x].pc = "signing" =>
       /\ exchanger[x].code \in Couple /\ code[exchanger[x].code].status # "unused"
       /\ \A t \in Couple : token[t].code # exchanger[x].code
  /\ \A x, y \in Pair :
       /\ exchanger[x].pc = "signing" /\ exchanger[y].pc = "signing"
       /\ exchanger[x].code = exchanger[y].code
       => x = y

\* A token was given for a consumed code, and no other token was.
TokensInv ==
  /\ \A t \in Couple :
       /\ token[t].status = "unused" => token[t].code = None
       /\ token[t].status # "unused" =>
            token[t].code \in Couple /\ code[token[t].code].status = "consumed"
  /\ \A t, u \in Couple :
       /\ token[t].status # "unused" /\ token[u].status # "unused"
       /\ token[t].code = token[u].code
       => t = u

\* Whatever can still become or be an access is younger than the last reset; a
\* reset in progress has all tokens there are in its list.
ResetInv ==
  /\ \A c \in Couple : code[c].status = "outstanding" => code[c].born = resets
  /\ \A x \in Pair : exchanger[x].pc = "signing" => code[exchanger[x].code].born = resets
  /\ \A t \in Couple : token[t].status = "live" => code[token[t].code].born = resets
  /\ reset = "tokens_revoked" => \A t \in Couple : token[t].status = "live" => t \in doomed

AuthInv == AuthTypes /\ DecidersInv /\ CodesInv /\ ExchangersInv /\ TokensInv /\ ResetInv

LEMMA NoneOutside == None \notin Single \cup Couple /\ None \notin Pair
BY OAuthConstants DEF OAuthConstants, A!OAuthAssumption

LEMMA AuthInit == A!Init => AuthInv
BY NoneOutside DEF A!Init, A!NoCode, A!NoToken, A!Idle, A!IdleExchange, AuthInv, AuthTypes, CodeRow, TokenRow,
  DecisionState, ExchangeState, DecidersInv, CodesInv, ExchangersInv, TokensInv, ResetInv

\* Tokens are only revoked and expire.
TokensEnd ==
  /\ token' \in [Couple -> TokenRow]
  /\ \A t \in Couple :
       \/ token'[t] = token[t]
       \/ /\ token[t].status # "unused" /\ token'[t].status \notin {"unused", "live"}
          /\ token'[t].code = token[t].code

LEMMA AuthTokensEnd ==
  ASSUME AuthInv, TokensEnd, 
         UNCHANGED <<request, code, decider, exchanger, reset, doomed, resets>>
  PROVE  AuthInv'
<1>1. AuthTypes' /\ DecidersInv' /\ CodesInv'
  BY DEF AuthInv, AuthTypes, TokensEnd, DecidersInv, CodesInv
<1>2. \A t \in Couple : /\ token'[t].code = token[t].code
                        /\ token'[t].status = "unused" <=> token[t].status = "unused"
                        /\ token'[t].status = "live" => token[t].status = "live"
  BY DEF TokensEnd
<1>3. ExchangersInv' /\ TokensInv' /\ ResetInv'
  BY <1>2 DEF AuthInv, ExchangersInv, TokensInv, ResetInv
<1> QED
  BY <1>1, <1>3 DEF AuthInv

LEMMA RevokeEnds ==
  ASSUME AuthTypes, NEW T, A!Revoke(T)
  PROVE  TokensEnd
BY DEF A!Revoke, A!LiveTokens, AuthTypes, TokenRow, TokensEnd

LEMMA AuthDecide ==
  ASSUME AuthInv, NEW d \in Pair, A!Decide(d)
  PROVE  AuthInv'
<1> USE NoneOutside DEF AuthInv
<1>1. CASE \E r \in Single, s \in Pair : A!BeginDecision(d, r, s)
  <2>1. PICK r \in Single, s \in Pair : A!BeginDecision(d, r, s)
    BY <1>1
  <2>2. /\ decider' = [decider EXCEPT ![d] = [pc |-> "authorized", request |-> r, session |-> s]]
        /\ UNCHANGED <<request, code, token, exchanger, reset, doomed, resets>>
    BY <2>1 DEF A!BeginDecision
  <2>3. AuthTypes' /\ DecidersInv'
    BY <2>2 DEF AuthTypes, DecisionState, DecidersInv
  <2> QED
    BY <2>2, <2>3 DEF CodesInv, ExchangersInv, TokensInv, ResetInv
<1>2. CASE A!Deny(d)
  <2> DEFINE r == decider[d].request
  <2>1. /\ decider[d].pc = "authorized" /\ ~A!RequestLocked(r) /\ request[r] = "pending"
        /\ request' = [request EXCEPT ![r] = "denied"]
        /\ decider' = [decider EXCEPT ![d] = A!Idle]
        /\ UNCHANGED <<code, token, exchanger, reset, doomed, resets>>
    BY <1>2 DEF A!Deny, A!Decidable
  <2>2. AuthTypes'
    BY <2>1 DEF AuthTypes, DecisionState, A!Idle
  <2>3. DecidersInv'
    BY <2>1 DEF AuthTypes, DecisionState, DecidersInv, A!Idle, A!RequestLocked
  <2>4. CodesInv'
    BY <2>1 DEF AuthTypes, CodeRow, DecidersInv, CodesInv
  <2> QED
    BY <2>1, <2>2, <2>3, <2>4 DEF ExchangersInv, TokensInv, ResetInv
<1>3. CASE A!StartApproval(d)
  <2> DEFINE r == decider[d].request
  <2>1. /\ decider[d].pc = "authorized" /\ ~A!RequestLocked(r) /\ request[r] = "pending"
        /\ decider' = [decider EXCEPT ![d].pc = "approving"]
        /\ UNCHANGED <<request, code, token, exchanger, reset, doomed, resets>>
    BY <1>3 DEF A!StartApproval, A!Decidable
  <2>2. AuthTypes'
    BY <2>1 DEF AuthTypes, DecisionState
  <2>3. DecidersInv'
    BY <2>1 DEF AuthTypes, DecisionState, DecidersInv, A!RequestLocked
  <2> QED
    BY <2>1, <2>2, <2>3 DEF CodesInv, ExchangersInv, TokensInv, ResetInv
<1>4. CASE A!AbandonDecision(d)
  <2>1. /\ decider' = [decider EXCEPT ![d] = A!Idle]
        /\ UNCHANGED <<request, code, token, exchanger, reset, doomed, resets>>
    BY <1>4 DEF A!AbandonDecision
  <2>2. AuthTypes' /\ DecidersInv'
    BY <2>1 DEF AuthTypes, DecisionState, DecidersInv, A!Idle
  <2> QED
    BY <2>1, <2>2 DEF CodesInv, ExchangersInv, TokensInv, ResetInv
<1>5. ASSUME NEW c \in Couple, A!Approve(d, c)
      PROVE  AuthInv'
  <2> DEFINE r == decider[d].request
  <2>1. /\ decider[d].pc = "approving" /\ reset = "none" /\ code[c] = A!NoCode
        /\ request' = [request EXCEPT ![r] = "approved"]
        /\ code' = [code EXCEPT ![c] = [status |-> "outstanding", request |-> r,
                                        session |-> decider[d].session, born |-> resets]]
        /\ decider' = [decider EXCEPT ![d] = A!Idle]
        /\ UNCHANGED <<token, exchanger, reset, doomed, resets>>
    BY <1>5 DEF A!Approve, A!MemberLocked, A!NewCode
  <2>2. code[c].status = "unused" /\ r \in Single /\ request[r] = "pending"
    BY <2>1 DEF A!NoCode, DecidersInv
  <2>3. AuthTypes'
    BY <2>1 DEF AuthTypes, DecisionState, CodeRow, A!Idle
  <2>4. DecidersInv'
    BY <2>1, <2>2 DEF AuthTypes, DecisionState, DecidersInv, A!Idle
  <2>5. CodesInv'
    BY <2>1, <2>2 DEF AuthTypes, CodesInv
  <2>6. \A k \in Couple : code[k].status # "unused" => code'[k] = code[k]
    BY <2>1, <2>2 DEF AuthTypes
  <2>7. ExchangersInv' /\ TokensInv'
    BY <2>1, <2>6 DEF ExchangersInv, TokensInv
  <2>8. \A k \in Couple : code'[k].status = "outstanding" => code'[k].born = resets
    BY <2>1 DEF AuthTypes, ResetInv
  <2>9. ResetInv'
    BY <2>1, <2>6, <2>8 DEF ExchangersInv, TokensInv, ResetInv
  <2> QED
    BY <2>3, <2>4, <2>5, <2>7, <2>9
<1> QED
  BY <1>1, <1>2, <1>3, <1>4, <1>5 DEF A!Decide

LEMMA AuthExchange ==
  ASSUME AuthInv, NEW x \in Pair, A!OauthToken(x)
  PROVE  AuthInv'
<1> USE NoneOutside DEF AuthInv
<1>1. CASE A!AuthenticateOAuthClient(x) \/ A!AbandonExchange(x)
  <2>1. /\ exchanger' \in [Pair -> ExchangeState] /\ exchanger'[x].pc # "signing"
        /\ \A y \in Pair \ {x} : exchanger'[y] = exchanger[y]
        /\ UNCHANGED <<request, code, token, decider, reset, doomed, resets>>
    BY <1>1 DEF A!AuthenticateOAuthClient, A!AbandonExchange, A!IdleExchange, AuthTypes,
                ExchangeState
  <2> QED
    BY <2>1 DEF AuthTypes, DecidersInv, CodesInv, ExchangersInv, TokensInv, ResetInv
<1>2. ASSUME NEW c \in Couple, A!LockCode(x, c)
      PROVE  AuthInv'
  <2>1. /\ code[c].status = "outstanding" /\ ~A!CodeLocked(c)
        /\ exchanger' = [exchanger EXCEPT ![x] = [pc |-> "signing", code |-> c]]
        /\ UNCHANGED <<request, code, token, decider, reset, doomed, resets>>
    BY <1>2 DEF A!LockCode, A!CodeUsable
  <2>2. AuthTypes'
    BY <2>1 DEF AuthTypes, ExchangeState
  <2>3. \A t \in Couple : token[t].code # c
    BY <2>1 DEF AuthTypes, TokenRow, TokensInv
  <2>4. ExchangersInv'
    BY <2>1, <2>3 DEF AuthTypes, ExchangersInv, A!CodeLocked
  <2>5. ResetInv'
    BY <2>1 DEF AuthTypes, ResetInv
  <2> QED
    BY <2>1, <2>2, <2>4, <2>5 DEF DecidersInv, CodesInv, TokensInv
<1>3. ASSUME NEW t \in Couple, A!IssueToken(x, t)
      PROVE  AuthInv'
  <2> DEFINE c == exchanger[x].code
  <2>1. /\ exchanger[x].pc = "signing" /\ reset = "none" /\ token[t] = A!NoToken
        /\ code' = [code EXCEPT ![c].status = "consumed"]
        /\ token' = [token EXCEPT ![t] = [status |-> "live", code |-> c]]
        /\ exchanger' = [exchanger EXCEPT ![x] = A!IdleExchange]
        /\ UNCHANGED <<request, decider, reset, doomed, resets>>
    BY <1>3 DEF A!IssueToken, A!MemberShareable, A!MemberLocked
  <2>2. /\ c \in Couple /\ code[c].status # "unused" /\ code[c].born = resets
        /\ \A u \in Couple : token[u].code # c
    BY <2>1 DEF ExchangersInv, ResetInv
  <2>3. AuthTypes'
    <3>1. code' \in [Couple -> CodeRow]
      BY <2>1 DEF AuthTypes, CodeRow
    <3>2. token' \in [Couple -> TokenRow] /\ exchanger' \in [Pair -> ExchangeState]
      BY <2>1, <2>2 DEF AuthTypes, TokenRow, ExchangeState, A!IdleExchange
    <3> QED
      BY <2>1, <3>1, <3>2 DEF AuthTypes
  <2>4. /\ \A k \in Couple : /\ code'[k].request = code[k].request
                             /\ code'[k].born = code[k].born
                             /\ code'[k].status = IF k = c THEN "consumed" ELSE code[k].status
        /\ \A u \in Couple : token'[u] = IF u = t THEN [status |-> "live", code |-> c] ELSE token[u]
        /\ \A y \in Pair : exchanger'[y] = IF y = x THEN A!IdleExchange ELSE exchanger[y]
    BY <2>1, <2>2 DEF AuthTypes, CodeRow
  <2>5. DecidersInv' /\ CodesInv'
    BY <2>1, <2>2, <2>4 DEF DecidersInv, CodesInv
  <2>6. ExchangersInv'
    BY <2>1, <2>2, <2>4 DEF ExchangersInv, A!IdleExchange
  <2>7. TokensInv'
    BY <2>1, <2>2, <2>4 DEF TokensInv
  <2>8. ResetInv'
    BY <2>1, <2>2, <2>4 DEF ResetInv, ExchangersInv, TokensInv, A!IdleExchange
  <2> QED
    BY <2>3, <2>5, <2>6, <2>7, <2>8
<1> QED
  BY <1>1, <1>2, <1>3 DEF A!OauthToken

LEMMA AuthReset ==
  ASSUME AuthInv, A!StartReset \/ A!ResetTokens \/ A!FinishReset \/ A!AbortReset
  PROVE  AuthInv'
<1> USE DEF AuthInv
<1>1. CASE A!StartReset \/ A!AbortReset
  BY <1>1 DEF A!StartReset, A!AbortReset, AuthTypes, DecidersInv, CodesInv, ExchangersInv,
              TokensInv, ResetInv
<1>2. CASE A!ResetTokens
  BY <1>2 DEF A!ResetTokens, A!LiveTokens, AuthTypes, DecidersInv, CodesInv, ExchangersInv,
              TokensInv, ResetInv
<1>3. CASE A!FinishReset
  <2>1. /\ reset = "tokens_revoked" /\ reset' = "none" /\ resets' = resets + 1
        /\ \A k \in Couple : ~A!CodeLocked(k)
        /\ A!Revoke(doomed)
        /\ code' = [k \in Couple |-> IF code[k].status = "outstanding"
                     THEN [code[k] EXCEPT !.status = "consumed"] ELSE code[k]]
        /\ UNCHANGED <<request, decider, exchanger>>
    BY <1>3 DEF A!FinishReset
  <2>2. TokensEnd /\ \A t \in Couple : token'[t].status # "live"
    <3>1. TokensEnd
      BY <2>1, RevokeEnds
    <3>2. ASSUME NEW t \in Couple, token[t].status = "live"
          PROVE  token'[t].status = "revoked"
      BY <2>1, <3>2 DEF A!Revoke, A!LiveTokens, AuthTypes, TokenRow, ResetInv
    <3> QED
      BY <3>1, <3>2 DEF TokensEnd
  <2>3. \A y \in Pair : exchanger[y].pc # "signing"
    BY <2>1 DEF A!CodeLocked, ExchangersInv
  <2>4. \A k \in Couple :
          /\ code'[k] \in CodeRow
          /\ code'[k].request = code[k].request
          /\ code'[k].status = IF code[k].status = "outstanding" THEN "consumed" ELSE code[k].status
    BY <2>1 DEF AuthTypes, CodeRow
  <2>5. AuthTypes' /\ DecidersInv'
    BY <2>1, <2>2, <2>4 DEF AuthTypes, TokensEnd, DecidersInv
  <2>6. CodesInv'
    BY <2>1, <2>4 DEF CodesInv
  <2>7. ExchangersInv' /\ ResetInv'
    BY <2>1, <2>2, <2>3, <2>4 DEF ExchangersInv, ResetInv, AuthTypes, CodeRow
  <2>8. TokensInv'
    BY <2>2, <2>4 DEF TokensInv, TokensEnd
  <2> QED
    BY <2>5, <2>6, <2>7, <2>8
<1> QED
  BY <1>1, <1>2, <1>3

LEMMA AuthNext ==
  ASSUME AuthInv, A!Next
  PROVE  AuthInv'
<1>1. ASSUME NEW r \in Single, A!AuthorizeRequest(r) \/ A!ExpireRequest(r)
      PROVE  AuthInv'
  <2>1. /\ request[r] \in {"unused", "pending"} /\ request'[r] # "approved"
        /\ \A d \in Pair : ~(decider[d].pc = "approving" /\ decider[d].request = r)
        /\ request' \in [Single -> {"unused", "pending", "approved", "denied", "expired"}]
        /\ \A q \in Single \ {r} : request'[q] = request[q]
        /\ UNCHANGED <<code, token, decider, exchanger, reset, doomed, resets>>
    BY <1>1 DEF A!AuthorizeRequest, A!ExpireRequest, A!RequestLocked, AuthInv, AuthTypes,
                DecidersInv
  <2>2. AuthTypes' /\ DecidersInv' /\ CodesInv'
    BY <2>1 DEF AuthInv, AuthTypes, DecidersInv, CodesInv
  <2> QED
    BY <2>1, <2>2 DEF AuthInv, ExchangersInv, TokensInv, ResetInv
<1>2. ASSUME NEW c \in Couple, A!ExpireCode(c)
      PROVE  AuthInv'
  <2>1. /\ code[c].status = "outstanding"
        /\ code' = [code EXCEPT ![c].status = "expired"]
        /\ UNCHANGED <<request, token, decider, exchanger, reset, doomed, resets>>
    BY <1>2 DEF A!ExpireCode
  <2>2. /\ AuthTypes'
        /\ \A k \in Couple : /\ code'[k].request = code[k].request
                             /\ code'[k].born = code[k].born
                             /\ code'[k].status = IF k = c THEN "expired" ELSE code[k].status
    BY <2>1 DEF AuthInv, AuthTypes, CodeRow
  <2>3. DecidersInv' /\ CodesInv'
    BY <2>1, <2>2 DEF AuthInv, DecidersInv, CodesInv
  <2>4. ExchangersInv' /\ TokensInv' /\ ResetInv'
    BY <2>1, <2>2 DEF AuthInv, ExchangersInv, TokensInv, ResetInv
  <2> QED
    BY <2>2, <2>3, <2>4 DEF AuthInv
<1>3. ASSUME NEW t \in Couple, A!OauthRevoke(t) \/ A!ExpireToken(t)
      PROVE  AuthInv'
  <2>1. TokensEnd /\ UNCHANGED <<request, code, decider, exchanger, reset, doomed, resets>>
    BY <1>3 DEF A!OauthRevoke, A!ExpireToken, AuthInv, AuthTypes, TokenRow, TokensEnd
  <2> QED
    BY <2>1, AuthTokensEnd
<1>4. CASE \/ A!RevokeOAuthConsent
           \/ \E status \in {"active", "disabled"} : A!SetApplication(status)
           \/ \E g \in BOOLEAN : A!SetGranted(g)
  <2>1. /\ A!Revoke(Couple) \/ UNCHANGED token
        /\ UNCHANGED <<request, code, decider, exchanger, reset, doomed, resets>>
    BY <1>4 DEF A!RevokeOAuthConsent, A!SetApplication, A!SetGranted
  <2>2. TokensEnd
    BY <2>1, RevokeEnds DEF AuthInv, AuthTypes, TokensEnd
  <2> QED
    BY <2>1, <2>2, AuthTokensEnd
<1>5. CASE \/ \E s \in Pair : A!Login(s) \/ A!Logout(s)
           \/ \E status \in {"active", "disabled"} : A!SetMember(status)
  <2>1. UNCHANGED <<request, code, token, decider, exchanger, reset, doomed, resets>>
    BY <1>5 DEF A!Login, A!Logout, A!SetMember
  <2> QED
    BY <2>1, AuthTokensEnd DEF TokensEnd, AuthInv, AuthTypes
<1> QED
  BY <1>1, <1>2, <1>3, <1>4, <1>5, AuthDecide, AuthExchange, AuthReset DEF A!Next

LEMMA AuthOneToken == AuthInv => A!OneTokenPerRequest
<1> SUFFICES ASSUME AuthInv, NEW t \in Couple, NEW u \in Couple,
                    token[t] # A!NoToken, token[u] # A!NoToken,
                    A!TokenRequest(t) = A!TokenRequest(u)
             PROVE  t = u
  BY DEF A!OneTokenPerRequest
<1>1. token[t].status # "unused" /\ token[u].status # "unused"
  BY DEF AuthInv, AuthTypes, TokenRow, TokensInv, A!NoToken
<1>2. token[t].code = token[u].code
  BY <1>1 DEF A!TokenRequest, AuthInv, TokensInv, CodesInv
<1> QED
  BY <1>1, <1>2 DEF AuthInv, TokensInv

LEMMA AuthResetCuts == AuthInv => A!ResetCutsExchanges
BY DEF AuthInv, ResetInv, A!ResetCutsExchanges, A!Accepted

-----------------------------------------------------------------------------
(* Client secrets.                                                           *)

SecretCounts ==
  /\ IsFiniteSet(Clients!ActiveSecrets)
  /\ Cardinality(Clients!ActiveSecrets) <= 2
  /\ row[App].status = "deleted" => Clients!ActiveSecrets = {}

\* A request that has counted holds the application, alone: it is active and
\* has room for one more secret.
ClientsInv ==
  /\ row = [x \in Clients!Objects |-> row[x]]
  /\ secret \in [Kids -> {"unused", "active", "expired", "revoked"}]
  /\ handler = [h \in Pair |-> handler[h]]
  /\ \A h \in Pair : handler[h].pc \in {"idle", "secret"}
  /\ SecretCounts
  /\ \A h \in Pair : handler[h].pc = "secret" =>
       /\ handler[h].of = App /\ row[App].status = "active"
       /\ Cardinality(Clients!ActiveSecrets) < 2
  /\ \A h, g \in Pair : handler[h].pc = "secret" /\ handler[g].pc = "secret" => h = g

LEMMA SecretCardinality == Clients!Cardinality(Clients!ActiveSecrets) = Cardinality(Clients!ActiveSecrets)
BY DEF Clients!Cardinality, Cardinality

LEMMA ClientsInit == Clients!Init => ClientsInv
<1> SUFFICES ASSUME Clients!Init PROVE ClientsInv
  OBVIOUS
<1>1. Clients!ActiveSecrets = {}
  BY DEF Clients!Init, Clients!ActiveSecrets
<1> QED
  BY <1>1, FS_EmptySet DEF Clients!Init, Clients!Idle, Clients!NoRow, Clients!Objects, ClientsInv, SecretCounts

\* Secrets that end, or nothing happens to them, while no request that has
\* counted loses the application.
LEMMA SecretsEnd ==
  ASSUME ClientsInv,
         row' = [x \in Clients!Objects |-> row'[x]],
         secret' \in [Kids -> {"unused", "active", "expired", "revoked"}],
         \A k \in Kids : secret'[k] = "active" => secret[k] = "active",
         row'[App].status = "deleted" =>
            row[App].status = "deleted" \/ \A k \in Kids : secret'[k] # "active",
         row'[App].status = row[App].status \/ ~Clients!Locked(App),
         handler' = handler
  PROVE  ClientsInv'
<1> DEFINE S == Clients!ActiveSecrets
<1>1. S' \subseteq S
  BY DEF Clients!ActiveSecrets
<1>2. IsFiniteSet(S') /\ Cardinality(S') <= Cardinality(S) /\ Cardinality(S) \in Nat /\ Cardinality(S') \in Nat
  BY <1>1, FS_Subset, FS_CardinalityType DEF ClientsInv, SecretCounts
<1>3. SecretCounts'
  BY <1>1, <1>2 DEF ClientsInv, SecretCounts, Clients!ActiveSecrets
<1>4. \A h \in Pair : handler[h].pc = "secret" => row'[App].status = row[App].status
  BY DEF ClientsInv, Clients!Locked
<1> QED
  BY <1>2, <1>3, <1>4 DEF ClientsInv

LEMMA ClientsNext ==
  ASSUME ClientsInv, Clients!Next
  PROVE  ClientsInv'
<1> DEFINE S == Clients!ActiveSecrets
<1> USE OAuthConstants DEF OAuthConstants, Clients!RegistryAssumption
<1>1. CASE \/ Clients!CreateOAuthApplication
           \/ \E e \in Couple, status \in Clients!Status : Clients!UpdateOAuthApplication(e, status)
  <2>1. /\ handler' = handler /\ secret' = secret
        /\ row' = [row EXCEPT ![App] = row'[App]] /\ row'[App].status \in Clients!Status
        /\ row[App].status = "unused" \/ ~Clients!Locked(App)
    BY <1>1 DEF Clients!CreateOAuthApplication, Clients!UpdateOAuthApplication, Clients!SetRow,
                Clients!MayChange, Clients!NewRow, Clients!NoRow, Clients!Status, Clients!Objects,
                ClientsInv
  <2>2. ~Clients!Locked(App)
    BY <2>1 DEF Clients!Locked, ClientsInv
  <2> QED
    BY <2>1, <2>2, SecretsEnd DEF Clients!Status, ClientsInv
<1>5. ASSUME NEW e \in Couple, Clients!DeleteOAuthApplication(e)
      PROVE  ClientsInv'
  <2>1. /\ handler' = handler /\ ~Clients!Locked(App)
        /\ row' = [row EXCEPT ![App] = row'[App]]
        /\ secret' = [k \in Kids |-> IF secret[k] = "unused" THEN "unused" ELSE "revoked"]
    BY <1>5 DEF Clients!DeleteOAuthApplication, Clients!SetRow, Clients!MayChange, Clients!Objects,
                ClientsInv
  <2> QED
    BY <2>1, SecretsEnd DEF ClientsInv
<1>6. CASE \/ Clients!CreateResourceServer
           \/ \E e \in Couple, status \in Clients!Status : Clients!UpdateResourceServer(e, status)
           \/ \E e \in Couple : Clients!DeleteResourceServer(e)
  <2>1. /\ handler' = handler /\ secret' = secret
        /\ row' = [row EXCEPT ![Server] = row'[Server]]
    BY <1>6 DEF Clients!CreateResourceServer, Clients!UpdateResourceServer,
                Clients!DeleteResourceServer, Clients!SetRow, Clients!Objects, ClientsInv
  <2>2. row'[App] = row[App] /\ row' = [x \in Clients!Objects |-> row'[x]]
    BY <2>1 DEF Clients!Objects, ClientsInv
  <2> QED
    BY <2>1, <2>2, SecretsEnd DEF ClientsInv
<1>7. CASE \/ \E e \in Couple, x \in Clients!Objects : Clients!Read(e, x)
           \/ \E k \in Kids : Clients!RevokeOAuthClientSecret(k) \/ Clients!ExpireSecret(k)
  <2>1. /\ handler' = handler /\ row' = row
        /\ secret' \in [Kids -> {"unused", "active", "expired", "revoked"}]
        /\ \A k \in Kids : secret'[k] = "active" => secret[k] = "active"
    BY <1>7 DEF Clients!Read, Clients!RevokeOAuthClientSecret, Clients!ExpireSecret, ClientsInv
  <2> QED
    BY <2>1, SecretsEnd DEF ClientsInv
<1>2. ASSUME NEW h \in Pair, Clients!CountSecrets(h)
      PROVE  ClientsInv'
  <2>1. /\ row[App].status = "active" /\ ~Clients!Locked(App)
        /\ Cardinality(S) < 2
        /\ handler' = [handler EXCEPT ![h] = [Clients!Idle EXCEPT !.pc = "secret"]]
        /\ row' = row /\ secret' = secret
    BY <1>2, SecretCardinality
       DEF Clients!CountSecrets, Clients!SecretAllowed, Clients!Active, Clients!SecretLimit
  <2>2. \A g \in Pair : handler[g].pc # "secret"
    BY <2>1 DEF Clients!Locked, ClientsInv
  <2>3. S' = S
    BY <2>1 DEF Clients!ActiveSecrets
  <2> QED
    BY <2>1, <2>2, <2>3 DEF ClientsInv, SecretCounts, Clients!Idle
<1>3. ASSUME NEW h \in Pair, NEW k \in Kids, Clients!InsertSecret(h, k)
      PROVE  ClientsInv'
  <2>1. /\ handler[h].pc = "secret" /\ secret[k] = "unused"
        /\ secret' = [secret EXCEPT ![k] = "active"]
        /\ handler' = [handler EXCEPT ![h] = Clients!Idle]
        /\ row' = row
    BY <1>3 DEF Clients!InsertSecret
  <2>2. S' = S \cup {k}
    BY <2>1 DEF Clients!ActiveSecrets, ClientsInv
  <2>3. IsFiniteSet(S) /\ Cardinality(S) < 2 /\ row[App].status = "active"
    BY <2>1 DEF ClientsInv, SecretCounts
  <2>4. IsFiniteSet(S') /\ Cardinality(S') <= 2
    <3>1. /\ Cardinality(S) \in Nat
          /\ IsFiniteSet(S \cup {k}) /\ Cardinality(S \cup {k}) \in {Cardinality(S), Cardinality(S) + 1}
      BY <2>3, FS_AddElement, FS_CardinalityType
    <3> QED
      BY <2>2, <2>3, <3>1
  <2> QED
    BY <2>1, <2>3, <2>4 DEF ClientsInv, SecretCounts, Clients!Idle
<1>4. ASSUME NEW h \in Pair, Clients!Abandon(h)
      PROVE  ClientsInv'
  <2>1. /\ row' = row /\ secret' = secret
        /\ handler' = [handler EXCEPT ![h] = Clients!Idle]
    BY <1>4 DEF Clients!Abandon
  <2>2. S' = S
    BY <2>1 DEF Clients!ActiveSecrets
  <2> QED
    BY <2>1, <2>2 DEF ClientsInv, SecretCounts, Clients!Idle
<1>8. ASSUME NEW h \in Pair, Clients!Handle(h)
      PROVE  \/ Clients!CountSecrets(h) \/ \E k \in Kids : Clients!InsertSecret(h, k)
             \/ Clients!Abandon(h)
  BY <1>8 DEF Clients!Handle, Clients!ValidateGrant, Clients!GrantResourcesValid,
              Clients!ResolveScopes, Clients!UpdateOAuthApplicationGrant, Clients!Decide,
              Clients!CreateAuthorizationDecision, Clients!CreateAccessEvaluation, ClientsInv
<1>9. ~Clients!RemoveMember /\ \A status \in Clients!Status : ~Clients!SetMember(status)
  BY DEF Clients!RemoveMember, Clients!SetMember
<1> QED
  BY <1>1, <1>2, <1>3, <1>4, <1>5, <1>6, <1>7, <1>8, <1>9 DEF Clients!Next, Clients!Edit

LEMMA ClientsBounded == ClientsInv => Clients!SecretsBounded
BY SecretCardinality DEF ClientsInv, SecretCounts, Clients!SecretsBounded, Clients!SecretLimit

-----------------------------------------------------------------------------
(* Decisions and policy_version.                                             *)

\* The grants allow scope s, whatever the state of the application and the member.
Allowed(s) ==
  Policy!Active(Server) /\ Policy!Active(s) /\ \E g \in Couple : Policy!Active(g) /\ s \in row[g].scopes

DelegatedToken == [status : {"unused", "live", "revoked"}, scopes : SUBSET ScopeRows]

\* What a request remembers: scopes, a version, and the grant that it holds.
Remembers(state) ==
  /\ state.scopes \subseteq ScopeRows
  /\ state.label \in Nat
  /\ state.pc = "grant_update" => state.of \in Couple

PolicyTypes ==
  /\ row = [x \in Policy!Objects |-> row[x]]
  /\ token \in [Single -> DelegatedToken]
  /\ handler = [h \in Pair |-> handler[h]] /\ decision = [h \in Pair |-> decision[h]]
  /\ \A h \in Pair : Remembers(handler[h])
  /\ policy \in Nat

\* No decision carries a version that is still to come, and what a decision
\* allowed is allowed by the grants while policy_version is the one it carries.
\* The application and the member are left out: they can be disabled and enabled
\* again without a count.
DecisionsInv ==
  \A h \in Pair :
    /\ handler[h].label <= policy
    /\ decision[h].label \in Nat /\ decision[h].label <= policy
    /\ decision[h].label = policy =>
         \A s \in decision[h].capabilities :
            s \in ScopeRows \cap decision[h].scopes /\ Allowed(s)

\* As long as there is no resource server nothing has been counted and no scope
\* or grant is there, so that createResourceServer may set 1.
UncountedInv ==
  row[Server].status = "unused" =>
    /\ policy = 0
    /\ \A h \in Pair : handler[h].pc \notin {"grant_create", "grant_update"}
    /\ \A x \in ScopeRows \cup Couple : row[x].status = "unused"

PolicyInv == PolicyTypes /\ DecisionsInv /\ UncountedInv

LEMMA PolicyInit == Policy!Init => PolicyInv
BY DEF Policy!Init, Policy!Idle, Policy!NoRow, Policy!NoDecision, Policy!Objects, PolicyInv,
       PolicyTypes, Remembers, DelegatedToken, DecisionsInv, UncountedInv

LEMMA PolicyRevoke ==
  ASSUME PolicyTypes, NEW T, Policy!Revoke(T)
  PROVE  token' \in [Single -> DelegatedToken]
BY DEF Policy!Revoke, PolicyTypes, DelegatedToken

\* Every change but one of the application counts policy_version up.
LEMMA PolicyCounts ==
  ASSUME PolicyInv,
         row' = [x \in Policy!Objects |-> row'[x]],
         token' \in [Single -> DelegatedToken],
         policy' = policy + 1,
         row[Server].status # "unused", row'[Server].status # "unused",
         handler' = [h \in Pair |-> handler'[h]],
         \A h \in Pair : Remembers(handler'[h]) /\ handler'[h].label <= policy,
         decision' = decision
  PROVE  PolicyInv'
<1>1. PolicyTypes' /\ UncountedInv'
  BY DEF PolicyInv, PolicyTypes, UncountedInv
<1>2. \A h \in Pair : handler'[h].label \in Nat
  BY DEF Remembers
<1> QED
  BY <1>1, <1>2 DEF PolicyInv, PolicyTypes, DecisionsInv

LEMMA PolicyHandlers ==
  ASSUME PolicyInv, NEW h \in Pair, NEW state, Remembers(state), state.label <= policy,
         handler' = [handler EXCEPT ![h] = state]
  PROVE  /\ handler' = [k \in Pair |-> handler'[k]] /\ handler'[h] = state
         /\ \A k \in Pair : Remembers(handler'[k]) /\ handler'[k].label <= policy
<1>1. handler' = [k \in Pair |-> IF k = h THEN state ELSE handler[k]]
  BY DEF PolicyInv, PolicyTypes
<1> QED
  BY <1>1 DEF PolicyInv, PolicyTypes, DecisionsInv

\* A step that leaves the resource server, the scopes and the grants alone.
LEMMA PolicyKeeps ==
  ASSUME PolicyInv,
         row' = [x \in Policy!Objects |-> row'[x]],
         \A x \in Policy!Objects \ {App} : row'[x] = row[x],
         token' \in [Single -> DelegatedToken],
         policy' = policy,
         handler' = [h \in Pair |-> handler'[h]],
         decision' = [h \in Pair |-> decision'[h]],
         \A h \in Pair :
            /\ Remembers(handler'[h]) /\ handler'[h].label <= policy
            /\ \/ handler'[h].pc \notin {"grant_create", "grant_update"}
               \/ row[Server].status # "unused"
            /\ \/ decision'[h] = decision[h]
               \/ /\ decision'[h].label \in 0..policy
                  /\ \A s \in decision'[h].capabilities :
                       s \in ScopeRows \cap decision'[h].scopes /\ Allowed(s)
  PROVE  PolicyInv'
<1> USE OAuthConstants DEF OAuthConstants, Policy!RegistryAssumption
<1>1. row'[Server] = row[Server] /\ \A x \in ScopeRows \cup Couple : row'[x] = row[x]
  BY DEF Policy!Objects
<1>2. \A s \in ScopeRows : Allowed(s)' = Allowed(s)
  BY <1>1 DEF Allowed, Policy!Active
<1>3. PolicyTypes'
  BY DEF PolicyInv, PolicyTypes
<1>5. UncountedInv'
  <2> SUFFICES ASSUME row'[Server].status = "unused"
               PROVE  /\ policy' = 0
                      /\ \A h \in Pair : handler'[h].pc \notin {"grant_create", "grant_update"}
                      /\ \A x \in ScopeRows \cup Couple : row'[x].status = "unused"
    BY DEF UncountedInv
  <2> QED
    BY <1>1 DEF PolicyInv, UncountedInv
<1>4. DecisionsInv'
  BY <1>2 DEF PolicyInv, PolicyTypes, DecisionsInv
<1> QED
  BY <1>3, <1>4, <1>5 DEF PolicyInv

LEMMA PolicyEdit ==
  ASSUME PolicyInv, NEW e \in Single, Policy!Edit(e)
  PROVE  PolicyInv'
<1> USE OAuthConstants DEF OAuthConstants, Policy!RegistryAssumption
<1>1. ASSUME NEW x \in Policy!Objects, Policy!Read(e, x)
      PROVE  PolicyInv'
  BY <1>1, PolicyKeeps DEF Policy!Read, PolicyInv, PolicyTypes, DecisionsInv, UncountedInv
<1>2. CASE \/ \E status \in Policy!Status : Policy!UpdateOAuthApplication(e, status)
           \/ Policy!DeleteOAuthApplication(e)
  <2>1. /\ row' = [row EXCEPT ![App] = row'[App]]
        /\ Policy!Revoke(Single) \/ token' = token
        /\ UNCHANGED <<policy, handler, decision>>
    BY <1>2 DEF Policy!UpdateOAuthApplication, Policy!DeleteOAuthApplication, Policy!SetRow,
                Policy!Objects, PolicyInv, PolicyTypes
  <2>2. token' \in [Single -> DelegatedToken]
    BY <2>1, PolicyRevoke DEF PolicyInv, PolicyTypes
  <2> QED
    BY <2>1, <2>2, PolicyKeeps DEF PolicyInv, PolicyTypes, DecisionsInv, UncountedInv
<1>3. ASSUME NEW x \in {Server} \cup ScopeRows \cup Couple,
             NEW status \in {"active", "disabled", "deleted"}, NEW S, NEW T,
             Policy!MayChange(e, x), Policy!Bump, Policy!SetRow(x, status, S),
             Policy!Revoke(T) \/ token' = token, UNCHANGED <<handler, decision>>
      PROVE  PolicyInv'
  <2>1. row[x].status \in Policy!Status
    BY <1>3 DEF Policy!MayChange, Policy!Matches, Policy!Exists
  <2>2. row[Server].status # "unused"
    BY <2>1 DEF Policy!Status, PolicyInv, UncountedInv
  <2>3. row'[Server].status # "unused" /\ row' = [y \in Policy!Objects |-> row'[y]]
    BY <1>3, <2>2 DEF Policy!SetRow, Policy!Objects, PolicyInv, PolicyTypes
  <2>4. token' \in [Single -> DelegatedToken]
    BY <1>3, PolicyRevoke DEF PolicyInv, PolicyTypes
  <2> QED
    BY <1>3, <2>2, <2>3, <2>4, PolicyCounts DEF Policy!Bump, PolicyInv, PolicyTypes, DecisionsInv
<1>4. CASE \/ \E status \in Policy!Status : Policy!UpdateResourceServer(e, status)
           \/ Policy!DeleteResourceServer(e)
  BY <1>3, <1>4 DEF Policy!UpdateResourceServer, Policy!DeleteResourceServer, Policy!Status
<1>5. ASSUME NEW s \in ScopeRows,
             \/ \E status \in Policy!Status : Policy!UpdateResourceServerScope(e, s, status)
             \/ Policy!DeleteResourceServerScope(e, s)
      PROVE  PolicyInv'
  BY <1>3, <1>5 DEF Policy!UpdateResourceServerScope, Policy!DeleteResourceServerScope, Policy!Status
<1>6. ASSUME NEW g \in Couple, Policy!DeleteOAuthApplicationGrant(e, g)
      PROVE  PolicyInv'
  BY <1>3, <1>6 DEF Policy!DeleteOAuthApplicationGrant
<1> QED
  BY <1>1, <1>2, <1>4, <1>5, <1>6 DEF Policy!Edit

LEMMA PolicyHandle ==
  ASSUME PolicyInv, NEW h \in Pair, Policy!Handle(h)
  PROVE  PolicyInv'
<1> USE OAuthConstants DEF OAuthConstants, Policy!RegistryAssumption
\* A step of the request that changes no row.
<1>1. ASSUME UNCHANGED <<row, policy>>, token' \in [Single -> DelegatedToken],
             handler' = [handler EXCEPT ![h] = handler'[h]],
             Remembers(handler'[h]), handler'[h].label <= policy,
             \/ handler'[h].pc \notin {"grant_create", "grant_update"}
             \/ row[Server].status # "unused",
             decision' = [decision EXCEPT ![h] = decision'[h]],
             \/ decision'[h] = decision[h]
             \/ /\ decision'[h].label \in 0..policy
                /\ \A s \in decision'[h].capabilities :
                     s \in ScopeRows \cap decision'[h].scopes /\ Allowed(s)
      PROVE  PolicyInv'
  <2>1. \A g \in Pair \ {h} : handler'[g] = handler[g] /\ decision'[g] = decision[g]
    BY <1>1 DEF PolicyInv, PolicyTypes
  <2>2. /\ handler' = [g \in Pair |-> handler'[g]]
        /\ decision' = [g \in Pair |-> decision'[g]]
        /\ row' = [x \in Policy!Objects |-> row'[x]]
        /\ \A x \in Policy!Objects \ {App} : row'[x] = row[x]
    BY <1>1 DEF PolicyInv, PolicyTypes
  <2>3. ASSUME NEW g \in Pair
        PROVE  /\ Remembers(handler'[g]) /\ handler'[g].label <= policy
               /\ \/ handler'[g].pc \notin {"grant_create", "grant_update"}
                  \/ row[Server].status # "unused"
               /\ \/ decision'[g] = decision[g]
                  \/ /\ decision'[g].label \in 0..policy
                     /\ \A s \in decision'[g].capabilities :
                          s \in ScopeRows \cap decision'[g].scopes /\ Allowed(s)
    BY <1>1, <2>1 DEF PolicyInv, PolicyTypes, DecisionsInv, UncountedInv
  <2> QED
    BY <1>1, <2>2, <2>3, PolicyKeeps
<1>2. CASE Policy!CountSecrets(h) \/ Policy!Abandon(h)
  BY <1>1, <1>2 DEF Remembers, Policy!CountSecrets, Policy!Abandon, Policy!Idle, PolicyInv, PolicyTypes
<1>3. ASSUME NEW S \in SUBSET ScopeRows, Policy!ValidateGrant(h, S) \/ Policy!ResolveScopes(h, S)
      PROVE  PolicyInv'
  <2>1. /\ handler' = [handler EXCEPT ![h] = handler'[h]]
        /\ Remembers(handler'[h]) /\ handler'[h].label <= policy
        /\ handler'[h].pc = "token" \/ (handler'[h].pc = "grant_create" /\ Policy!Active(Server))
        /\ UNCHANGED <<row, policy, token, decision>>
    <3>1. PICK pc \in {"token", "grant_create"} :
            /\ handler' = [handler EXCEPT ![h] = [Policy!Idle EXCEPT !.pc = pc, !.scopes = S]]
            /\ pc = "grant_create" => Policy!Active(Server)
            /\ UNCHANGED <<row, policy, token, decision>>
      BY <1>3 DEF Policy!ValidateGrant, Policy!ResolveScopes, Policy!GrantResourcesValid
    <3> DEFINE state == [Policy!Idle EXCEPT !.pc = pc, !.scopes = S]
    <3>2. Remembers(state) /\ state.label <= policy /\ state.pc = pc
      BY DEF Policy!Idle, Remembers, PolicyInv, PolicyTypes
    <3> HIDE DEF state
    <3>3. handler'[h] = state
      BY <3>1, <3>2, PolicyHandlers DEF state
    <3> QED
      BY <3>1, <3>2, <3>3 DEF state
  <2> QED
    BY <1>1, <2>1 DEF Policy!Active, PolicyInv, PolicyTypes
<1>4. ASSUME NEW g \in Couple, Policy!InsertGrant(h, g)
      PROVE  PolicyInv'
  <2>1. /\ handler[h].pc = "grant_create" /\ policy' = policy + 1
        /\ row' = [row EXCEPT ![g] = Policy!NewRow(handler[h].scopes)]
        /\ handler' = [handler EXCEPT ![h] = Policy!Idle]
        /\ UNCHANGED <<token, decision>>
    BY <1>4 DEF Policy!InsertGrant, Policy!Bump
  <2>2. row[Server].status # "unused"
    BY <2>1 DEF PolicyInv, UncountedInv
  <2>3. row'[Server].status # "unused" /\ row' = [x \in Policy!Objects |-> row'[x]]
    BY <2>1, <2>2 DEF Policy!Objects, Policy!NewRow, PolicyInv, PolicyTypes
  <2>4. /\ handler' = [k \in Pair |-> handler'[k]]
        /\ \A k \in Pair : Remembers(handler'[k]) /\ handler'[k].label <= policy
    <3>1. Remembers(Policy!Idle) /\ Policy!Idle.label <= policy
      BY DEF Policy!Idle, Remembers, PolicyInv, PolicyTypes
    <3> QED
      BY <2>1, <3>1, PolicyHandlers
  <2> QED
    BY <2>1, <2>2, <2>3, <2>4, PolicyCounts DEF PolicyInv, PolicyTypes
<1>5. ASSUME NEW e \in Single, NEW g \in Couple, NEW status \in Policy!Status,
             NEW S \in SUBSET ScopeRows, Policy!LockGrant(h, e, g, status, S)
      PROVE  PolicyInv'
  <2>1. row[g].status \in Policy!Status
    BY <1>5 DEF Policy!LockGrant, Policy!MayChange, Policy!Matches, Policy!Exists
  <2>2. row[Server].status # "unused"
    BY <2>1 DEF Policy!Status, PolicyInv, UncountedInv
  <2>3. /\ handler' = [handler EXCEPT ![h] = handler'[h]]
        /\ Remembers(handler'[h]) /\ handler'[h].label <= policy
        /\ UNCHANGED <<row, policy, token, decision>>
    <3> DEFINE state == [Policy!Idle EXCEPT !.pc = "grant_update", !.of = g, !.status = status,
                                            !.scopes = S]
    <3>1. handler' = [handler EXCEPT ![h] = state] /\ UNCHANGED <<row, policy, token, decision>>
      BY <1>5 DEF Policy!LockGrant
    <3>2. Remembers(state) /\ state.label <= policy
      BY DEF Policy!Idle, Remembers, PolicyInv, PolicyTypes
    <3> HIDE DEF state
    <3> QED
      BY <3>1, <3>2, PolicyHandlers
  <2> QED
    BY <1>1, <2>2, <2>3 DEF PolicyInv, PolicyTypes
<1>6. CASE Policy!UpdateOAuthApplicationGrant(h)
  <2> DEFINE x == handler[h].of
  <2>1. /\ handler[h].pc = "grant_update" /\ policy' = policy + 1
        /\ row' = [row EXCEPT ![x] = [status |-> handler[h].status, version |-> Policy!NextVersion(x),
                                      scopes |-> handler[h].scopes]]
        /\ Policy!Revoke(Single)
        /\ handler' = [handler EXCEPT ![h] = Policy!Idle]
        /\ UNCHANGED decision
    BY <1>6 DEF Policy!UpdateOAuthApplicationGrant, Policy!GrantBump, Policy!Bump, Policy!SetRow
  <2>2. row[Server].status # "unused"
    BY <2>1 DEF PolicyInv, UncountedInv
  <2>3. row'[Server].status # "unused" /\ row' = [y \in Policy!Objects |-> row'[y]]
    BY <2>1, <2>2 DEF Policy!Objects, Remembers, PolicyInv, PolicyTypes
  <2>4. /\ handler' = [k \in Pair |-> handler'[k]]
        /\ \A k \in Pair : Remembers(handler'[k]) /\ handler'[k].label <= policy
    <3>1. Remembers(Policy!Idle) /\ Policy!Idle.label <= policy
      BY DEF Policy!Idle, Remembers, PolicyInv, PolicyTypes
    <3> QED
      BY <2>1, <3>1, PolicyHandlers
  <2>5. token' \in [Single -> DelegatedToken]
    BY <2>1, PolicyRevoke DEF PolicyInv
  <2> QED
    BY <2>1, <2>2, <2>3, <2>4, <2>5, PolicyCounts
<1>7. ASSUME NEW t \in Single, Policy!InsertToken(h, t)
      PROVE  PolicyInv'
  <2>1. token' \in [Single -> DelegatedToken]
    BY <1>7 DEF Policy!InsertToken, Remembers, PolicyInv, PolicyTypes, DelegatedToken
  <2> QED
    BY <1>1, <1>7, <2>1 DEF Policy!InsertToken, Policy!Idle, Remembers, PolicyInv, PolicyTypes
<1>8. ASSUME NEW t \in Single, Policy!OauthResourceAuthorized(h, t)
      PROVE  PolicyInv'
  <2>1. token[t].scopes \subseteq ScopeRows
    BY DEF PolicyInv, PolicyTypes, DelegatedToken
  <2>2. /\ handler' = [handler EXCEPT ![h] = handler'[h]]
        /\ Remembers(handler'[h]) /\ handler'[h].label <= policy /\ handler'[h].pc = "deciding"
        /\ UNCHANGED <<row, policy, token, decision>>
    <3> DEFINE state == [Policy!Idle EXCEPT !.pc = "deciding", !.scopes = token[t].scopes,
                                            !.label = policy]
    <3>1. handler' = [handler EXCEPT ![h] = state] /\ UNCHANGED <<row, policy, token, decision>>
      BY <1>8 DEF Policy!OauthResourceAuthorized
    <3>2. Remembers(state) /\ state.label <= policy /\ state.pc = "deciding"
      BY <2>1 DEF Policy!Idle, Remembers, PolicyInv, PolicyTypes
    <3> HIDE DEF state
    <3> QED
      BY <3>1, <3>2, PolicyHandlers
  <2> QED
    BY <1>1, <2>2 DEF PolicyInv, PolicyTypes
<1>9. CASE Policy!Decide(h)
  <2>1. /\ UNCHANGED <<row, policy, token>>
        /\ handler' = [handler EXCEPT ![h] = Policy!Idle]
        /\ decision' = [decision EXCEPT ![h] =
             [label |-> handler[h].label, scopes |-> handler[h].scopes,
              capabilities |-> Policy!Capabilities(handler[h].scopes)]]
    BY <1>9 DEF Policy!Decide
  <2>2. \A s \in Policy!Capabilities(handler[h].scopes) :
          s \in ScopeRows \cap handler[h].scopes /\ Allowed(s)
    BY DEF Policy!Capabilities, Policy!Granted, Allowed, Remembers, PolicyInv, PolicyTypes
  <2>3. /\ decision'[h].label \in 0..policy
        /\ \A s \in decision'[h].capabilities :
             s \in ScopeRows \cap decision'[h].scopes /\ Allowed(s)
    BY <2>1, <2>2 DEF Remembers, PolicyInv, PolicyTypes, DecisionsInv
  <2> QED
    BY <1>1, <2>1, <2>3 DEF Policy!Idle, Remembers, PolicyInv, PolicyTypes
<1> QED
  BY <1>2, <1>3, <1>4, <1>5, <1>6, <1>7, <1>8, <1>9
     DEF Policy!Handle, Policy!CreateAuthorizationDecision, Policy!CreateAccessEvaluation

LEMMA PolicyNext ==
  ASSUME PolicyInv, Policy!Next
  PROVE  PolicyInv'
<1> USE OAuthConstants DEF OAuthConstants, Policy!RegistryAssumption
<1>1. CASE Policy!CreateOAuthApplication
  <2>1. /\ row' = [row EXCEPT ![App] = row'[App]]
        /\ UNCHANGED <<token, policy, handler, decision>>
    BY <1>1 DEF Policy!CreateOAuthApplication, Policy!Objects, PolicyInv, PolicyTypes
  <2> QED
    BY <2>1, PolicyKeeps DEF PolicyInv, PolicyTypes, DecisionsInv, UncountedInv
<1>2. CASE Policy!CreateResourceServer
  <2>1. /\ row[Server].status = "unused" /\ policy' = 1
        /\ row' = [row EXCEPT ![Server] = Policy!NewRow({})]
        /\ UNCHANGED <<token, handler, decision>>
    BY <1>2 DEF Policy!CreateResourceServer, Policy!NoRow
  <2>2. policy = 0
    BY <2>1 DEF PolicyInv, UncountedInv
  <2>3. row'[Server].status = "active"
    BY <2>1 DEF Policy!NewRow, Policy!Objects, PolicyInv, PolicyTypes
  <2> QED
    BY <2>1, <2>2, <2>3 DEF Remembers, PolicyInv, PolicyTypes, DecisionsInv, UncountedInv
<1>3. ASSUME NEW s \in ScopeRows, Policy!CreateResourceServerScope(s)
      PROVE  PolicyInv'
  <2>1. /\ row[Server].status = "active" /\ policy' = policy + 1
        /\ row' = [row EXCEPT ![s] = Policy!NewRow({})]
        /\ UNCHANGED <<token, handler, decision>>
    BY <1>3 DEF Policy!CreateResourceServerScope, Policy!Active, Policy!Bump
  <2>2. row'[Server].status # "unused" /\ row' = [x \in Policy!Objects |-> row'[x]]
    BY <2>1 DEF Policy!Objects, PolicyInv, PolicyTypes
  <2> QED
    BY <2>1, <2>2, PolicyCounts DEF PolicyInv, PolicyTypes, DecisionsInv
<1>4. CASE Policy!RemoveMember \/ \E status \in Policy!Status : Policy!SetMember(status)
  <2>1. /\ Policy!Revoke(Single) \/ token' = token
        /\ UNCHANGED <<row, policy, handler, decision>>
    BY <1>4 DEF Policy!RemoveMember, Policy!SetMember
  <2>2. token' \in [Single -> DelegatedToken]
    BY <2>1, PolicyRevoke DEF PolicyInv, PolicyTypes
  <2> QED
    BY <2>1, <2>2, PolicyKeeps DEF PolicyInv, PolicyTypes, DecisionsInv, UncountedInv
<1> QED
  BY <1>1, <1>2, <1>3, <1>4, PolicyEdit, PolicyHandle DEF Policy!Next

LEMMA PolicyDecisions == PolicyInv => Policy!DecisionHolds
BY DEF PolicyInv, DecisionsInv, Allowed, Policy!DecisionHolds, Policy!Capabilities, Policy!Granted

-----------------------------------------------------------------------------
(* Versions of rows.                                                         *)

VersionedRow == [status : Edits!Status \cup {"unused", "deleted"}, version : Nat,
                 scopes : SUBSET Couple]

\* Nobody holds a version that is still to come, and the version of a row
\* identifies the row; a request only ever holds rows that are there.
EditsInv ==
  /\ row \in [Edits!Objects -> VersionedRow]
  /\ held \in [Pair -> [of : Edits!Objects, row : VersionedRow]]
  /\ handler = [h \in Single |-> handler[h]]
  /\ \A h \in Single : 
       /\ handler[h].scopes \subseteq Couple
       /\ handler[h].pc = "grant_update" =>
            handler[h].of \in GrantRows /\ handler[h].status \in Edits!Status
  /\ \A e \in Pair :
       /\ held[e].row.version <= row[held[e].of].version
       /\ held[e].row.version = row[held[e].of].version => held[e].row = row[held[e].of]

LEMMA EditsInit == Edits!Init => EditsInv
<1> SUFFICES ASSUME Edits!Init PROVE EditsInv
  OBVIOUS
<1>1. Edits!NoRow \in VersionedRow /\ App \in Edits!Objects
  BY DEF Edits!NoRow, VersionedRow, Edits!Objects
<1>2. Edits!Nothing \in [of : Edits!Objects, row : VersionedRow]
  BY <1>1 DEF Edits!Nothing
<1>3. /\ row \in [Edits!Objects -> VersionedRow] /\ \A x \in Edits!Objects : row[x] = Edits!NoRow
      /\ held \in [Pair -> [of : Edits!Objects, row : VersionedRow]]
      /\ \A e \in Pair : held[e] = Edits!Nothing
  BY <1>1, <1>2 DEF Edits!Init
<1>4. \A e \in Pair : held[e].of = App /\ held[e].row = Edits!NoRow
  BY <1>3 DEF Edits!Nothing
<1>5. \A e \in Pair :
       /\ held[e].row.version <= row[held[e].of].version
       /\ held[e].row.version = row[held[e].of].version => held[e].row = row[held[e].of]
  BY <1>1, <1>3, <1>4 DEF Edits!NoRow
<1> QED
  BY <1>3, <1>5 DEF Edits!Init, Edits!Idle, EditsInv

\* A row is changed by one whose version is later, and nobody holds that one.
LEMMA EditsChange ==
  ASSUME EditsInv, NEW x \in Edits!Objects, NEW new \in VersionedRow,
         row' = [row EXCEPT ![x] = new], new.version = row[x].version + 1,
         held' = held,
         handler' = [h \in Single |-> handler'[h]],
         \A h \in Single : handler'[h] = handler[h] \/ handler'[h] = Edits!Idle
  PROVE  EditsInv'
<1>1. row' \in [Edits!Objects -> VersionedRow]
  BY DEF EditsInv
<1>2. \A h \in Single : 
        /\ handler'[h].scopes \subseteq Couple
        /\ handler'[h].pc = "grant_update" =>
             handler'[h].of \in GrantRows /\ handler'[h].status \in Edits!Status
  BY DEF EditsInv, Edits!Idle
<1>3. ASSUME NEW e \in Pair
      PROVE  /\ held[e].row.version <= row'[held[e].of].version
             /\ held[e].row.version = row'[held[e].of].version => held[e].row = row'[held[e].of]
  <2>1. held[e].row.version \in Nat /\ row[x].version \in Nat /\ held[e].of \in Edits!Objects
    BY DEF EditsInv, VersionedRow
  <2>2. CASE held[e].of = x
    BY <2>1, <2>2 DEF EditsInv
  <2>3. CASE held[e].of # x
    BY <2>1, <2>3 DEF EditsInv
  <2> QED
    BY <2>2, <2>3
<1> QED
  BY <1>1, <1>2, <1>3 DEF EditsInv

\* An accepted If-Match names the row that was read.
LEMMA EditsMatch ==
  ASSUME EditsInv, NEW e \in Pair, NEW x \in Edits!Objects, Edits!MayChange(e, x)
  PROVE  held[e] = [of |-> x, row |-> row[x]]
<1>1. held[e] \in [of : Edits!Objects, row : VersionedRow]
  BY DEF EditsInv
<1>2. held[e].of = x /\ held[e].row = row[x]
  BY DEF EditsInv, Edits!MayChange, Edits!Matches
<1> QED
  BY <1>1, <1>2

\* The row a change leaves.
LEMMA EditsSetRow ==
  ASSUME EditsInv, NEW x \in Edits!Objects, NEW status \in Edits!Status \cup {"deleted"},
         NEW S \in SUBSET Couple, Edits!SetRow(x, status, S),
         held' = held,
         handler' = [h \in Single |-> handler'[h]],
         \A h \in Single : handler'[h] = handler[h] \/ handler'[h] = Edits!Idle
  PROVE  EditsInv' /\ \A y \in Edits!Objects \ {x} : row'[y] = row[y]
<1> DEFINE new == [status |-> status, version |-> row[x].version + 1, scopes |-> S]
<1>1. row[x].version \in Nat
  BY DEF EditsInv, VersionedRow
<1>2. new \in VersionedRow /\ new.version = row[x].version + 1
  BY <1>1 DEF VersionedRow
<1>3. row' = [row EXCEPT ![x] = new]
  BY DEF Edits!SetRow, Edits!NextVersion
<1> HIDE DEF new
<1> QED
  BY <1>2, <1>3, EditsChange DEF EditsInv

\* The row a creation leaves.
LEMMA EditsNewRow ==
  ASSUME EditsInv, NEW x \in Edits!Objects, NEW S \in SUBSET Couple,
         row[x] = Edits!NoRow, row' = [row EXCEPT ![x] = Edits!NewRow(S)],
         held' = held,
         handler' = [h \in Single |-> handler'[h]],
         \A h \in Single : handler'[h] = handler[h] \/ handler'[h] = Edits!Idle
  PROVE  EditsInv' /\ Edits!UpdatesWhatWasRead
<1>1. Edits!NewRow(S) \in VersionedRow /\ Edits!NewRow(S).version = row[x].version + 1
  BY DEF Edits!NewRow, Edits!NoRow, Edits!Status, VersionedRow
<1>2. EditsInv'
  BY <1>1, EditsChange
<1>3. \A y \in Edits!Objects \ {x} : row'[y] = row[y]
  BY DEF EditsInv
<1> QED
  BY <1>2, <1>3 DEF Edits!UpdatesWhatWasRead

LEMMA EditsKeep ==
  ASSUME EditsInv, row' = row, held' = held,
         handler' = [h \in Single |-> handler'[h]],
         \A h \in Single :
            \/ handler'[h] = handler[h]
            \/ /\ handler'[h].scopes \subseteq Couple
               /\ handler'[h].pc = "grant_update" =>
                    handler'[h].of \in GrantRows /\ handler'[h].status \in Edits!Status
  PROVE  EditsInv' /\ Edits!UpdatesWhatWasRead
BY DEF EditsInv, Edits!UpdatesWhatWasRead

LEMMA EditsEdit ==
  ASSUME EditsInv, NEW e \in Pair, Edits!Edit(e)
  PROVE  EditsInv' /\ Edits!UpdatesWhatWasRead
<1>1. ASSUME NEW x \in Edits!Objects, Edits!Read(e, x)
      PROVE  EditsInv' /\ Edits!UpdatesWhatWasRead
  <2>1. /\ row' = row /\ handler' = handler
        /\ held' = [held EXCEPT ![e] = [of |-> x, row |-> row[x]]]
    BY <1>1 DEF Edits!Read
  <2>2. held' \in [Pair -> [of : Edits!Objects, row : VersionedRow]]
    BY <2>1 DEF EditsInv
  <2>3. row[x].version \in Nat
    BY DEF EditsInv, VersionedRow
  <2> QED
    BY <2>1, <2>2, <2>3 DEF EditsInv, Edits!UpdatesWhatWasRead
<1>2. ASSUME NEW x \in Edits!Objects, NEW status \in Edits!Status \cup {"deleted"},
             NEW S \in SUBSET Couple, Edits!MayChange(e, x), Edits!SetRow(x, status, S),
             UNCHANGED <<held, handler>>
      PROVE  EditsInv' /\ Edits!UpdatesWhatWasRead
  <2>1. EditsInv' /\ \A y \in Edits!Objects \ {x} : row'[y] = row[y]
    BY <1>2, EditsSetRow DEF EditsInv
  <2>2. held[e] = [of |-> x, row |-> row[x]]
    BY <1>2, EditsMatch
  <2> QED
    BY <2>1, <2>2 DEF Edits!UpdatesWhatWasRead
<1>3. ASSUME NEW status \in Edits!Status,
             \/ Edits!UpdateOAuthApplication(e, status) \/ Edits!UpdateResourceServer(e, status)
             \/ \E s \in Couple : Edits!UpdateResourceServerScope(e, s, status)
      PROVE  EditsInv' /\ Edits!UpdatesWhatWasRead
  <2>1. PICK x \in Edits!Objects : /\ Edits!MayChange(e, x) /\ Edits!SetRow(x, status, {})
                                   /\ UNCHANGED <<held, handler>>
    BY <1>3 DEF Edits!UpdateOAuthApplication, Edits!UpdateResourceServer,
                Edits!UpdateResourceServerScope, Edits!Objects
  <2> QED
    BY <1>2, <2>1
<1>5. CASE \/ Edits!DeleteOAuthApplication(e) \/ Edits!DeleteResourceServer(e)
           \/ \E s \in Couple : Edits!DeleteResourceServerScope(e, s)
  <2>1. PICK x \in Edits!Objects : /\ Edits!MayChange(e, x) /\ Edits!SetRow(x, "deleted", {})
                                   /\ UNCHANGED <<held, handler>>
    BY <1>5 DEF Edits!DeleteOAuthApplication, Edits!DeleteResourceServer,
                Edits!DeleteResourceServerScope, Edits!Objects
  <2> QED
    BY <1>2, <2>1
<1>4. ASSUME NEW g \in GrantRows, Edits!DeleteOAuthApplicationGrant(e, g)
      PROVE  EditsInv' /\ Edits!UpdatesWhatWasRead
  <2>1. g \in Edits!Objects /\ row[g].scopes \in SUBSET Couple
    BY DEF Edits!Objects, EditsInv, VersionedRow
  <2> QED
    BY <1>2, <1>4, <2>1 DEF Edits!DeleteOAuthApplicationGrant
<1> QED
  BY <1>1, <1>3, <1>4, <1>5 DEF Edits!Edit

LEMMA EditsHandle ==
  ASSUME EditsInv, NEW h \in Single, Edits!Handle(h)
  PROVE  EditsInv' /\ Edits!UpdatesWhatWasRead
<1> USE DEF EditsInv
<1>1. ASSUME NEW state, handler' = [handler EXCEPT ![h] = state], UNCHANGED <<row, held>>,
             state.scopes \subseteq Couple,
             state.pc = "grant_update" => state.of \in GrantRows /\ state.status \in Edits!Status
      PROVE  EditsInv' /\ Edits!UpdatesWhatWasRead
  <2>1. handler' = [g \in Single |-> IF g = h THEN state ELSE handler[g]]
    BY <1>1
  <2> QED
    BY <1>1, <2>1, EditsKeep
<1>2. CASE Edits!CountSecrets(h) \/ Edits!Abandon(h) \/ Edits!Decide(h)
  <2>1. PICK pc \in {"idle", "secret"} :
          handler' = [handler EXCEPT ![h] = [Edits!Idle EXCEPT !.pc = pc]]
    BY <1>2 DEF Edits!CountSecrets, Edits!Abandon, Edits!Decide, Edits!Idle
  <2>2. UNCHANGED <<row, held>>
    BY <1>2 DEF Edits!CountSecrets, Edits!Abandon, Edits!Decide
  <2> DEFINE state == [Edits!Idle EXCEPT !.pc = pc]
  <2>3. state.scopes \subseteq Couple /\ state.pc # "grant_update"
    BY DEF Edits!Idle
  <2>4. handler' = [handler EXCEPT ![h] = state]
    BY <2>1
  <2> HIDE DEF state
  <2> QED
    BY <1>1, <2>2, <2>3, <2>4
<1>3. ASSUME NEW S \in SUBSET Couple, Edits!ValidateGrant(h, S) \/ Edits!ResolveScopes(h, S)
      PROVE  EditsInv' /\ Edits!UpdatesWhatWasRead
  <2>1. PICK pc \in {"token", "grant_create"} :
          handler' = [handler EXCEPT ![h] = [Edits!Idle EXCEPT !.pc = pc, !.scopes = S]]
    BY <1>3 DEF Edits!ValidateGrant, Edits!ResolveScopes
  <2>2. UNCHANGED <<row, held>>
    BY <1>3 DEF Edits!ValidateGrant, Edits!ResolveScopes
  <2> DEFINE state == [Edits!Idle EXCEPT !.pc = pc, !.scopes = S]
  <2>3. state.scopes \subseteq Couple /\ state.pc # "grant_update"
    BY DEF Edits!Idle
  <2>4. handler' = [handler EXCEPT ![h] = state]
    BY <2>1
  <2> HIDE DEF state
  <2> QED
    BY <1>1, <2>2, <2>3, <2>4
<1>4. ASSUME NEW e \in Pair, NEW g \in GrantRows, NEW status \in Edits!Status,
             NEW S \in SUBSET Couple, Edits!LockGrant(h, e, g, status, S)
      PROVE  EditsInv' /\ Edits!UpdatesWhatWasRead
  <2> DEFINE state == [Edits!Idle EXCEPT !.pc = "grant_update", !.of = g, !.status = status,
                                         !.scopes = S]
  <2>1. handler' = [handler EXCEPT ![h] = state] /\ UNCHANGED <<row, held>>
    BY <1>4 DEF Edits!LockGrant
  <2>2. state.scopes = S /\ state.of = g /\ state.status = status
    BY DEF Edits!Idle
  <2> HIDE DEF state
  <2> QED
    BY <1>1, <2>1, <2>2
<1>5. ASSUME NEW g \in GrantRows, Edits!InsertGrant(h, g)
      PROVE  EditsInv' /\ Edits!UpdatesWhatWasRead
  <2>1. /\ row[g] = Edits!NoRow /\ row' = [row EXCEPT ![g] = Edits!NewRow(handler[h].scopes)]
        /\ handler' = [handler EXCEPT ![h] = Edits!Idle] /\ held' = held
    BY <1>5 DEF Edits!InsertGrant
  <2>2. handler' = [k \in Single |-> IF k = h THEN Edits!Idle ELSE handler[k]]
    BY <2>1
  <2>3. g \in Edits!Objects
    BY DEF Edits!Objects
  <2> QED
    BY <2>1, <2>2, <2>3, EditsNewRow
<1>6. CASE Edits!UpdateOAuthApplicationGrant(h)
  <2> DEFINE x == handler[h].of
  <2>1. /\ handler[h].pc = "grant_update" /\ held' = held
        /\ Edits!SetRow(x, handler[h].status, handler[h].scopes)
        /\ handler' = [handler EXCEPT ![h] = Edits!Idle]
    BY <1>6 DEF Edits!UpdateOAuthApplicationGrant
  <2>2. handler' = [k \in Single |-> IF k = h THEN Edits!Idle ELSE handler[k]]
    BY <2>1
  <2>3. x \in Edits!Objects /\ handler[h].status \in Edits!Status
    BY <2>1 DEF Edits!Objects
  <2>4. EditsInv' /\ \A y \in Edits!Objects \ {x} : row'[y] = row[y]
    BY <2>1, <2>2, <2>3, EditsSetRow
  <2> QED
    BY <2>1, <2>4 DEF Edits!UpdatesWhatWasRead
<1> QED
  BY <1>2, <1>3, <1>4, <1>5, <1>6
     DEF Edits!Handle, Edits!CreateAuthorizationDecision, Edits!CreateAccessEvaluation

LEMMA EditsNext ==
  ASSUME EditsInv, Edits!Next
  PROVE  EditsInv' /\ Edits!UpdatesWhatWasRead
<1>1. ASSUME NEW x \in Edits!Objects, row[x] = Edits!NoRow,
             row' = [row EXCEPT ![x] = Edits!NewRow({})], UNCHANGED <<held, handler>>
      PROVE  EditsInv' /\ Edits!UpdatesWhatWasRead
  <2>1. handler' = [h \in Single |-> handler'[h]]
    BY <1>1 DEF EditsInv
  <2>2. {} \in SUBSET Couple /\ held' = held /\ \A h \in Single : handler'[h] = handler[h]
    BY <1>1
  <2> QED
    BY <1>1, <2>1, <2>2, EditsNewRow, Zenon
<1>2. CASE \/ Edits!CreateOAuthApplication \/ Edits!CreateResourceServer
           \/ \E s \in Couple : Edits!CreateResourceServerScope(s)
  BY <1>1, <1>2 DEF Edits!CreateOAuthApplication, Edits!CreateResourceServer,
                    Edits!CreateResourceServerScope, Edits!Objects
<1>3. ~Edits!RemoveMember /\ \A status \in Edits!Status : ~Edits!SetMember(status)
  BY DEF Edits!RemoveMember, Edits!SetMember
<1> QED
  BY <1>2, <1>3, EditsEdit, EditsHandle DEF Edits!Next

-----------------------------------------------------------------------------
(* The OAuth server.                                                         *)

OAuthInv ==
  /\ part = "authorization" => AuthInv
  /\ part = "edits" => EditsInv
  /\ part = "policy" => PolicyInv
  /\ part = "clients" => ClientsInv

LEMMA OAuthInit == MCInit => OAuthInv
BY AuthInit, EditsInit, PolicyInit, ClientsInit DEF MCInit, OAuthInv

LEMMA OAuthStutters ==
  ASSUME OAuthInv, UNCHANGED allVars
  PROVE  OAuthInv'
<1>1. /\ part' = part
      /\ UNCHANGED <<session, request, code, token, decider, exchanger, reset, doomed, resets>>
      /\ UNCHANGED <<row, policy, secret, held, handler, decision>>
  BY DEF allVars, authVars, sharedVars, registryVars
<1>2. AuthInv => AuthInv'
  BY <1>1 DEF AuthInv, AuthTypes, DecidersInv, CodesInv, ExchangersInv, TokensInv, ResetInv
<1>3. EditsInv => EditsInv'
  BY <1>1 DEF EditsInv
<1>4. PolicyInv => PolicyInv'
  BY <1>1 DEF PolicyInv, PolicyTypes, DecisionsInv, UncountedInv, Allowed, Policy!Active
<1>5. ClientsInv => ClientsInv'
  BY <1>1 DEF ClientsInv, SecretCounts, Clients!ActiveSecrets
<1> QED
  BY <1>1, <1>2, <1>3, <1>4, <1>5 DEF OAuthInv

LEMMA OAuthNext == OAuthInv /\ [MCNext]_allVars => OAuthInv'
<1> SUFFICES ASSUME OAuthInv, [MCNext]_allVars
             PROVE  OAuthInv'
  OBVIOUS
<1>1. CASE MCNext
  BY <1>1, AuthNext, EditsNext, PolicyNext, ClientsNext DEF MCNext, OAuthInv
<1>2. CASE UNCHANGED allVars
  BY <1>2, OAuthStutters
<1> QED
  BY <1>1, <1>2

LEMMA OAuthInvariant == MCSpec => []OAuthInv
BY OAuthInit, OAuthNext, PTL DEF MCSpec

\* One authorization request gives at most one access token, for any number of
\* decisions and exchanges that work on it at the same moment.
THEOREM OneTokenPerRequestHolds == MCSpec => []OneTokenPerRequest
<1>1. OAuthInv => OneTokenPerRequest
  BY AuthOneToken DEF OAuthInv, OneTokenPerRequest
<1> QED
  BY <1>1, OAuthInvariant, PTL

\* No accepted token was obtained with a code older than the last password
\* reset, for any number of exchanges that overlap it.
THEOREM ResetCutsExchangesHolds == MCSpec => []ResetCutsExchanges
<1>1. OAuthInv => ResetCutsExchanges
  BY AuthResetCuts DEF OAuthInv, ResetCutsExchanges
<1> QED
  BY <1>1, OAuthInvariant, PTL

\* At most two client secrets are active and none of a deleted application, for
\* any secrets and any requests that create them together.
THEOREM SecretsBoundedHolds == MCSpec => []SecretsBounded
<1>1. OAuthInv => SecretsBounded
  BY ClientsBounded DEF OAuthInv, SecretsBounded
<1> QED
  BY <1>1, OAuthInvariant, PTL

\* What a decision allows stays allowed while policy_version is the one it
\* carries and the application and the member are active, for any grants, scopes
\* and decisions.
THEOREM DecisionHoldsHolds == MCSpec => []DecisionHolds
<1>1. OAuthInv => DecisionHolds
  BY PolicyDecisions DEF OAuthInv, DecisionHolds
<1> QED
  BY <1>1, OAuthInvariant, PTL

\* A change that the version of a row admits is made on the row its author
\* read, for any editors and rows.
THEOREM NoLostUpdateHolds == MCSpec => NoLostUpdate
<1>1. OAuthInv /\ [MCNext]_allVars => [part = "edits" => Edits!UpdatesWhatWasRead]_allVars
  BY EditsNext DEF OAuthInv, MCNext
<1> QED
  BY <1>1, OAuthInvariant, PTL DEF MCSpec, NoLostUpdate
=============================================================================
