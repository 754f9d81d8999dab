------------------------- MODULE OAuthAuthorization -------------------------
(***************************************************************************)
(* From an authorization request to an access token, for one member, one   *)
(* application and the delegated scopes it asks for                        *)
(* (internal/api/oauth_authorization.go), against everything that takes    *)
(* the authorization away again: a password reset, a disabled member or    *)
(* application, a withdrawn grant, a revoked consent, time.                *)
(*                                                                         *)
(* A decision and an exchange are transactions of several statements.  A   *)
(* decision keeps the row of its request locked, an exchange the row of    *)
(* its code, a reset the row of the member; inserting a code or a token    *)
(* takes a share lock on the member by its foreign key, so it waits for a  *)
(* reset, and a reset waits for the rows it updates.  Where both wait, the *)
(* database aborts one.                                                    *)
(***************************************************************************)
EXTENDS Naturals, FiniteSets

CONSTANTS
  Sessions,    \* sessions of the member
  Requests,    \* authorization requests
  Codes,       \* authorization codes
  Tokens,      \* access tokens
  Deciders,    \* decisions in flight
  Exchangers,  \* token requests in flight
  MaxResets,   \* bound on completed password resets
  None         \* no row

\* What the constants have to satisfy.
OAuthAssumption ==
  /\ MaxResets \in Nat
  /\ None \notin Sessions \cup Requests \cup Codes \cup Tokens

VARIABLES
  session,   \* "reset" is a session that a password reset revoked
  request, code, token,
  consent,   \* of the member for the application and its resource server
  granted,   \* the grant is active and covers the scopes asked for
  app, member,
  decider, exchanger,
  reset,     \* where the reset in progress is, if there is one
  doomed,    \* the tokens its UPDATE reached
  resets     \* resets completed

vars == <<session, request, code, token, consent, granted, app, member,
          decider, exchanger, reset, doomed, resets>>

Idle == [pc |-> "idle", request |-> None, session |-> None]
IdleExchange == [pc |-> "idle", code |-> None]
NoCode == [status |-> "unused", request |-> None, session |-> None, born |-> 0]
NoToken == [status |-> "unused", code |-> None]

RequestLocked(r) == \E d \in Deciders : decider[d].pc = "approving" /\ decider[d].request = r
CodeLocked(c) == \E x \in Exchangers : exchanger[x].pc = "signing" /\ exchanger[x].code = c
MemberLocked == reset # "none"

LiveTokens == {t \in Tokens : token[t].status = "live"}
Revoke(T) ==
  token' = [t \in Tokens |-> IF t \in T \cap LiveTokens
                             THEN [token[t] EXCEPT !.status = "revoked"] ELSE token[t]]

----------------------------------------------------------------------------
Init ==
  /\ session = [s \in Sessions |-> "unused"]
  /\ request = [r \in Requests |-> "unused"]
  /\ code = [c \in Codes |-> NoCode]
  /\ token = [t \in Tokens |-> NoToken]
  /\ consent = "none"
  /\ granted = TRUE /\ app = "active" /\ member = "active"
  /\ decider = [d \in Deciders |-> Idle]
  /\ exchanger = [x \in Exchangers |-> IdleExchange]
  /\ reset = "none" /\ doomed = {} /\ resets = 0

----------------------------------------------------------------------------
(* The request.                                                            *)

\* resolveAuthorizationScopes: server, grant and every scope are active.
ScopesGranted == granted

AuthorizeRequest(r) ==
  /\ request[r] = "unused"
  /\ app = "active" /\ ScopesGranted
  /\ request' = [request EXCEPT ![r] = "pending"]
  /\ UNCHANGED <<session, code, token, consent, granted, app, member,
                 decider, exchanger, reset, doomed, resets>>

\* consoleAuthorized reads a live session of an active member.
BeginDecision(d, r, s) ==
  /\ decider[d] = Idle
  /\ request[r] # "unused"
  /\ session[s] = "live" /\ member = "active"
  /\ decider' = [decider EXCEPT ![d] = [pc |-> "authorized", request |-> r, session |-> s]]
  /\ UNCHANGED <<session, request, code, token, consent, granted, app, member,
                 exchanger, reset, doomed, resets>>

\* SELECT ... FOR UPDATE OF q: the session is joined, not locked.
Decidable(d) ==
  /\ decider[d].pc = "authorized"
  /\ ~RequestLocked(decider[d].request)
  /\ request[decider[d].request] = "pending"
  /\ session[decider[d].session] = "live"
  /\ app = "active"

Deny(d) ==
  /\ Decidable(d) /\ ~MemberLocked
  /\ request' = [request EXCEPT ![decider[d].request] = "denied"]
  /\ decider' = [decider EXCEPT ![d] = Idle]
  /\ UNCHANGED <<session, code, token, consent, granted, app, member,
                 exchanger, reset, doomed, resets>>

StartApproval(d) ==
  /\ Decidable(d) /\ ScopesGranted
  /\ decider' = [decider EXCEPT ![d].pc = "approving"]
  /\ UNCHANGED <<session, request, code, token, consent, granted, app, member,
                 exchanger, reset, doomed, resets>>

NewCode(d) == [status |-> "outstanding", request |-> decider[d].request,
               session |-> decider[d].session, born |-> resets]

\* The UPDATE of the request and the INSERT of the code wait for the member.
Approve(d, c) ==
  /\ decider[d].pc = "approving" /\ ~MemberLocked
  /\ code[c] = NoCode
  /\ request' = [request EXCEPT ![decider[d].request] = "approved"]
  /\ code' = [code EXCEPT ![c] = NewCode(d)]
  /\ consent' = "active"
  /\ decider' = [decider EXCEPT ![d] = Idle]
  /\ UNCHANGED <<session, token, granted, app, member, exchanger, reset, doomed, resets>>

\* authorization_request_resolved, authorization_grant_changed, a failure.
AbandonDecision(d) ==
  /\ decider[d] # Idle
  /\ decider' = [decider EXCEPT ![d] = Idle]
  /\ UNCHANGED <<session, request, code, token, consent, granted, app, member,
                 exchanger, reset, doomed, resets>>

----------------------------------------------------------------------------
(* The token.                                                              *)

AuthenticateOAuthClient(x) ==
  /\ exchanger[x] = IdleExchange
  /\ app = "active"
  /\ exchanger' = [exchanger EXCEPT ![x].pc = "authenticated"]
  /\ UNCHANGED <<session, request, code, token, consent, granted, app, member,
                 decider, reset, doomed, resets>>

\* The code is neither consumed nor expired, and nobody else holds its row.
CodeUsableUnlocked(c) == code[c].status = "outstanding"
CodeUsable(c) == code[c].status = "outstanding" /\ ~CodeLocked(c)

LockCode(x, c) ==
  /\ exchanger[x].pc = "authenticated"
  /\ CodeUsable(c)
  /\ app = "active" /\ member = "active" /\ ScopesGranted
  /\ exchanger' = [exchanger EXCEPT ![x] = [pc |-> "signing", code |-> c]]
  /\ UNCHANGED <<session, request, code, token, consent, granted, app, member,
                 decider, reset, doomed, resets>>

\* The foreign key of the token's member.
MemberShareableAlways == TRUE
MemberShareable == ~MemberLocked

IssueToken(x, t) ==
  LET c == exchanger[x].code IN
  /\ exchanger[x].pc = "signing" /\ MemberShareable
  /\ token[t] = NoToken
  /\ code' = [code EXCEPT ![c].status = "consumed"]
  /\ token' = [token EXCEPT ![t] = [status |-> "live", code |-> c]]
  /\ exchanger' = [exchanger EXCEPT ![x] = IdleExchange]
  /\ UNCHANGED <<session, request, consent, granted, app, member, decider, reset, doomed, resets>>

\* invalid_grant, a key that cannot be read, the victim of a deadlock.
AbandonExchange(x) ==
  /\ exchanger[x] # IdleExchange
  /\ exchanger' = [exchanger EXCEPT ![x] = IdleExchange]
  /\ UNCHANGED <<session, request, code, token, consent, granted, app, member,
                 decider, reset, doomed, resets>>

\* oauthUserInfo, and oauthResourceAuthorized for a delegated token.
Accepted(t) == token[t].status = "live" /\ app = "active" /\ member = "active"

OauthRevoke(t) ==
  /\ app = "active" /\ token[t].status = "live"
  /\ token' = [token EXCEPT ![t].status = "revoked"]
  /\ UNCHANGED <<session, request, code, consent, granted, app, member,
                 decider, exchanger, reset, doomed, resets>>

RevokeOAuthConsent ==
  /\ consent # "none"
  /\ \E s \in Sessions : session[s] = "live"
  /\ consent' = "revoked"
  /\ Revoke(Tokens)
  /\ UNCHANGED <<session, request, code, granted, app, member,
                 decider, exchanger, reset, doomed, resets>>

----------------------------------------------------------------------------
(* What takes the authorization away.                                      *)

Login(s) ==
  /\ session[s] = "unused" /\ member = "active" /\ ~MemberLocked
  /\ session' = [session EXCEPT ![s] = "live"]
  /\ UNCHANGED <<request, code, token, consent, granted, app, member,
                 decider, exchanger, reset, doomed, resets>>

Logout(s) ==
  /\ session[s] = "live"
  /\ session' = [session EXCEPT ![s] = "ended"]
  /\ UNCHANGED <<request, code, token, consent, granted, app, member,
                 decider, exchanger, reset, doomed, resets>>

\* resetTenantMemberPassword: it locks the member, revokes the tokens
\* there are, then waits for the codes that exchanges hold.  Its effects are
\* seen when it commits.
StartReset ==
  /\ reset = "none" /\ member = "active" /\ resets < MaxResets
  /\ reset' = "member_locked"
  /\ UNCHANGED <<session, request, code, token, consent, granted, app, member,
                 decider, exchanger, doomed, resets>>

ResetTokens ==
  /\ reset = "member_locked"
  /\ doomed' = LiveTokens
  /\ reset' = "tokens_revoked"
  /\ UNCHANGED <<session, request, code, token, consent, granted, app, member,
                 decider, exchanger, resets>>

FinishReset ==
  /\ reset = "tokens_revoked"
  /\ \A c \in Codes : ~CodeLocked(c)
  /\ session' = [s \in Sessions |-> IF session[s] = "live" THEN "reset" ELSE session[s]]
  /\ Revoke(doomed)
  /\ code' = [c \in Codes |-> IF code[c].status = "outstanding"
                              THEN [code[c] EXCEPT !.status = "consumed"] ELSE code[c]]
  /\ reset' = "none" /\ doomed' = {} /\ resets' = resets + 1
  /\ UNCHANGED <<request, consent, granted, app, member, decider, exchanger>>

\* A failure, or the database chose it as the victim of a deadlock.
AbortReset ==
  /\ reset # "none"
  /\ reset' = "none" /\ doomed' = {}
  /\ UNCHANGED <<session, request, code, token, consent, granted, app, member,
                 decider, exchanger, resets>>

\* updateTenantMember revokes the sessions; tokens and codes of a disabled
\* member are refused where they are used.
SetMember(status) ==
  /\ member # status /\ ~MemberLocked
  /\ member' = status
  /\ session' = [s \in Sessions |->
       IF status = "disabled" /\ session[s] = "live" THEN "ended" ELSE session[s]]
  /\ UNCHANGED <<request, code, token, consent, granted, app,
                 decider, exchanger, reset, doomed, resets>>

SetApplication(status) ==
  /\ app # status
  /\ app' = status
  /\ IF status = "disabled" THEN Revoke(Tokens) ELSE UNCHANGED token
  /\ UNCHANGED <<session, request, code, consent, granted, member,
                 decider, exchanger, reset, doomed, resets>>

\* The resource server, the grant or a scope changes; OAuthRegistry has how.
SetGranted(g) ==
  /\ granted # g
  /\ granted' = g
  /\ IF g THEN UNCHANGED token ELSE Revoke(Tokens)
  /\ UNCHANGED <<session, request, code, consent, app, member,
                 decider, exchanger, reset, doomed, resets>>

\* Ten minutes, five minutes, ten minutes.
ExpireRequest(r) ==
  /\ request[r] = "pending" /\ ~RequestLocked(r)
  /\ request' = [request EXCEPT ![r] = "expired"]
  /\ UNCHANGED <<session, code, token, consent, granted, app, member,
                 decider, exchanger, reset, doomed, resets>>

ExpireCode(c) ==
  /\ code[c].status = "outstanding"
  /\ code' = [code EXCEPT ![c].status = "expired"]
  /\ UNCHANGED <<session, request, token, consent, granted, app, member,
                 decider, exchanger, reset, doomed, resets>>

ExpireToken(t) ==
  /\ token[t].status = "live"
  /\ token' = [token EXCEPT ![t].status = "expired"]
  /\ UNCHANGED <<session, request, code, consent, granted, app, member,
                 decider, exchanger, reset, doomed, resets>>

----------------------------------------------------------------------------
Decide(d) ==
  \/ \E r \in Requests, s \in Sessions : BeginDecision(d, r, s)
  \/ Deny(d) \/ StartApproval(d) \/ AbandonDecision(d)
  \/ \E c \in Codes : Approve(d, c)

OauthToken(x) ==
  \/ AuthenticateOAuthClient(x) \/ AbandonExchange(x)
  \/ \E c \in Codes : LockCode(x, c)
  \/ \E t \in Tokens : IssueToken(x, t)

Next ==
  \/ \E r \in Requests : AuthorizeRequest(r) \/ ExpireRequest(r)
  \/ \E d \in Deciders : Decide(d)
  \/ \E x \in Exchangers : OauthToken(x)
  \/ \E t \in Tokens : OauthRevoke(t) \/ ExpireToken(t)
  \/ \E c \in Codes : ExpireCode(c)
  \/ \E s \in Sessions : Login(s) \/ Logout(s)
  \/ StartReset \/ ResetTokens \/ FinishReset \/ AbortReset
  \/ RevokeOAuthConsent
  \/ \E status \in {"active", "disabled"} : SetMember(status) \/ SetApplication(status)
  \/ \E g \in BOOLEAN : SetGranted(g)

Spec == Init /\ [][Next]_vars

----------------------------------------------------------------------------
(* Properties.                                                             *)

\* Rows and requests are of their types; a code in use names its request and
\* session, a token its code.
TypeOK ==
  /\ session \in [Sessions -> {"unused", "live", "ended", "reset"}]
  /\ request \in [Requests -> {"unused", "pending", "approved", "denied", "expired"}]
  /\ code \in [Codes -> {NoCode} \cup
       [status : {"outstanding", "consumed", "expired"}, request : Requests,
        session : Sessions, born : 0..MaxResets]]
  /\ token \in [Tokens -> {NoToken} \cup
       [status : {"live", "revoked", "expired"}, code : Codes]]
  /\ consent \in {"none", "active", "revoked"}
  /\ granted \in BOOLEAN
  /\ app \in {"active", "disabled"} /\ member \in {"active", "disabled"}
  /\ decider \in [Deciders -> {Idle} \cup
       [pc : {"authorized", "approving"}, request : Requests, session : Sessions]]
  /\ exchanger \in [Exchangers -> {IdleExchange, [pc |-> "authenticated", code |-> None]}
       \cup [pc : {"signing"}, code : Codes]]
  /\ reset \in {"none", "member_locked", "tokens_revoked"}
  /\ doomed \subseteq Tokens
  /\ resets \in 0..MaxResets

TokenRequest(t) == code[token[t].code].request

\* One authorization request gives at most one access token, however often its
\* decision is sent and its code presented at the same moment
\* (decideOAuthAuthorizationRequest, oauthToken).
OneTokenPerRequest ==
  \A t, u \in Tokens :
    /\ token[t] # NoToken /\ token[u] # NoToken
    /\ TokenRequest(t) = TokenRequest(u)
    => t = u

\* No token that is accepted was obtained with a code older than the last
\* password reset: an exchange that had the code in hand while the reset ran
\* either committed before it or fails.
ResetCutsExchanges ==
  reset = "none" =>
    \A t \in Tokens : Accepted(t) => code[token[t].code].born = resets

\* "Password reset ... revokes every Tenant Member session ... consumes
\* outstanding authorization codes" (README.md): none that a session of before
\* the reset approved is left to be exchanged.
ResetConsumesCodes ==
  \A c \in Codes : code[c].status = "outstanding" => session[code[c].session] # "reset"
=============================================================================
