---------------------------- MODULE OAuthRegistry ----------------------------
(***************************************************************************)
(* The registry of the authorization server, for one application and one   *)
(* resource server: the application and its client secrets, the server,    *)
(* its scopes and the grants of the application                            *)
(* (internal/api/oauth_applications.go, authorization_resources.go), the   *)
(* delegated tokens a change revokes, and the decisions taken on them      *)
(* (authorization_decisions.go).                                           *)
(*                                                                         *)
(* Every change carries the version its author has read in If-Match and    *)
(* locks the row it is about.  Creating or changing a grant reads the      *)
(* application, the server and the scopes without a lock first; creating a *)
(* client secret counts under the lock of the application; a token is      *)
(* inserted some time after its scopes were resolved; a decision reads     *)
(* policy_version before it reads the capabilities.  The member that gave  *)
(* the tokens is disabled, enabled and removed by another component        *)
(* (tenant_members.go), which counts no policy_version up.                 *)
(***************************************************************************)
EXTENDS Naturals, FiniteSets

CONSTANTS
  App, Server,  \* the application and the resource server
  Scopes,       \* scope rows; a name is reserved for good, so one row each
  Grants,       \* grant rows
  Secrets,      \* client secret rows
  Tokens,       \* delegated access tokens
  Editors,      \* console clients, each with the last representation it read
  Handlers,     \* requests of several statements in flight
  MaxVersion,   \* bound on the version of a row
  MaxPolicy     \* bound on policy_version

\* What the constants have to satisfy.
RegistryAssumption ==
  /\ App # Server
  /\ {App, Server} \cap (Scopes \cup Grants) = {} /\ Scopes \cap Grants = {}
  /\ MaxVersion \in Nat \ {0} /\ MaxPolicy \in Nat \ {0}

VARIABLES row, policy, secret, token, member, held, handler, decision

vars == <<row, policy, secret, token, member, held, handler, decision>>

Objects == {App, Server} \cup Scopes \cup Grants
Status == {"active", "disabled"}
SecretLimit == 2

NoRow == [status |-> "unused", version |-> 0, scopes |-> {}]
NewRow(S) == [status |-> "active", version |-> 1, scopes |-> S]
Nothing == [of |-> App, row |-> NoRow]
Idle == [pc |-> "idle", of |-> App, status |-> "active", scopes |-> {}, label |-> 0]
NoDecision == [label |-> 0, scopes |-> {}, capabilities |-> {}]

Active(x) == row[x].status = "active"
Exists(x) == row[x].status \in Status /\ (x \in Scopes => row[Server].status \in Status)
Locked(x) == \E h \in Handlers :
  handler[h].of = x /\ handler[h].pc \in {"secret", "grant_update"}

\* What of T the grants allow: the rows whose changes policy_version counts.
Granted(T) ==
  {s \in T : /\ Active(Server) /\ Active(s)
             /\ \E g \in Grants : Active(g) /\ s \in row[g].scopes}

\* Who a token acts for: the application and the member, both active.
PrincipalActive == Active(App) /\ member = "active"

\* currentOAuthCapabilities: what of T the application may do for the member now.
Capabilities(T) == IF PrincipalActive THEN Granted(T) ELSE {}

Revoke(T) ==
  token' = [t \in Tokens |-> IF t \in T /\ token[t].status = "live"
                             THEN [token[t] EXCEPT !.status = "revoked"] ELSE token[t]]

Bump == policy < MaxPolicy /\ policy' = policy + 1

----------------------------------------------------------------------------
Init ==
  /\ row = [x \in Objects |-> NoRow]
  /\ policy = 0
  /\ secret = [k \in Secrets |-> "unused"]
  /\ token = [t \in Tokens |-> [status |-> "unused", scopes |-> {}]]
  /\ member = "active"
  /\ held = [e \in Editors |-> Nothing]
  /\ handler = [h \in Handlers |-> Idle]
  /\ decision = [h \in Handlers |-> NoDecision]

\* A GET, or the answer to a change: a representation and its ETag.
Read(e, x) ==
  /\ Exists(x)
  /\ held' = [held EXCEPT ![e] = [of |-> x, row |-> row[x]]]
  /\ UNCHANGED <<row, policy, secret, token, member, handler, decision>>

\* requireIfMatch, and the comparison under the lock of the row.
MatchesExistence(e, x) == held[e].of = x /\ Exists(x) /\ held[e].row # NoRow
Matches(e, x) == held[e].of = x /\ Exists(x) /\ held[e].row.version = row[x].version

MayChange(e, x) == Matches(e, x) /\ ~Locked(x) /\ row[x].version < MaxVersion

NextVersion(x) == row[x].version + 1

SetRow(x, status, S) ==
  row' = [row EXCEPT ![x] = [status |-> status, version |-> NextVersion(x), scopes |-> S]]

----------------------------------------------------------------------------
(* The application and its secrets.                                        *)

CreateOAuthApplication ==
  /\ row[App] = NoRow
  /\ row' = [row EXCEPT ![App] = NewRow({})]
  /\ UNCHANGED <<policy, secret, token, member, held, handler, decision>>

UpdateOAuthApplication(e, status) ==
  /\ MayChange(e, App)
  /\ SetRow(App, status, {})
  /\ IF status = "disabled" THEN Revoke(Tokens) ELSE UNCHANGED token
  /\ UNCHANGED <<policy, secret, member, held, handler, decision>>

DeleteOAuthApplication(e) ==
  /\ MayChange(e, App)
  /\ SetRow(App, "deleted", {})
  /\ secret' = [k \in Secrets |-> IF secret[k] = "unused" THEN "unused" ELSE "revoked"]
  /\ Revoke(Tokens)
  /\ UNCHANGED <<policy, member, held, handler, decision>>

ActiveSecrets == {k \in Secrets : secret[k] = "active"}

\* createOAuthClientSecret locks the application, counts, then inserts; the
\* model has a row left for the secret.
SecretAllowedUnlocked == Active(App) /\ Cardinality(ActiveSecrets) < SecretLimit
SecretAllowed == Active(App) /\ ~Locked(App) /\ Cardinality(ActiveSecrets) < SecretLimit

CountSecrets(h) ==
  /\ handler[h] = Idle /\ \E k \in Secrets : secret[k] = "unused"
  /\ SecretAllowed
  /\ handler' = [handler EXCEPT ![h] = [Idle EXCEPT !.pc = "secret"]]
  /\ UNCHANGED <<row, policy, secret, token, member, held, decision>>

InsertSecret(h, k) ==
  /\ handler[h].pc = "secret" /\ secret[k] = "unused"
  /\ secret' = [secret EXCEPT ![k] = "active"]
  /\ handler' = [handler EXCEPT ![h] = Idle]
  /\ UNCHANGED <<row, policy, token, member, held, decision>>

RevokeOAuthClientSecret(k) ==
  /\ Exists(App) /\ secret[k] \in {"active", "expired"}
  /\ secret' = [secret EXCEPT ![k] = "revoked"]
  /\ UNCHANGED <<row, policy, token, member, held, handler, decision>>

ExpireSecret(k) ==
  /\ secret[k] = "active"
  /\ secret' = [secret EXCEPT ![k] = "expired"]
  /\ UNCHANGED <<row, policy, token, member, held, handler, decision>>

----------------------------------------------------------------------------
(* The resource server and its scopes.                                     *)

CreateResourceServer ==
  /\ row[Server] = NoRow
  /\ row' = [row EXCEPT ![Server] = NewRow({})]
  /\ policy' = 1
  /\ UNCHANGED <<secret, token, member, held, handler, decision>>

UpdateResourceServer(e, status) ==
  /\ MayChange(e, Server) /\ Bump
  /\ SetRow(Server, status, {})
  /\ IF status = "disabled" THEN Revoke(Tokens) ELSE UNCHANGED token
  /\ UNCHANGED <<secret, member, held, handler, decision>>

DeleteResourceServer(e) ==
  /\ MayChange(e, Server) /\ Bump
  /\ SetRow(Server, "deleted", {})
  /\ Revoke(Tokens)
  /\ UNCHANGED <<secret, member, held, handler, decision>>

With(s) == {t \in Tokens : s \in token[t].scopes}

CreateResourceServerScope(s) ==
  /\ Active(Server) /\ row[s] = NoRow /\ Bump
  /\ row' = [row EXCEPT ![s] = NewRow({})]
  /\ UNCHANGED <<secret, token, member, held, handler, decision>>

UpdateResourceServerScope(e, s, status) ==
  /\ MayChange(e, s) /\ Bump
  /\ SetRow(s, status, {})
  /\ IF status = "disabled" THEN Revoke(With(s)) ELSE UNCHANGED token
  /\ UNCHANGED <<secret, member, held, handler, decision>>

DeleteResourceServerScope(e, s) ==
  /\ MayChange(e, s) /\ Bump
  /\ SetRow(s, "deleted", {})
  /\ Revoke(With(s))
  /\ UNCHANGED <<secret, member, held, handler, decision>>

----------------------------------------------------------------------------
(* Grants.                                                                 *)

\* normalizeScopeUIDs and validateGrantResources: plain reads.
GrantResourcesValid(S) == S # {} /\ Active(App) /\ Active(Server) /\ \A s \in S : Active(s)

ValidateGrant(h, S) ==
  /\ handler[h] = Idle
  /\ GrantResourcesValid(S)
  /\ handler' = [handler EXCEPT ![h] = [Idle EXCEPT !.pc = "grant_create", !.scopes = S]]
  /\ UNCHANGED <<row, policy, secret, token, member, held, decision>>

\* The partial unique index allows one grant that is not deleted.
InsertGrant(h, g) ==
  /\ handler[h].pc = "grant_create"
  /\ row[g] = NoRow /\ ~ \E o \in Grants : Exists(o)
  /\ Bump
  /\ row' = [row EXCEPT ![g] = NewRow(handler[h].scopes)]
  /\ handler' = [handler EXCEPT ![h] = Idle]
  /\ UNCHANGED <<secret, token, member, held, decision>>

\* The scopes are validated only when the request gives some.
LockGrant(h, e, g, status, S) ==
  /\ handler[h] = Idle
  /\ MayChange(e, g)
  /\ S = row[g].scopes \/ GrantResourcesValid(S)
  /\ handler' = [handler EXCEPT ![h] = [Idle EXCEPT !.pc = "grant_update", !.of = g,
                                                  !.status = status, !.scopes = S]]
  /\ UNCHANGED <<row, policy, secret, token, member, held, decision>>

GrantBumpForgotten == policy' = policy
GrantBump == Bump

UpdateOAuthApplicationGrant(h) ==
  /\ handler[h].pc = "grant_update" /\ GrantBump
  /\ SetRow(handler[h].of, handler[h].status, handler[h].scopes)
  /\ Revoke(Tokens)
  /\ handler' = [handler EXCEPT ![h] = Idle]
  /\ UNCHANGED <<secret, member, held, decision>>

DeleteOAuthApplicationGrant(e, g) ==
  /\ MayChange(e, g) /\ Bump
  /\ SetRow(g, "deleted", row[g].scopes)
  /\ Revoke(Tokens)
  /\ UNCHANGED <<secret, member, held, handler, decision>>

----------------------------------------------------------------------------
(* Delegated tokens and decisions.                                         *)

\* oauthToken resolves the scopes of the code, signs, and inserts the token,
\* whose foreign key wants the member's row.
ResolveScopes(h, S) ==
  /\ handler[h] = Idle
  /\ S # {} /\ S \subseteq Capabilities(Scopes)
  /\ handler' = [handler EXCEPT ![h] = [Idle EXCEPT !.pc = "token", !.scopes = S]]
  /\ UNCHANGED <<row, policy, secret, token, member, held, decision>>

InsertToken(h, t) ==
  /\ handler[h].pc = "token" /\ token[t].status = "unused" /\ member # "removed"
  /\ token' = [token EXCEPT ![t] = [status |-> "live", scopes |-> handler[h].scopes]]
  /\ handler' = [handler EXCEPT ![h] = Idle]
  /\ UNCHANGED <<row, policy, secret, member, held, decision>>

\* oauthResourceAuthorized.
OauthResourceAuthorized(h, t) ==
  /\ handler[h] = Idle
  /\ token[t].status = "live" /\ PrincipalActive /\ Active(Server)
  /\ \E g \in Grants : Active(g)
  /\ handler' = [handler EXCEPT ![h] =
       [Idle EXCEPT !.pc = "deciding", !.scopes = token[t].scopes, !.label = policy]]
  /\ UNCHANGED <<row, policy, secret, token, member, held, decision>>

Decide(h) ==
  /\ handler[h].pc = "deciding"
  /\ decision' = [decision EXCEPT ![h] =
       [label |-> handler[h].label, scopes |-> handler[h].scopes,
        capabilities |-> Capabilities(handler[h].scopes)]]
  /\ handler' = [handler EXCEPT ![h] = Idle]
  /\ UNCHANGED <<row, policy, secret, token, member, held>>

CreateAuthorizationDecision(h) == Decide(h)

\* The request hash of an evaluation holds its grants and policy version: one
\* that is replayed is the answer that would be given now.
CreateAccessEvaluation(h) == Decide(h)

\* updateTenantMember revokes sessions: tokens and policy_version stay, and a
\* token works again when the member is enabled.  The member matters to tokens
\* alone; without any of them its changes are left out.
SetMember(status) ==
  /\ Tokens # {} /\ member \in Status \ {status}
  /\ member' = status
  /\ UNCHANGED <<row, policy, secret, token, held, handler, decision>>

\* removeTenantMember: the member's tokens go with its row (ON DELETE CASCADE).
RemoveMember ==
  /\ Tokens # {} /\ member \in Status
  /\ member' = "removed"
  /\ Revoke(Tokens)
  /\ UNCHANGED <<row, policy, secret, held, handler, decision>>

\* A request that fails or is refused after its first statement.
Abandon(h) ==
  /\ handler[h] # Idle
  /\ handler' = [handler EXCEPT ![h] = Idle]
  /\ UNCHANGED <<row, policy, secret, token, member, held, decision>>

----------------------------------------------------------------------------
Edit(e) ==
  \/ \E x \in Objects : Read(e, x)
  \/ \E status \in Status :
       \/ UpdateOAuthApplication(e, status) \/ UpdateResourceServer(e, status)
       \/ \E s \in Scopes : UpdateResourceServerScope(e, s, status)
  \/ DeleteOAuthApplication(e) \/ DeleteResourceServer(e)
  \/ \E s \in Scopes : DeleteResourceServerScope(e, s)
  \/ \E g \in Grants : DeleteOAuthApplicationGrant(e, g)

Handle(h) ==
  \/ CountSecrets(h) \/ \E k \in Secrets : InsertSecret(h, k)
  \/ \E S \in SUBSET Scopes : ValidateGrant(h, S) \/ ResolveScopes(h, S)
  \/ \E g \in Grants : InsertGrant(h, g)
  \/ \E e \in Editors, g \in Grants, status \in Status, S \in SUBSET Scopes :
       LockGrant(h, e, g, status, S)
  \/ UpdateOAuthApplicationGrant(h)
  \/ \E t \in Tokens : InsertToken(h, t) \/ OauthResourceAuthorized(h, t)
  \/ CreateAuthorizationDecision(h) \/ CreateAccessEvaluation(h)
  \/ Abandon(h)

Next ==
  \/ CreateOAuthApplication \/ CreateResourceServer
  \/ \E s \in Scopes : CreateResourceServerScope(s)
  \/ \E e \in Editors : Edit(e)
  \/ \E h \in Handlers : Handle(h)
  \/ \E k \in Secrets : RevokeOAuthClientSecret(k) \/ ExpireSecret(k)
  \/ \E status \in Status : SetMember(status)
  \/ RemoveMember

Spec == Init /\ [][Next]_vars

----------------------------------------------------------------------------
(* Properties.                                                             *)

RowType == [status : Status \cup {"unused", "deleted"}, version : 0..MaxVersion,
            scopes : SUBSET Scopes]

\* Rows, requests and decisions are of their types; a grant names a scope.
TypeOK ==
  /\ row \in [Objects -> RowType]
  /\ \A g \in Grants : row[g] # NoRow => row[g].scopes # {}
  /\ policy \in 0..MaxPolicy
  /\ secret \in [Secrets -> {"unused", "active", "expired", "revoked"}]
  /\ token \in [Tokens -> [status : {"unused", "live", "revoked"}, scopes : SUBSET Scopes]]
  /\ member \in Status \cup {"removed"}
  /\ held \in [Editors -> [of : Objects, row : RowType]]
  /\ handler \in [Handlers -> [pc : {"idle", "secret", "grant_create", "grant_update",
       "token", "deciding"}, of : Objects, status : Status, scopes : SUBSET Scopes,
       label : 0..MaxPolicy]]
  /\ decision \in [Handlers -> [label : 0..MaxPolicy, scopes : SUBSET Scopes,
       capabilities : SUBSET Scopes]]

\* A change that the row's version admits was made on the row its author read.
UpdatesWhatWasRead ==
  \A x \in Objects : row'[x] # row[x] /\ row[x] # NoRow
    => \/ \E e \in Editors : held[e] = [of |-> x, row |-> row[x]]
       \/ \E h \in Handlers : handler[h].pc = "grant_update" /\ handler[h].of = x
NoLostUpdate == [][UpdatesWhatWasRead]_vars

\* At most two client secrets are active, and none of a deleted application,
\* although secrets are created, expire and are revoked while it changes
\* (client_secret_limit).
SecretsBounded ==
  /\ Cardinality(ActiveSecrets) <= SecretLimit
  /\ row[App].status = "deleted" => ActiveSecrets = {}

\* What a decision allows stays allowed as long as policy_version is the one it
\* carries and the application and the member are active, though they were
\* disabled and enabled in between: whatever else the capabilities depend on
\* counts policy_version up, and the version is read before them.
DecisionHolds ==
  \A h \in Handlers :
    decision[h] # NoDecision /\ decision[h].label = policy /\ PrincipalActive
    => decision[h].capabilities \subseteq Capabilities(decision[h].scopes)
=============================================================================
