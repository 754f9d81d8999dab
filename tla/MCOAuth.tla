------------------------------ MODULE MCOAuth ------------------------------
(* The OAuth server, for TLC: its signing keys, the authorization of a client *)
(* by a member, and the registry of applications and grants.  A behaviour     *)
(* follows one of them; the registry is followed three times, with many       *)
(* editors, with many decisions and with client secrets.                      *)
EXTENDS SigningKeys, TLC

CONSTANTS
  Pair, Couple, Single,   \* identities of rows and of requests in flight
  App, Server, ScopeRows, GrantRows,
  MaxResets,
  EditVersions, EditPolicies,       \* bounds of the three registries
  DecidedVersions, DecidedPolicies,
  ClientVersions, ClientPolicies

VARIABLES
  part,   \* what the behaviour follows
  session, request, code, token, consent, granted, app, member, decider, exchanger,
  reset, doomed, resets,
  row, policy, secret, held, handler, decision

authVars == <<session, request, code, consent, granted, app, decider, exchanger,
              reset, doomed, resets>>
registryVars == <<row, policy, secret, held, handler, decision>>
sharedVars == <<token, member>>   \* of the authorization and of the registry
allVars == <<part, vars, authVars, sharedVars, registryVars>>

A == INSTANCE OAuthAuthorization
       WITH Sessions <- Pair, Requests <- Single, Codes <- Couple, Tokens <- Couple,
            Deciders <- Pair, Exchangers <- Pair
Edits == INSTANCE OAuthRegistry
       WITH Scopes <- Couple, Grants <- GrantRows, Secrets <- {}, Tokens <- {},
            Editors <- Pair, Handlers <- Single,
            MaxVersion <- EditVersions, MaxPolicy <- EditPolicies
Policy == INSTANCE OAuthRegistry
       WITH Scopes <- ScopeRows, Grants <- Couple, Secrets <- {}, Tokens <- Single,
            Editors <- Single, Handlers <- Pair,
            MaxVersion <- DecidedVersions, MaxPolicy <- DecidedPolicies
Clients == INSTANCE OAuthRegistry
       WITH Scopes <- {}, Grants <- {}, Secrets <- Kids, Tokens <- {},
            Editors <- Couple, Handlers <- Pair,
            MaxVersion <- ClientVersions, MaxPolicy <- ClientPolicies

ASSUME OAuthConstants ==
  /\ A!OAuthAssumption
  /\ Edits!RegistryAssumption /\ Policy!RegistryAssumption /\ Clients!RegistryAssumption

NoAuthorization ==
  /\ session = 0 /\ request = 0 /\ code = 0 /\ consent = 0 /\ granted = 0 /\ app = 0
  /\ decider = 0 /\ exchanger = 0 /\ reset = 0 /\ doomed = 0 /\ resets = 0
NoRegistry == row = 0 /\ policy = 0 /\ secret = 0 /\ held = 0 /\ handler = 0 /\ decision = 0

MCInit ==
  \/ part = "keys" /\ Init /\ NoAuthorization /\ token = 0 /\ member = 0 /\ NoRegistry
  \/ part = "authorization" /\ Init /\ A!Init /\ NoRegistry
  \/ part = "edits" /\ Init /\ NoAuthorization /\ Edits!Init
  \/ part = "policy" /\ Init /\ NoAuthorization /\ Policy!Init
  \/ part = "clients" /\ Init /\ NoAuthorization /\ Clients!Init

MCNext ==
  /\ UNCHANGED part
  /\ \/ part = "keys" /\ Next /\ UNCHANGED <<authVars, sharedVars, registryVars>>
     \/ part = "authorization" /\ A!Next /\ UNCHANGED <<vars, registryVars>>
     \/ part = "edits" /\ Edits!Next /\ UNCHANGED <<vars, authVars>>
     \/ part = "policy" /\ Policy!Next /\ UNCHANGED <<vars, authVars>>
     \/ part = "clients" /\ Clients!Next /\ UNCHANGED <<vars, authVars>>

MCSpec == MCInit /\ [][MCNext]_allVars

\* Replicas, key ids, rows and requests are interchangeable.
Symmetry == Permutations(Pair) \cup Permutations(Couple) \cup Permutations(Kids)

-----------------------------------------------------------------------------
(* Properties of the other parts, beside those of SigningKeys.               *)

\* One authorization request gives at most one access token, however often its
\* decision is sent and its code presented at the same moment
\* (decideOAuthAuthorizationRequest, oauthToken).
OneTokenPerRequest == part = "authorization" => A!OneTokenPerRequest

\* No token that is accepted was obtained with a code older than the last
\* password reset: an exchange that overlaps the reset committed before it or fails.
ResetCutsExchanges == part = "authorization" => A!ResetCutsExchanges

\* A change that the row's version admits was made on the row its author read
\* (requireIfMatch and the version of each row).
NoLostUpdate == [][part = "edits" => Edits!UpdatesWhatWasRead]_allVars

\* At most two client secrets are active, and none of a deleted application,
\* although they are created, expire and are revoked while it changes.
SecretsBounded == part = "clients" => Clients!SecretsBounded

\* What a decision allows stays allowed while policy_version is the one it
\* carries and the application and the member are active (createAccessEvaluation
\* and every change that counts policy_version up).
DecisionHolds == part = "policy" => Policy!DecisionHolds
=============================================================================
