SPECIFICATION MCSpec
CONSTANTS
  Pair = {p1, p2}
  Couple = {c1, c2}
  Single = {one}
  Replicas = {p1, p2}
  Kids = {k1, k2, k3}
  Versions = {v1}
  Skew = 1
  Delay = 1
  TTL = 1
  Margin = 4
  MinWindow = 1
  MaxAge = 1
  MaxTime = 4
  None = None
  App = App
  Server = Server
  ScopeRows = {Scope1}
  GrantRows = {Grant1}
  MaxResets = 1
  EditVersions = 3
  EditPolicies = 5
  DecidedVersions = 2
  DecidedPolicies = 5
  ClientVersions = 3
  ClientPolicies = 1
SYMMETRY Symmetry
INVARIANTS SecretsBounded TokensVerifiable OneTokenPerRequest ResetCutsExchanges DecisionHolds
PROPERTIES NoLostUpdate
CHECK_DEADLOCK FALSE
