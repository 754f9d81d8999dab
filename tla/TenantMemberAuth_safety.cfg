SPECIFICATION Spec
CONSTANTS
  Attempts = {a1}
  Sessions = {s0, s1, s2}
  Ceremonies = {k1, k2, k3}
  Credentials = {c1, c2, c3}
  Proofs = {p1}
  Handlers = {h1, h2}
  Signup = s0
  MaxCredentials = 2
  MaxResets = 1
  Nobody = Nobody
SYMMETRY Symmetry
INVARIANTS AssuranceMatchesCredentials OneSessionPerAttempt
PROPERTIES LastCredentialKept
CHECK_DEADLOCK FALSE
