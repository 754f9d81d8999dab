SPECIFICATION Spec
CONSTANTS
  Attempts = {a1}
  Sessions = {s0, s1}
  Ceremonies = {k1}
  Credentials = {c1}
  Proofs = {p1}
  Handlers = {h1}
  Signup = s0
  MaxCredentials = 2
  MaxResets = 1
  Nobody = Nobody
INVARIANTS ResetPasswordInForce
