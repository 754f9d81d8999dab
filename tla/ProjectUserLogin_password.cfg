SPECIFICATION Spec
CONSTANTS
  Attempts = {a1, a2}
  Ceremonies = {c1, c2}
  Credentials = {k1, k2}
  Sessions = {s1, s2}
  Handlers = {h1, h2}
  Modes = {"passkey", "security_key"}
  None = None
INVARIANTS PasswordBehindEverySession
CHECK_DEADLOCK FALSE
