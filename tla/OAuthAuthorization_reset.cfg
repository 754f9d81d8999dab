SPECIFICATION Spec
CONSTANTS
  Sessions = {s1}
  Requests = {r1}
  Codes = {c1}
  Tokens = {t1}
  Deciders = {d1}
  Exchangers = {x1}
  MaxResets = 1
  None = None
INVARIANTS ResetConsumesCodes
CHECK_DEADLOCK FALSE
