SPECIFICATION Spec
CONSTANTS
  Members = {m1, m2, m3}
  Founder = m1
  Emails = {e0, e1}
  FounderEmail = e0
  Invitations = {i1, i2}
  Handlers = {h1}
  Nobody = Nobody
INVARIANTS RemovalCarriedOut
CHECK_DEADLOCK FALSE
