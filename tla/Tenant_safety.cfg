SPECIFICATION MCSpec
CONSTANTS
  Pair = {p1, p2}
  Couple = {c1, c2}
  Duo = {d1, d2}
  First = {one}
  Second = {two}
  Third = {three}
  Tenant = one
  LoginModes = {"passkey"}
  AccountLimit = 1
  ActiveLimit = 2
  CaseLimit = 1
  MaxReopens = 1
  Handlers = {h1, h2}
  Members = {m1, p1, p2}
  Founder = m1
  Emails = {e0, e1}
  FounderEmail = e0
  Invitations = {c1, c2}
  Nobody = Nobody
  None = None
  RpIds = {2, 3}
  BadRpIds = {0}
  Origins = {2, 3, 4}
SYMMETRY Symmetry
INVARIANTS HasActiveOwner OneSessionPerAttempt SessionOfItsCeremony SecondFactor EnrolledTemplateHeld DisabledHasNone IntakeBounded
PROPERTIES OwnersChangedByOwners RpIdPermanent
CHECK_DEADLOCK FALSE
