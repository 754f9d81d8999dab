SPECIFICATION MCSpec
CONSTANTS
  Keys = {k1}
  Hashes = {h1, h2}
  Clients = {c1, c2, c3}
  Uids = {u1, u2, u3, u4, u5, u6}
  NoUid = NoUid
  LeaseDuration = 1
  Retention = 2
  Buckets = {p1, p2}
  Limit = 2
  Window = 2
  Batch = 1
  MaxTime = 4
  MaxBurst = 3
  Replicas = {p1, p2}
  Versions = {1, 2}
  Contents = {a, b}
  Null = Null
  None = None
  Starts = 4
  Rows = {1, 2, 3}
  Instants = {1, 2}
  MaxPage = 2
SYMMETRY Symmetry
INVARIANTS CommittedIffReplayable AnswersAgree GrantsBounded AppliedOnce ServesItsSchema PagedExactly
PROPERTIES ClaimRespected
CHECK_DEADLOCK FALSE
