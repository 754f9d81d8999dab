SPECIFICATION Spec
CONSTANTS
  Cases = {c1}
  Editors = {e1}
  NoCase = NoCase
  NoTime = NoTime
  Retention = 1
  MessageLimit = 2
  AttachmentLimit = 1
  ReferenceLimit = 1
  MaxVersion = 4
  Deliveries = {d1}
  MaxCopies = 3
  Stocked = {"rate_limit_buckets", "tenant_member_sessions"}
  Batch = 1
  Minute = 1
  Hour = 2
  MaxRows = 2
  Global = Global
  Workers = {w1, w2}
  Leases = {l1, l2, l3}
  NoLease = NoLease
  NoJob = NoJob
  MaxAttempts = 2
  LeaseDuration = 1
SYMMETRY Symmetry
INVARIANTS ClosedIsScheduled DuplicatesExplained BacklogSoon
PROPERTIES KeptForRetention DecidedAsSeen ImplementsJobs
CHECK_DEADLOCK FALSE
