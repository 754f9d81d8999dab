SPECIFICATION FairSpec
CONSTANTS
  purge = purge
  mail = mail
  clean = clean
  Cases = {c1}
  Editors = {e1}
  NoCase = NoCase
  NoTime = NoTime
  Retention = 1
  MessageLimit = 2
  AttachmentLimit = 1
  ReferenceLimit = 1
  MaxVersion = 4
  Deliveries = {d1}
  MaxCopies = 3
  Stocked = {"rate_limit_buckets", "background_jobs"}
  Batch = 1
  Minute = 1
  Hour = 2
  MaxRows = 2
  Global = Global
  Workers = {w1}
  Leases = {l1, l2, l3}
  NoLease = NoLease
  NoJob = NoJob
  MaxAttempts = 2
  LeaseDuration = 1
  Keys = {k1}
  Hashes = {h1, h2}
  Clients = {a1, a2}
  Uids = {u1, u2, u3}
  NoUid = NoUid
  KeyRetention = 2
PROPERTIES NoStarvation ClosedIsPurged MailsSettle BacklogDrains KeysSettle
CHECK_DEADLOCK FALSE
