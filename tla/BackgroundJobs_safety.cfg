SPECIFICATION Spec
CONSTANTS
    purge = purge
    mail = mail
    clean = clean
    w1 = w1
    w2 = w2
    l1 = l1
    l2 = l2
    l3 = l3
    l4 = l4
    NoLease = NoLease
    NoJob = NoJob
    Jobs = {purge, mail}
    NumQueues = 2
    QueueOf <- MCQueueOf
    Workers = {w1, w2}
    Leases = {l1, l2, l3, l4}
    MaxAttempts = 2
    LeaseDuration = 2
    Rearmable = {purge}
    Recurring = {purge}
    Delays = {0, 1}
SYMMETRY Symmetry
INVARIANTS
    TypeOK
    AttemptBudget
    SoleOwner
PROPERTIES
    LeaseRespected
