\* A join and the check of a reconcile run, two workers, one fault, an operator.
CONSTANTS
    u1 = u1
    u2 = u2
    u3 = u3
    u4 = u4
    NoWorker = NoWorker
    NoUpdate = NoUpdate
    Updates = {u1, u2}
    Kind <- JoinAndCheck
    EventKey <- TwoKeys
    Workers = {w1, w2}
    MaxRetries = 2
    MaxFaults = 1
    MaxSaves = 0
    MaxOperatorActs = 1
SPECIFICATION FairSpec
INVARIANTS
    ResentOnlyAfterFault
PROPERTIES
    SettledStays
    QueueDrains
CHECK_DEADLOCK FALSE
