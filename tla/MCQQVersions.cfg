\* A join, its repeated push, a sweep and a message, two workers, one fault, a policy update.
CONSTANTS
    u1 = u1
    u2 = u2
    u3 = u3
    u4 = u4
    NoWorker = NoWorker
    NoUpdate = NoUpdate
    Updates = {u1, u2, u3, u4}
    Kind <- JoinAndSweep
    EventKey <- SameKey
    Workers = {w1, w2}
    MaxRetries = 2
    MaxFaults = 1
    MaxSaves = 1
    MaxOperatorActs = 0
SPECIFICATION Spec
SYMMETRY WorkerSymmetry
PROPERTIES
    LeaseProtects
    SentIsValid
CHECK_DEADLOCK FALSE
