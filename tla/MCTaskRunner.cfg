\* One task, two goroutines, three locks, a failing write of a row, one restart; the
\* task may hang.
CONSTANTS
    t1 = t1
    c1 = c1
    c2 = c2
    Tasks = {t1}
    Calls = {c1, c2}
    MaxTokens = 3
    MaxDbFailures = 1
    MaxBoots = 1
SPECIFICATION FairSpec
INVARIANTS
    NoConcurrentRuns
    AcceptedRunsAreWaitedFor
    OpenRowHasLock
    CleanShutdownClosesRows
PROPERTIES
    ShutdownTerminates
    LocksAreReleased
CHECK_DEADLOCK FALSE
