\* Two wallets, two handlers, every kind of operation, a corporation change and a crash.
CONSTANTS
    u1 = u1
    u2 = u2
    NoProc = NoProc
    Users <- TwoUsers
    OpeningBalance <- TwoOpening
    Procs = {p1, p2}
    Ops <- AllOps
    Policies <- TwoPolicies
    MaxOps = 3
    MaxCorpChanges = 1
    MaxCrashes = 1
SPECIFICATION FairSpec
INVARIANTS
    LockedReadIsCurrent
    LedgerExplainsBalance
PROPERTIES
    ImplementsLedger
    EveryOperationEnds
CHECK_DEADLOCK FALSE
