\* Two purchases and a reviewer, no crash.
CONSTANTS
    buyer = buyer
    admin = admin
    o1 = o1
    o2 = o2
    Users = {buyer, admin}
    Orders = {o1, o2}
    Buyer <- TwoByOne
    Quantity <- TwoOneEach
    Reviewers = {admin}
    Admins = {admin}
    Award = 1
    OpeningBalance <- Poor
    OpeningProduct <- Plenty
    EditStocks <- Restocks
    EditPrices = {2}
    EditLimits = {3}
    MaxEdits = 0
    MaxCrashes = 0
    MaxFaults = 0
    MaxPolicyChanges = 0
SPECIFICATION Spec
INVARIANT
    RejectedIsUndelivered
CHECK_DEADLOCK FALSE
