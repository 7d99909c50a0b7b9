\* Two purchases by a member, reviews, an edit of the product, one policy change, a crash.
CONSTANTS
    buyer = buyer
    admin = admin
    o1 = o1
    o2 = o2
    Users = {buyer, admin}
    Orders = {o1, o2}
    Buyer <- TwoByOne
    Quantity <- OneTwo
    Reviewers = {admin}
    Admins = {admin}
    Award = 1
    OpeningBalance <- Rich
    OpeningProduct <- Scarce
    EditStocks <- Restocks
    EditPrices = {}
    EditLimits = {3}
    MaxEdits = 1
    MaxCrashes = 1
    MaxFaults = 1
    MaxPolicyChanges = 1
SPECIFICATION FairSpec
INVARIANTS
    OneOutcome
    RejectedIsNotCharged
    StockIsConserved
    LimitCountsEarlierPurchases
    BuyerBalanceIsAccounted
PROPERTIES
    FailedDebitIsRejected
CHECK_DEADLOCK FALSE
