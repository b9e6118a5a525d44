SPECIFICATION Spec
CONSTANTS
    c1 = c1
    c2 = c2
    Calls <- TwoCalls
    Addresses <- AllAddresses
    Client <- FullClient
    Trades <- SponsoredBuy
    Outputs <- OneOutput
    Setups <- OneSetup
    Units <- OneUnit
    PriorityFee = 2
    Tip = 1
    BaseFee = 2
    Rent = 4
    Accounts <- SharedAccounts
    Rates = {5}
    PriceAges <- FreshAges
    LamportsPerSol = 10
    MaxCost = 12
    ServiceFee = 1
    MaxPriceAge = 0
    PriceTimeout = 0
    BlockhashLife = 0
INVARIANTS
    ReimbursementCoversCost
PROPERTIES
    KeepsContract
