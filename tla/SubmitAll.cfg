SPECIFICATION FairSpec
CONSTANTS
    c1 = c1
    c2 = c2
    Calls <- OneCall
    Addresses <- AllAddresses
    Client <- FullClient
    Trades <- AllTrades
    Outputs <- AllOutputs
    Setups <- AllSetups
    Units <- AllUnits
    PriorityFee = 2
    Tip = 1
    BaseFee = 2
    Rent = 4
    Accounts <- SharedAccounts
    Rates = {0, 5, 11}
    PriceAges <- AllAges
    LamportsPerSol = 10
    MaxCost = 12
    ServiceFee = 1
    MaxPriceAge = 2
    PriceTimeout = 1
    BlockhashLife = 2
INVARIANTS
    TypeOK
    SignaturesCoverFinalMessage
    SponsorAuthorisesBoundedCharge
    BudgetKept
PROPERTIES
    ReturnsUnlessOutsiderHangs
    StaleChargeNeverLands
