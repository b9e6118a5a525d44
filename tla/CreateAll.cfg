SPECIFICATION FairSpec
CONSTANTS
    Lists <- TwoLists
    Balances <- FiveBalances
    Chunk = 2
    Capacity = 5
    Attempts = 2
    Life = 2
    MaxSlot = 3
    MaxRuns = 2
INVARIANTS
    TablesAreResumable
    NoAddressPaidTwice
    FundedRunFinishes
    ReadyIsLoadable
PROPERTIES
    RunEnds
CHECK_DEADLOCK FALSE
