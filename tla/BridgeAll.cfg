SPECIFICATION Spec
CONSTANTS
    Trades <- AllTrades
    Reserves <- AllReserves
    FeeSettings <- AllFees
    Slack = 1
INVARIANTS
    LegsFundEachOther
    GuaranteeKept
    SlippageWithinRequest
    BuysFitTheirInput
CHECK_DEADLOCK FALSE
