SPECIFICATION FairSpec
CONSTANTS
    Requests <- AllRequests
    Offers <- AllOffers
    RouteTimeout = 1
INVARIANTS
    WinnerIsBest
    NobodyAskedNeedlessly
    AnswerKeepsBudget
PROPERTIES
    CallReturns
CHECK_DEADLOCK FALSE
