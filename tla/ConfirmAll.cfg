SPECIFICATION FairSpec
CONSTANTS
    c1 = c1
    Calls <- OneCall
    Via = {"rpc", "relay"}
    MinOut = 3
    Outputs = {3, 5}
    Costs = {0, 1}
    Start = 1
    MoveBound = 2
    Deadline = 2
INVARIANTS
    StatusTruthful
    ReceivedAtLeastMinimum
    ReceivedAtMostPaidOut
    DoubtfulErrorsAreTold
PROPERTIES
    KeepsContract
    SubmittedSwapReturns
CHECK_DEADLOCK FALSE
