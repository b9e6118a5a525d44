SPECIFICATION FairSpec
CONSTANTS
    Addresses <- SomeAddresses
    Requests <- AllRequests
    Prices <- SomePrices
    Lists <- SomeLists
    RequestTimeout = 1
INVARIANTS
    QuoteEnforced
    ExecutorCanSend
PROPERTIES
    DFlowReturns
    KeepsVenueContract
CHECK_DEADLOCK FALSE
