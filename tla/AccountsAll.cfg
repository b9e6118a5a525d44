SPECIFICATION AccountsSpec
CONSTANTS
    Names <- AnyName
    FunConfigs <- TwoFunConfigs
    SwapConfigs <- TwoSwapConfigs
    BridgePools <- TwoBridges
    Targets <- SomeTargets
    Clients <- FourClients
    MaxChanges = 1
INVARIANTS
    SetupOpensWhatSwapsNeed
    TableCovers
    FitsPacket
CHECK_DEADLOCK FALSE
