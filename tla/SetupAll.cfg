SPECIFICATION SetupSpec
CONSTANTS
    Calls = {"one"}
    Routes <- AllRoutes
    Worlds <- AllWorlds
    TokenRent = 2
    VaultRent = 2
    Wallets = {0, 4}
    Drifting = {"wsol", "vault", "protocol", "pool_volume"}
    MaxMoves = 2
INVARIANTS
    FreshSetupLands
    WsolDepositReturned
    UserKeepsOwn
CHECK_DEADLOCK FALSE
