SPECIFICATION SetupSpec
CONSTANTS
    Calls = {"one"}
    Routes <- AllRoutes
    Worlds <- FewWorlds
    TokenRent = 2
    VaultRent = 2
    Wallets = {0}
    Drifting = {}
    MaxMoves = 0
INVARIANTS
    NoTopUpNeeded
CHECK_DEADLOCK FALSE
