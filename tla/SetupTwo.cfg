SPECIFICATION SetupSpec
CONSTANTS
    Calls = {"one", "two"}
    Routes <- PairRoutes
    Worlds <- RaceWorlds
    TokenRent = 2
    VaultRent = 2
    Wallets = {0, 4}
    Drifting = {}
    MaxMoves = 0
INVARIANTS
    RacedSetupLands
CHECK_DEADLOCK FALSE
