SPECIFICATION Spec
CONSTANTS
    Keys <- TwoKeys
    Requests <- SomeRequests
    CallerTables <- SomeCallerTables
    Cooldown = 1
    MaxSlot = 4
    MaxLength = 2
INVARIANTS
    SnapshotsResolve
PROPERTIES
    RefreshIsAtomic
CHECK_DEADLOCK FALSE
