CONSTANTS
    NumProcesses = 2
    OnFailure <- OnlyLastKillAll
    BaseTTL <- OneMiss
    NumSlots = 2
    MaxHangs = 1
    MaxCrashes = 1
SPECIFICATION FairSpec
INVARIANTS NobodyOutlivesStartup NoFatalError SlotAccounting KickReachesOwnUnit
PROPERTIES DeadIsReplaced
CHECK_DEADLOCK FALSE
