CONSTANTS
    NumProcesses = 2
    OnFailure <- AllKillAll
    BaseTTL <- TwoMisses
    NumSlots = 2
    MaxHangs = 1
    MaxCrashes = 1
SPECIFICATION FairSpec
INVARIANTS TypeOK
PROPERTIES FailureStopsAll EveryClientIsServed
CHECK_DEADLOCK FALSE
