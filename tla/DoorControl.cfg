CONSTANTS
    Commands = {"ADD", "AUTHENTICATE", "GUEST_ACCESS_ENABLE", "GUEST_ACCESS_DISABLE"}
    MaxMessages = 3
SPECIFICATION FairSpec
INVARIANTS TypeOK CollisionNeedsTimeout EveryWaitHasDeadline AutomataAgree
PROPERTIES EveryWaitEnds ImplementsDoorPolicy
CHECK_DEADLOCK FALSE
