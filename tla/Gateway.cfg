CONSTANTS
    boss = boss
    bossPin = bossPin
    card = card
    stain = stain
    NoOwner = NoOwner
    Garbled = Garbled
    OutOfRange = OutOfRange
    Identifiers = {bossPin, card, stain}
    Malformed = {stain}
    Staff = {boss}
    Guests = {"GUEST_0", "GUEST_1"}
    TypedLevels <- Typed
    Required <- InstalledRequired
    InitialOwner <- InstalledOwners
    InitialClearance <- InstalledClearances
    Pacings = {TRUE, FALSE}
    LogQueueSize = 1
    MaxRequests <- RequestBounds
    MaxCrashes = 1
SPECIFICATION FairSpec
INVARIANTS TypeOK OwnersExist PacedAuthorizedOnly PacedRowsNameAuthors
PROPERTIES GatewaySettles ImplementsAccessRights
CHECK_DEADLOCK FALSE
