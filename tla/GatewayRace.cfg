CONSTANTS
    boss = boss
    bossPin = bossPin
    card = card
    stain = stain
    NoOwner = NoOwner
    Garbled = Garbled
    OutOfRange = OutOfRange
    Identifiers = {bossPin, card, stain}
    Malformed = {stain}
    Staff = {boss}
    Guests = {"GUEST_0"}
    TypedLevels <- Typed
    Required <- InstalledRequired
    InitialOwner <- InstalledOwners
    InitialClearance <- InstalledClearances
    Pacings = {FALSE}
    LogQueueSize = 1
    MaxRequests <- RequestBounds
    MaxCrashes = 1
SPECIFICATION Spec
INVARIANT RowsNameAuthors
CHECK_DEADLOCK FALSE
