CONSTANTS
    hw = hw
    watchdog = watchdog
    main = main
    db = db
    NoName = NoName
    Mailboxes = {hw, main, db}
    Links <- SystemLinks
    Notices <- NoPairs
    Listeners <- MainDb
    Options <- Timed
    QueueSize = 2
    MaxSends = 2
    MaxSignals = 1
    MaxCrashes = 0
SPECIFICATION Spec
INVARIANTS IdleStateMatchesWaitingList
PROPERTIES SendDeliversOrWedges WedgeIsPermanent
CHECK_DEADLOCK FALSE
