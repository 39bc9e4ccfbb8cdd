CONSTANTS
    hw = hw
    watchdog = watchdog
    main = main
    db = db
    NoName = NoName
    Mailboxes = {main, db}
    Links <- RequestReplyLinks
    Notices <- NoPairs
    Listeners <- MainDb
    Options <- Timed
    QueueSize = 2
    MaxSends = 1
    MaxSignals = 0
    MaxCrashes = 0
SPECIFICATION Spec
PROPERTIES SendDelivers
CHECK_DEADLOCK FALSE
