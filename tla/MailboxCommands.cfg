CONSTANTS
    hw = hw
    watchdog = watchdog
    main = main
    db = db
    NoName = NoName
    Mailboxes = {hw, watchdog, main, db}
    Links <- CommandLinks
    Notices <- HwNotice
    Listeners <- MainDb
    Options <- Timed
    QueueSize = 1
    MaxSends = 1
    MaxSignals = 0
    MaxCrashes = 0
SPECIFICATION FairSpec
INVARIANTS TypeOK HandshakesIntact NoFatalError
PROPERTIES SendDelivers EveryCallReturns ImplementsReliableSend
CHECK_DEADLOCK FALSE
