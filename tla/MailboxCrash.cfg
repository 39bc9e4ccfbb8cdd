CONSTANTS
    hw = hw
    watchdog = watchdog
    main = main
    db = db
    NoName = NoName
    Mailboxes = {hw, db, main}
    Links <- StarLinks
    Notices <- DbNotice
    Listeners <- MainOnly
    Options <- Mixed
    QueueSize = 2
    MaxSends = 2
    MaxSignals = 0
    MaxCrashes = 1
SPECIFICATION Spec
INVARIANTS ReceivedInOrder CallMatchesAutomaton
CHECK_DEADLOCK FALSE
