CONSTANTS
    mainApplication = mainApplication
    inputLogic = inputLogic
    prompt = prompt
    notice = notice
    default = default
    Clients = {mainApplication, inputLogic}
    Prompts = {prompt}
    Notices = {notice}
    DefaultText = default
    QueueSize = 2
    MaxCommands = 3
    MaxCallbacks = 2
    MaxEnds = 1
SPECIFICATION FairSpec
INVARIANTS TypeOK DisplaySettles
PROPERTIES OpenDoorCloses
CHECK_DEADLOCK FALSE
