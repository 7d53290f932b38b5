\* One remote server that keeps getting traffic, one restart.
CONSTANTS
    d1 = d1
    d2 = d2
    w1 = w1
    Dest = {d1}
    Federation = {d1}
    Appservice = {}
    Cleanable = {}
    Worker = {w1}
    ShardId <- OneWorker
    Event = {1, 2}
    Addressed <- ToAll
    Room <- OneRoom
    DequeueLimit = 1
    MaxTries = 2
    StartupNetburst = TRUE
    StartupNetburstKeep <- KeepAll
    MaxCount = 1
    MaxChan = 2
    MaxRestarts = 1
SPECIFICATION FairSpec
PROPERTIES
    EventuallyDelivered
