\* One remote server: failures, flushes, ephemeral updates, a restart.
CONSTANTS
    d1 = d1
    d2 = d2
    w1 = w1
    Dest = {d1}
    Federation = {d1}
    Appservice = {}
    Cleanable = {}
    Worker = {w1}
    ShardId <- OneWorker
    Event = {1, 2}
    Addressed <- ToAll
    Room <- TwoRooms
    DequeueLimit = 2
    MaxTries = 2
    StartupNetburst = TRUE
    StartupNetburstKeep <- KeepAll
    MaxCount = 2
    MaxChan = 2
    MaxRestarts = 1
SPECIFICATION Spec
INVARIANTS
    TypeOK
    NoPanic
    SingleTransaction
PROPERTIES
    EduAtMostOnce
    ImplementsOutbox
