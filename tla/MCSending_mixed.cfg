\* An appservice and a removable pusher share a worker; startup keeps one event.
CONSTANTS
    d1 = d1
    d2 = d2
    w1 = w1
    Dest = {d1, d2}
    Federation = {}
    Appservice = {d1}
    Cleanable = {d2}
    Worker = {w1}
    ShardId <- OneWorker
    Event = {1, 2, 3}
    Addressed <- FirstToLast
    Room <- OneRoom
    DequeueLimit = 2
    MaxTries = 2
    StartupNetburst = TRUE
    StartupNetburstKeep = 1
    MaxCount = 0
    MaxChan = 1
    MaxRestarts = 1
SPECIFICATION Spec
INVARIANTS
    TransactionIsActive
    NoEventLost
    InOrder
