\* Two writers at a time, one device, one crash that may lose the unflushed
\* log or one request broken off; limits of one.
CONSTANTS
    Device = {phone}
    EDU_LIMIT = 1
    SELECT_RECEIPT_LIMIT = 1
    SELECT_PRESENCE_LIMIT = 1
    MaxCount = 2
    MaxPending = 2
    MaxFault = 1
SPECIFICATION FairSpec
INVARIANTS TypeOK NoUpdateMissed InboxKept CounterAhead EduNotMissed
PROPERTY Delivered
