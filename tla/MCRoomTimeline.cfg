SPECIFICATION Spec
CONSTANTS
    Remote = {a, b}
    Local = {l1}
    Root = root
    Task = {t1, t2}
    a = a
    b = b
    l1 = l1
    member = member
    create = create
    Parents <- Chain
    Slot <- Slots
    Sent = {b}
    Paged = {b}
    Signed = {a}
    Answers <- StateIds
    Joins <- SendJoins
    NoSlot = NoSlot
    NoTask = NoTask
    NoEvent = NoEvent
    MAX_FETCH = 0
    MAX_LEAVES = 1
    MaxFault = 1
SYMMETRY Symmetric
INVARIANTS
    TypeOK
    OnePlace
    StateKnown
    NoForkLost
