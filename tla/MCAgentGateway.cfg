SPECIFICATION Spec
CONSTANTS
    x = x
    Agent = {a1}
    Call = {c1}
    Tool = {x}
    ToolOf <- SameTool
    Task = {t1, t2}
    Loads <- BusyOrQuiet
    NoLimit = NoLimit
    NoWindow = NoWindow
SYMMETRY Symmetric
INVARIANTS
    TypeOK
    AuditedFirst
    GateHolds
    RateBound
