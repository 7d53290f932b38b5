SPECIFICATION Spec
CONSTANTS
    x = x
    Agent = {a1}
    Call = {c1}
    Tool = {x}
    ToolOf <- SameTool
    Task = {t1, t2}
    Loads <- OnlyReview
    NoLimit = NoLimit
    NoWindow = NoWindow
INVARIANT
    NeedsApproval
