SPECIFICATION Spec
CONSTANTS
    Appender = {a1, a2}
    Auditor = {v1}
    Payload = {p, q}
    Free = Free
    MaxEntries = 3
    MaxEdits = 2
    MaxRestarts = 2
SYMMETRY Symmetric
INVARIANTS
    TypeOK
    ChainIntact
    AckedKept
    NoFalseBreak
    ManifestCovers
PROPERTIES
    TamperEvident
    SignedIntact
