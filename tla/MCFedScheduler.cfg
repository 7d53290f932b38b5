SPECIFICATION Spec
CONSTANTS
    Dest = {d1, d2}
    Driver = {v1}
    Modes <- AllModes
    NoBackoff = NoBackoff
    BASE_BACKOFF_MS = 1
    CAP_BACKOFF_MS = 2
    GracefulShutdown = TRUE
    MaxSeq = 3
    MaxAttempt = 3
SYMMETRY Symmetric
INVARIANTS
    TypeOK
    KeysFresh
    HealthMirrors
    DeliveredClears
    AvailableSoon
