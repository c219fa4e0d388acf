CONSTANTS
    None = None
    BackoffBase = 1
    Instruments = {btc}
    Routed = {btc}
    Execs = {e1, e2}
    MaxSlices = 1
    Cooldown = 1
    ExecTimeout = 2
    ConfirmTimeout = 9
    Redis = TRUE
    LockTTL = 1
    MaxTime = 2
    MaxRedisErrors = 1
    MaxCrashes = 1
SPECIFICATION Spec
SYMMETRY ExecSymmetry
INVARIANTS OverlapOnlyAfterTTL NoOrphanedEntry
CHECK_DEADLOCK FALSE
