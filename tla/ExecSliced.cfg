CONSTANTS
    None = None
    BackoffBase = 1
    Instruments = {btc}
    Routed = {btc}
    Execs = {e1, e2}
    MaxSlices = 2
    Cooldown = 1
    ExecTimeout = 1
    ConfirmTimeout = 1
    Redis = FALSE
    LockTTL = 9
    MaxTime = 1
    MaxRedisErrors = 0
    MaxCrashes = 0
SPECIFICATION FairSpec
INVARIANTS OneExecutionPerInstrument
PROPERTIES LockImplemented EveryExecutionEnds
CHECK_DEADLOCK FALSE
