CONSTANTS
    None = None
    BackoffBase = 2
    Instruments = {btc}
    Routed = {btc}
    Execs = {e1, e2, e3}
    MaxSlices = 1
    Cooldown = 2
    ExecTimeout = 2
    ConfirmTimeout = 2
    Redis = FALSE
    LockTTL = 9
    MaxTime = 4
    MaxRedisErrors = 0
    MaxCrashes = 0
SPECIFICATION Spec
SYMMETRY ExecSymmetry
INVARIANTS TypeOK AtMostOneOverrun BackoffHonoured
CHECK_DEADLOCK FALSE
