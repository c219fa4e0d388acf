CONSTANTS
    None = None
    Calls = {c1, c2, c3}
    Endpoints = 2
    MaxErrors = 3
SPECIFICATION FairSpec
INVARIANTS NoGap MinedOnce ReusedOnlyAfterFailover
PROPERTIES SentNonceMined MutexReleased
CHECK_DEADLOCK FALSE
