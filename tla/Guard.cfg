CONSTANTS
    None = None
    Instruments = {btc}
    Calls = {c1, c2}
    OpenFor = 2
    DayLength = 2
    Costs = {1, 2}
    Budgets = {0, 2}
    MaxSlices = 1
    MaxTime = 3
    MaxSpent = 3
    MaxCrashes = 1
SPECIFICATION FairSpec
INVARIANTS TypeOK OneClearPerCircuit OnlyEarlierChecksPass AcceptedWithinBudget
PROPERTIES CircuitStaysOpen CircuitCloses
CHECK_DEADLOCK FALSE
