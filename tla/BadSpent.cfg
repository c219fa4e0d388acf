CONSTANTS
    None = None
    Instruments = {btc}
    Calls = {c1}
    OpenFor = 9
    DayLength = 9
    Costs = {1}
    Budgets = {2}
    MaxSlices = 3
    MaxTime = 1
    MaxSpent = 9
    MaxCrashes = 0
SPECIFICATION Spec
SYMMETRY CallSymmetry
INVARIANTS SpentWithinBudget
CHECK_DEADLOCK FALSE
