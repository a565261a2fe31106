SPECIFICATION Spec
CONSTANTS
    Requesters = {r1}
    MaxQueue = 1
    Prints <- TwoRuns
    MaxDays = 2
    FaultBudget = 0
CHECK_DEADLOCK FALSE
INVARIANT NewLogIsTold
