SPECIFICATION FairSpec
CONSTANTS
    Requesters = {r1}
    MaxQueue = 1
    Prints <- TwoRuns
    MaxDays = 2
    FaultBudget = 2
CHECK_DEADLOCK FALSE
INVARIANTS TypeOK TotalsAreOfThisLog SinkIsTold RowsInOrder FlushCovers
PROPERTIES FlushEnds LogIsReadUp
