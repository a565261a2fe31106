\* Every kind of request, and every fault.
SPECIFICATION FairSpec
CONSTANTS
  Asks <- AllAsks
  Faults = {"leave", "stall", "reset", "refuse"}
  MaxPings = 2
INVARIANTS TypeOK EventsStayWhole NothingAfterEnd
PROPERTIES KeepsPromise StreamEnds
CHECK_DEADLOCK FALSE
