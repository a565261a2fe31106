\* One anthropic stream, and a client that stops reading.
SPECIFICATION Spec
CONSTANTS
  Asks <- Opened
  Faults = {"stall"}
  MaxPings = 1
INVARIANT NothingAfterHalf
CHECK_DEADLOCK FALSE
