\* A system prompt with three sessions, one request with none, a start inside a message, and room for two openings.
SPECIFICATION FairSpec
CONSTANTS
  t1 = t1  t2 = t2  t3 = t3  t4 = t4  t5 = t5  t6 = t6  k1 = k1  k2 = k2  l1 = l1  l2 = l2  l3 = l3  x = x  y = y  z = z
  Requests = {t1, t2, t3, t5, t6}
  HasOwn = {t6}
  Base <- TwoBases
  NoKey = NoKey
  Lead <- LeadOfEach
  Lines = {x, y, z}
  Text <- Messages
  OnBase = {t1, t2, t3}
  Least = 1  MaxHeads = 8  BlockBudget = 2
  Adopted <- OneAdopted
  Faults = {"load", "read", "leave", "patience"}
INVARIANTS TypeOK OneReader StartsAreKnown NoStrayFile
PROPERTIES EveryRequestEnds
CHECK_DEADLOCK FALSE
