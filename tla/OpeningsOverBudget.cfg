\* Two openings are read together, with room for one.
SPECIFICATION Spec
CONSTANTS
  t1 = t1  t2 = t2  t3 = t3  t4 = t4  t5 = t5  t6 = t6  k1 = k1  k2 = k2  l1 = l1  l2 = l2  l3 = l3  x = x  y = y  z = z
  Requests = {t1, t4}
  HasOwn = {}
  Base <- TwoBases
  NoKey = NoKey
  Lead <- LeadOfEach
  Lines = {x, y, z}
  Text <- NoMessages
  OnBase = {}
  Least = 1  MaxHeads = 8  BlockBudget = 1
  Adopted <- NoneAdopted
  Faults = {}
INVARIANTS BudgetKept
CHECK_DEADLOCK FALSE
