\* Two conversations that share a slot, one handler, room for one copy.
SPECIFICATION Spec
CONSTANTS
  c1 = c1  c2 = c2  c3 = c3  h1 = h1  h2 = h2
  Convs = {c1, c2}  NoConv = NoConv
  Handlers = {h1}
  Worker = Worker  Main = Main
  Slots = {1}  NoSlot = NoSlot
  ParkBudget = 1
  Dies = FALSE  AnyLateTurn = TRUE  Faulty = {}
PROPERTY SweepSparesTheWriter
