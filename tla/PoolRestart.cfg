\* Two turns of one conversation, two readers, and a reader and the generator that may die.
SPECIFICATION FairSpec
CONSTANTS
  c1 = c1  c2 = c2  t1 = t1  t2 = t2  t3 = t3  t4 = t4  t5 = t5  cpu0 = cpu0  cpu1 = cpu1  gpu = gpu  o1 = o1  o2 = o2
  Turns = {t1, t2}
  Convs = {c1, c2}
  ConvOf <- ConvOfEach
  Opening <- NewOpening
  Reads <- TwoReaders
  Typed = {t2}
  Unread = {}
  Backends = {cpu0, cpu1, gpu}
  SlotsOf <- OneSlot
  Generates = {cpu0, gpu}
  Pref <- GpuFirst
  Drainable = {}
  MaxDrains = 0
  Crashable = {cpu0, gpu}
  MaxCrashes = 1
  Faults = {"leave", "save", "restore", "read"}
  Size <- SizeOf  NCtx <- CtxOf  Handoff = TRUE  ParkMin = 1  ParkBudget = 2  MaxPins = 2
  NoConv = NoConv  NoOpening = NoOpening  NoBackend = NoBackend  NoSlot = NoSlot  NoTurn = NoTurn  NoPin = NoPin
  NoFile = NoFile  Worker = Worker  Operator = Operator  Empty = Empty  SharedOpening = SharedOpening  Torn = Torn
INVARIANTS TypeOK BusyIsTurns CurrentCopyIsCurrent ParkedIsThere
PROPERTIES EveryTurnEnds
CHECK_DEADLOCK FALSE
