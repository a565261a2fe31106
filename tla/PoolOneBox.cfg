\* One backend with one slot, which an operator drains and restarts.
SPECIFICATION Spec
CONSTANTS
  c1 = c1  c2 = c2  t1 = t1  t2 = t2  t3 = t3  t4 = t4  t5 = t5  cpu0 = cpu0  cpu1 = cpu1  gpu = gpu  o1 = o1  o2 = o2
  Turns = {t1, t2, t3, t4}
  Convs = {c1, c2}
  ConvOf <- ConvOfEach
  Opening <- OneOpening
  Reads <- ReadsAll
  Typed = {t3}
  Unread = {}
  Backends = {cpu0}
  SlotsOf <- OneSlot
  Generates = {cpu0}
  Pref <- Peers
  Drainable = {cpu0}
  MaxDrains = 1
  Crashable = {}
  MaxCrashes = 0
  Faults = {"read"}
  Size <- SizeOf  NCtx <- CtxOf  Handoff = TRUE  ParkMin = 1  ParkBudget = 2  MaxPins = 2
  NoConv = NoConv  NoOpening = NoOpening  NoBackend = NoBackend  NoSlot = NoSlot  NoTurn = NoTurn  NoPin = NoPin
  NoFile = NoFile  Worker = Worker  Operator = Operator  Empty = Empty  SharedOpening = SharedOpening  Torn = Torn
INVARIANTS NoForeignCopy
PROPERTIES CacheNeverLost
CHECK_DEADLOCK FALSE
