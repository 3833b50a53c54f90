SPECIFICATION StoresSpec
CONSTANTS
  Ids = {i1, i2, i3}
  Threads = {t1, t2}
  Concepts = {}
  NoConcept = NoConcept
  NoRow = NoRow
  MaxWorth = 2
  Threshold = 1
  MaxMemories = 1
  Breaks <- AllBreaks
  Processes = {p1}
  Modes <- BothModes
  Faults <- AllFaults
  RotateAt = 3
  Window = 4
  MinUsable = 2
  LongLines = {2, 3}
  MaxBlocks = 5
  Writers = {w1, w2}
  Loggers = {l1}
  LoggerOf <- OneObject
  FullAt = 2
  MaxBackups = 2
  Quota = 1
  MaxRecords = 7
  DiskFaults <- AllDiskFaults
  Decisions = {d1, d2}
  Members = {m1, m2, nexus}
  Weaver = nexus
  MaxReflections = 1
  LoadLimit = 3
  MaxPending = 2
  MaxProposals = 4
  MaxPlans = 3
  Keys = {k1, k2, k3}
  NoBroadcast = NoBroadcast
  MaxLevel = 2
  Boost = 1
  ArchiveLevel = 1
  Capacity = 1
  PreconsciousCap = 1
  MaxPool = 1
  Placed <- AllPlaced
  LogOutcomes <- AlwaysLogged
SYMMETRY ThreadsAndKeys
INVARIANTS
  StoresTypeOK
  NoFork
  ChainVerifies
  SignedIsSealed
  OnlyTheDiskRaises
  RecordsNest
  WinsAreDecided
  OneActivePlan
  FewAreOffered
PROPERTIES
  PruneSparesProtected
  CapTakesTheCheapest
  LogIsDurable
  OnlyMovedFocusVanishes
  CycleRestoresOrder
CHECK_DEADLOCK FALSE
