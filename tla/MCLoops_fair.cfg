SPECIFICATION FairLoopsSpec
CONSTANTS
  chat = chat
  plug = plug
  Callers = {p1, p2, p3}
  FailureThreshold = 3
  RecoveryTimeout = 2
  HalfOpenMaxCalls = 2
  Plugins = {chat, plug}
  PhaseOrder <- TwoPlugins
  CorePlugins = {chat}
  EveryCycle = {chat, plug}
  TripAt = 2
  Keys = {k1, k2, k3}
  NoBroadcast = NoBroadcast
  MaxLevel = 2
  Boost = 1
  ArchiveLevel = 1
  Capacity = 1
  PreconsciousCap = 1
  MaxPool = 1
  Placed <- NonePlaced
  LogOutcomes <- AlwaysLogged
  Tasks = {i1, i2}
  NoTask = NoTask
INVARIANTS
  LoopsTypeOK
  ClosedIsHealthy
  HalfOpenIsQuiet
  HalfOpenAdmits
  ShownOnce
PROPERTIES
  Recovers
  DisabledStaysOut
  NobodyStarves
  EverythingFades
  RemindersCome
