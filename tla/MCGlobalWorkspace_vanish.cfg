SPECIFICATION WorkspaceSpec
CONSTANTS
  Keys = {k1, k2}
  NoBroadcast = NoBroadcast
  MaxLevel = 2
  Boost = 1
  ArchiveLevel = 1
  Capacity = 2
  PreconsciousCap = 1
  MaxPool = 2
  Placed <- NonePlaced
  LogOutcomes <- AlwaysLogged
INVARIANTS
  NothingVanishes
