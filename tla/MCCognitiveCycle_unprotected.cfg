SPECIFICATION CycleSpec
CONSTANTS
  chat = chat
  plug = plug
  Plugins = {chat, plug}
  PhaseOrder <- TwoPlugins
  CorePlugins = {chat}
  EveryCycle = {chat, plug}
  TripAt = 2
INVARIANTS
  TroubledIsHeldOff
