SPECIFICATION VaultSpec
CONSTANTS
  Processes = {p1}
  Modes <- BothModes
  Faults <- NoFaults
  RotateAt = 6
  Window = 4
  MinUsable = 2
  LongLines = {}
  MaxBlocks = 5
PROPERTIES
  SealNeedsAnchor
