SPECIFICATION CaseSpec
CONSTANTS
  Boards = {b1, b2}
  Claims = {c1}
  Items = {}
  Agents <- TwoAgents
  NoClaim = NoClaim
  NoAgent = NoAgent
  NoPacket = NoPacket
  AppendOutcomes <- MayFail
  MaxMessages = 6
  MaxPackets = 2
SYMMETRY RunSymmetry
INVARIANTS
  CaseTypeOK
  NoScanPromotesItself
  LedgeredCaseIsComplete
CHECK_DEADLOCK FALSE
