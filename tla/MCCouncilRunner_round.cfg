SPECIFICATION CouncilSpec
CONSTANTS
  Boards = {b1}
  Claims = {c1}
  Items = {e1}
  Agents <- TwoAgents
  NoClaim = NoClaim
  NoAgent = NoAgent
  NoPacket = NoPacket
  AppendOutcomes <- AlwaysAppended
  MaxMessages = 7
  MaxPackets = 2
INVARIANTS
  CouncilTypeOK
  RefsBacked
  DecisionsDurable
  OnlyEvidenceAgentAccepts
  RoundOutcome
  PublishedIsJournalled
  NeverAheadOfClaim
PROPERTIES
  StampsNeverTakenBack
  KeepsDossier
