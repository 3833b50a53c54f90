SPECIFICATION FairSpineSpec
CONSTANTS
  Ids = {i1, i2, i3}
  Threads = {t1, t2}
  Concepts = {c1}
  NoConcept = NoConcept
  NoRow = NoRow
  MaxWorth = 0
  Threshold = 0
  MaxMemories = 1
  Breaks <- AllBreaks
INVARIANTS
  SpineTypeOK
  NoSilentMemory
PROPERTIES
  ForgottenStaysForgotten
  BecomesRecallable
CHECK_DEADLOCK FALSE
