SPECIFICATION SpineSpec
CONSTANTS
  Ids = {i1, i2}
  Threads = {t1, t2}
  Concepts = {c1}
  NoConcept = NoConcept
  NoRow = NoRow
  MaxWorth = 1
  Threshold = 1
  MaxMemories = 1
  Breaks <- NoBreaks
INVARIANTS
  StoresAgree
CHECK_DEADLOCK FALSE
