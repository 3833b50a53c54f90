SPECIFICATION ElysiumSpec
CONSTANTS
  Decisions = {d1}
  Members = {m1, m2, nexus}
  Weaver = nexus
  MaxReflections = 1
INVARIANTS
  DefaultDeny
CHECK_DEADLOCK FALSE
