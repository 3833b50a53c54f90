SPECIFICATION LogSpec
CONSTANTS
  s = s
  t = t
  a = a
  b = b
  Writers = {s, t}
  Loggers = {a, b}
  LoggerOf <- TwoObjects
  FullAt = 2
  MaxBackups = 2
  Quota = 1
  MaxRecords = 7
  DiskFaults = {}
INVARIANTS
  NewestAreKept
CHECK_DEADLOCK FALSE
