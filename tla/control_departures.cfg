SPECIFICATION FairSpec
CONSTANTS
  Conns = {a, b}
  a = a
  b = b
  MaxId = 1
  SendCap = 1
  Script <- NameScript
  Leavers = {a}
  RehashAt = {2}
  None = None
INVARIANTS
  TypeOK
  RegistryOwned
  SendersWait
  NobodyForgotten
PROPERTIES
  EofCleansUp
  LeasesKept
CHECK_DEADLOCK FALSE
