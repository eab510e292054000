SPECIFICATION FairSpec
CONSTANTS
  Conns = {a, b}
  a = a
  b = b
  MaxId = 1
  SendCap = 6
  Script <- QuietScript
  Leavers = {a}
  RehashAt = {}
  None = None
PROPERTIES
  IdSent
CHECK_DEADLOCK FALSE
