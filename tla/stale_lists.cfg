SPECIFICATION Spec
CONSTANTS
  Conns = {a, b}
  a = a
  b = b
  MaxId = 1
  SendCap = 6
  Script <- QuietScript
  Leavers = {}
  RehashAt = {}
  None = None
INVARIANTS
  QuiescentListsCurrent
CHECK_DEADLOCK FALSE
