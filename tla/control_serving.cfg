SPECIFICATION FairSpec
CONSTANTS
  Conns = {a, b}
  a = a
  b = b
  MaxId = 1
  SendCap = 6
  Script <- MixedScript
  Leavers = {}
  RehashAt = {2}
  None = None
INVARIANTS
  HelloBeforeLists
PROPERTIES
  IdSent
  AllAnswered
  
CHECK_DEADLOCK FALSE
