SPECIFICATION Spec
CONSTANTS
  MaxConnects = 2
  MaxCommands = 1
  None = None
INVARIANT
  NoFreeze
CHECK_DEADLOCK FALSE
