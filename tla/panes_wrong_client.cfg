SPECIFICATION Spec
CONSTANTS
  MaxConnects = 2
  MaxCommands = 1
  None = None
INVARIANT
  EntriesOfClient
CHECK_DEADLOCK FALSE
