SPECIFICATION LiveSpec
CONSTANTS
  Buf = 2
  Pipe = 2
  Menu <- MCMenu
  MaxRequests = 3
  Start <- MCStart
  Home <- MCHome
  Locked <- MCLocked
  Wide = 8
  Leaves = TRUE
  Dies = TRUE
INVARIANTS TypeOK ToldOfLoss
PROPERTIES Served Answered EndsReachAll
CHECK_DEADLOCK FALSE
