SPECIFICATION LiveSpec
CONSTANTS
  Cap = 2
  Sock = 2
  Names = {"a", "b"}
  Hostname <- MCHostname
  Address = "address"
  MaxCommands = 3
  MaxCopies = 2
INVARIANTS TypeOK NameShown
PROPERTIES  UiReturns
CHECK_DEADLOCK FALSE
