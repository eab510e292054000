SPECIFICATION FairSpec
CONSTANTS
  MaxConnects = 2
  MaxCommands = 1
  None = None
INVARIANTS
  TypeOK
  OneReaderPerPane
  ReaderInUseStays
  AddressedRight
PROPERTIES
  CallsReturn
  PanesAnswered
  DialogsAnswered
CHECK_DEADLOCK FALSE
