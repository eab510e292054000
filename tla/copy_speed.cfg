SPECIFICATION FairSpec
CONSTANTS
  FileLists <- OneFile
  Buf = 2
  Failing = {}
  Clocks = {"same"}
PROPERTIES
  ProgressReported
CHECK_DEADLOCK FALSE
