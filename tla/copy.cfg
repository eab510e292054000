SPECIFICATION FairSpec
CONSTANTS
  FileLists <- AllLists
  Buf = 2
  Failing = {"sender", "receiver"}
  Clocks = {"same", "below_ms", "ms"}
INVARIANTS
  TypeOK
  
  
  CompletedMeansProxied
  FramingKept
PROPERTIES
  CopyEnds
  CopyArrives
CHECK_DEADLOCK FALSE
