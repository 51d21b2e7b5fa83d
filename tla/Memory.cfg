SPECIFICATION Spec
CONSTANTS
  Address <- FewAddresses
  Word = {1, 2}
  Marker = 2
  Capacity = 2
  MainLimit = 1
  MainSize = 1
  DiskSize = 1
  NumCores = 1
  MaxRefills = 2
INVARIANTS
  MemoryTypeOK
  CleanIsMemory
  EveryLineIsQueued
  QueueHoldsLinesAndRefills
  WithinCapacity
PROPERTIES
  ImplementsForgetfulMemory
CHECK_DEADLOCK FALSE
