SPECIFICATION Spec
CONSTANTS
  NumRegs = 4
  NumShifts = 2
  Address <- Addresses
  Word <- Words
  Marker = 524287
  Capacity = 4
  MainLimit = 48
  MainSize = 48
  DiskSize = 48
  NumCores = 2
  Quantum = 4
  Stride = 48
  Scenarios <- StoreScenarios
  MaxProcs = 2
  MaxSteps = 16
INVARIANTS
  StoresAreKept
