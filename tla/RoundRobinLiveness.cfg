SPECIFICATION FairSpec
CONSTANTS
  p1 = p1
  p2 = p2
  p3 = p3
  NoProc = NoProc
  Procs = {p1, p2, p3}
  NumCores = 2
  Quantum <- MixedQuantum
  Prints = {p2}
  Budget <- UnevenPrograms
  BatchSize = 2
PROPERTIES
  ReadyIsDispatched
  BlockedIsReleased
  NonPrintingFinish
  ImplementsLifecycle
