SPECIFICATION Spec
CONSTANTS
  p1 = p1
  p2 = p2
  p3 = p3
  NoProc = NoProc
  Procs = {p1, p2, p3}
  NumCores = 2
  Quantum <- MixedQuantum
  Prints = {p1, p2}
  Budget <- TwoInstructions
  BatchSize = 2
INVARIANTS
  TypeOK
  OnePlace
  CountersAgree
  StateMatchesPlace
  OnlyBlockedAreDropped
  DoneMeansAllFinished
PROPERTIES
  FinishedIsFinal
  NoOvertaking
