SPECIFICATION Spec
CONSTANTS
  p1 = p1
  p2 = p2
  p3 = p3
  NoProc = NoProc
  Procs = {p1, p2}
  NumCores = 2
  Quantum <- MixedQuantum
  Prints = {p1}
  Budget <- TwoInstructions
  BatchSize = 5
INVARIANT
  NoProcessLost
