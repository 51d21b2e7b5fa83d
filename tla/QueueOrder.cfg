SPECIFICATION Spec
CONSTANTS
  p1 = p1
  p2 = p2
  p3 = p3
  NoProc = NoProc
  Procs = {p1, p2, p3}
  NumCores = 2
  LongQuantum = 2
  Quantum <- SameQuantum
  Prints = {p1}
  Budget <- OneInstruction
  BatchSize = 2
  Policies = {"SJN", "PRIORITY"}
  Key <- TwoKeys
INVARIANTS
  BestFirst
PROPERTIES
  PassedOnlyByBetter
