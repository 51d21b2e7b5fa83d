SPECIFICATION Spec
CONSTANTS
  p1 = p1
  p2 = p2
  p3 = p3
  NoProc = NoProc
  Procs = {p1, p2}
  NumCores = 2
  LongQuantum = 3
  Quantum <- SameQuantum
  Prints = {p1}
  Budget <- FirstLonger
  BatchSize = 1
  Policies = {"FCFS"}
  Key <- TwoKeys
INVARIANTS
  FinishedStatesKept
