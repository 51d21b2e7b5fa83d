SPECIFICATION FairSpec
CONSTANTS
  p1 = p1
  p2 = p2
  p3 = p3
  NoProc = NoProc
  Procs = {p1, p2}
  NumCores = 2
  Quantum <- MissingQuantum
  Prints = {}
  Budget <- OneInstruction
  BatchSize = 2
PROPERTY
  AllFinish
