SPECIFICATION Spec
CONSTANTS
  p1 = p1
  p2 = p2
  p3 = p3
  NDep = 2
  NCtr = 3
  MaxOps = 2
  Procs <- TwoProcs
  Ops <- HoldOps
SYMMETRY Symmetry
PROPERTIES RetiredOnlyByReplacement
CHECK_DEADLOCK FALSE
