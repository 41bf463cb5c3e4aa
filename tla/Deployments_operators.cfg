SPECIFICATION Spec
CONSTANTS
  p1 = p1
  p2 = p2
  p3 = p3
  NDep = 2
  NCtr = 3
  MaxOps = 3
  Procs <- TwoProcs
  Ops <- OperatorOps
SYMMETRY Symmetry
INVARIANTS TypeOK OneActive ReviewGate
PROPERTIES NoRevival
CHECK_DEADLOCK FALSE
