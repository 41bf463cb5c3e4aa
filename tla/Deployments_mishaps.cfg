SPECIFICATION Spec
CONSTANTS
  p1 = p1
  p2 = p2
  p3 = p3
  NDep = 3
  NCtr = 3
  MaxOps = 3
  Procs <- TwoProcs
  Ops <- MishapOps
SYMMETRY Symmetry
INVARIANTS OneActive ReviewGate RollbackNeverHeld
PROPERTIES NoRevival
CHECK_DEADLOCK FALSE
