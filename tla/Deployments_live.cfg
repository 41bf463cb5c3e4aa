SPECIFICATION FairSpec
CONSTANTS
  p1 = p1
  p2 = p2
  p3 = p3
  NDep = 2
  NCtr = 2
  MaxOps = 3
  Procs <- TwoProcs
  Ops <- LiveOps
PROPERTIES NoGhostRows DeadGreenReaped
CHECK_DEADLOCK FALSE
