SPECIFICATION Spec
CONSTANTS
  p1 = p1
  p2 = p2
  p3 = p3
  d1 = d1
  d2 = d2
  Prev = prev
  None = none
  Promoters <- TwoPromoters
  Deps <- TwoDeps
  Faults <- AllFaults
  MaxMishaps = 2
INVARIANTS TypeOK NothingLost ServedAsRecorded
PROPERTIES KeepsPromise
SYMMETRY Interchangeable
CHECK_DEADLOCK FALSE
