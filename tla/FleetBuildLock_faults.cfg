SPECIFICATION FairSpec
CONSTANTS
  d1 = d1
  d2 = d2
  t1 = t1
  t2 = t2
  Deps <- TwoDeps
  Tasks <- TwoTasks
  DepOf <- OneEachOfTwo
  NSlots = 1
  Faults <- AllFaults
INVARIANTS TypeOK ExclusiveUntilDisturbed
PROPERTIES GhostSlotsFreed
CHECK_DEADLOCK FALSE
