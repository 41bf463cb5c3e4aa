SPECIFICATION Spec
CONSTANTS
  a = a
  b = b
  c = c
  Services = {a, b, c}
  Waves <- Plan
  Deps <- Needs
  MaxConcurrent = 1
  MaxWaits = 1
  MaxPending = 2
  MaxMishaps = 1
  Faults = {"memory", "cancel", "push", "die", "ghost", "crash"}
INVARIANTS TypeOK NoneForgotten
PROPERTIES DependenciesFirst FailFastHolds HonestCompletion EventuallySettled
CHECK_DEADLOCK FALSE
