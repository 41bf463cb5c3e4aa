SPECIFICATION Spec
CONSTANTS
  w1 = w1
  v1 = v1
  o1 = o1
  f1 = f1
  f2 = f2
  MaxContainers = 4
  Fresh <- TwoFresh
  Watchers <- OneWatcher
  Provisioners <- Tenant
  Operators <- Operator
  Probes = 1
  MaxWrites = 2
  MaxCommands = 1
  Faults <- AllFaults
  MaxMishaps = 2
INVARIANTS TypeOK OneWriter DataKept
PROPERTIES FencedCopyKept PromotionServes StandbyRestored
CONSTRAINT Unspoiled
CHECK_DEADLOCK FALSE
