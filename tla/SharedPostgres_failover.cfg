SPECIFICATION Spec
CONSTANTS
  w1 = w1
  v1 = v1
  o1 = o1
  f1 = f1
  f2 = f2
  MaxContainers = 3
  Fresh <- OneFresh
  Watchers <- OneWatcher
  Provisioners <- Nobody
  Operators <- Nobody
  Probes = 3
  MaxWrites = 1
  MaxCommands = 0
  Faults <- Outage
  MaxMishaps = 1
PROPERTY FailoverCompletes
CHECK_DEADLOCK FALSE
