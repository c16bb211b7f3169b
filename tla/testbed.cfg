SPECIFICATION FabSpec
CONSTANTS
  Size = 4
  Workers = 2
  BasePort = 3000
  Faults = 1
  Regions = 2
  Quota = 2
  MaxTasks = 4
  MaxFailures = 1
  BenchParams <- MCBenchParams
  CreateNodes = {1, 2}
  StartMax = {1}
INVARIANTS
  FabTypeOK
  EndpointsDistinct
  EnginesHaveTheirApp
  ReportsAreTrue
  DeletesAreAllowed
  KillStops
PROPERTIES
  ClientsAreConfigured
  TasksEnd
CHECK_DEADLOCK FALSE
