SPECIFICATION Spec
CONSTANTS
  Threads = {py, host, fw}
  PyThreads = {py}
  HostThread = host
  NoThread = none
  MaxGuards = 5
INVARIANTS
  TypeOK
  GilFollowsGuards
  GuardsNest
  CounterCountsGuards
  SavedStateAlive
PROPERTY CloseRestores
