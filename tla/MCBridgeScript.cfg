SPECIFICATION Spec
CHECK_DEADLOCK FALSE
CONSTANTS
  Threads = {py, fw}
  PyThreads = {py}
  Workers = {fw}
  HostThread = none
  NoThread = none
  MaxDepth = 4
  PyCalls <- ModuleCalls
  NativeCalls <- ProxyFunctions
INVARIANTS
  TypeOK
  ApiUnderGil
  NoWaitHoldingGil
  EscapesOnlyUnprotected
PROPERTY ImplementsGilGuards
