SPECIFICATION Spec
CONSTANTS
  Threads = {py, fw}
  PyThreads = {py}
  Workers = {fw}
  HostThread = none
  NoThread = none
  MaxDepth = 3
  PyCalls <- OneCall
  NativeCalls <- BlockCalls
INVARIANTS
  IncrefUnderGil
