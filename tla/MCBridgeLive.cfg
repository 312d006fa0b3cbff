SPECIFICATION FairSpec
CONSTANTS
  Threads = {host, fw}
  PyThreads = {}
  Workers = {fw}
  HostThread = host
  NoThread = none
  MaxDepth = 4
  PyCalls <- WaitingCall
  NativeCalls <- BlockCalls
INVARIANT ApiUnderGil
PROPERTY CallsReturn
