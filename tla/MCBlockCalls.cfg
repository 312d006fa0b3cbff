SPECIFICATION Spec
CONSTANTS
  Script = script
  Worker = worker
  Names = {"work", "setup", "inputs", "other"}
  PyNames = {"work", "inputs"}
  NativeNames = {"setup", "inputs"}
  RecursionLimit = 6
  Objs = {a, b, c}
  Alike = {a, b}
  Faulty = {b}
  Unhashable = {c}
  NoObj = none
CHECK_DEADLOCK FALSE
INVARIANTS
  TypeOK
  LiveDuringCalls
  BlocksFreed
  DiesOnlyForsaken
  CountsBalance
  AliveWhileConverted
  Snapshot
