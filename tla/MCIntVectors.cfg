CONSTANTS
  Half <- HalfUnix
  VectorTypes <- AllVectors
  PyInts <- Ints64
SPECIFICATION Spec
INVARIANT ValueKept
