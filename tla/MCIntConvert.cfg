CONSTANTS
  Half <- HalfUnix
  VectorTypes <- FittingVectors
  PyInts <- Ints64
SPECIFICATION Spec
INVARIANTS TypeOK ValueKept
