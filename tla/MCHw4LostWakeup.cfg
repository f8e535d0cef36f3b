CONSTANTS
  N = 2
  ChunkSize = 2
  InputFiles <- AllInputs
  Namings <- OwnNamesOnly
  FaultSets <- NoFaults
SPECIFICATION Spec
INVARIANT NeverAllAsleep
CHECK_DEADLOCK FALSE
