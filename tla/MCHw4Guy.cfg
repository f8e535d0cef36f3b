CONSTANTS
  N = 3
  ChunkSize = 2
  Byte = 2
  InputFiles <- AllInputs
  Faults <- AllFaults
SPECIFICATION FairSpec
INVARIANTS IInv EachBlockOnce WholeExact WholeComplete
PROPERTY WholeEnds
CHECK_DEADLOCK FALSE
