CONSTANTS
  N = 3
  ChunkSize = 2
  InputFiles <- AllInputs
  Faults <- AllFaults
SPECIFICATION FairSpec
INVARIANT IInv
PROPERTIES ImplementsXorFile EndsOrTurnLost
CHECK_DEADLOCK FALSE
