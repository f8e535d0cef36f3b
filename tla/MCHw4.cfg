CONSTANTS
  N = 3
  ChunkSize = 2
  InputFiles <- AllInputs
  Namings <- AllNamings
  FaultSets <- AllFaultSets
SPECIFICATION FairSpec
INVARIANTS IInv OutputExact CreatedComplete AsleepOnlyInCompleteRound EachBlockOnce
PROPERTIES ImplementsXorFile EventuallyCreated
CHECK_DEADLOCK FALSE
