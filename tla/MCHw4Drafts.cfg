CONSTANTS
  N = 3
  ChunkSize = 2
  InputFiles <- AllInputs
  Namings <- AllNamings
  FaultSets <- DraftFaultSets
  Versions <- AllVersions
SPECIFICATION DraftSpec
INVARIANTS DraftInv EachBlockOnce SmallFilesExact AllWritten
PROPERTIES Ends
CHECK_DEADLOCK FALSE
