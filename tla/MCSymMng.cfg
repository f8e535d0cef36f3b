CONSTANTS
  Pattern <- ThreeSymbols
  Files <- AllFiles
  BufferSize = 2
  Faults = {"fork", "start", "fopen", "wrap"}
  TerminationBound = 3
SPECIFICATION FairSpec
INVARIANTS IInv InstancesCounted SlotsExact
PROPERTY AllEnd
CHECK_DEADLOCK FALSE
