CONSTANTS
  Pattern <- ThreeSymbols
  Faults <- AllFaults
SPECIFICATION FairSpec
INVARIANTS IInv ListExact
PROPERTY ManagerEnds
CHECK_DEADLOCK FALSE
