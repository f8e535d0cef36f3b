CONSTANTS
  Procs = {p1, p2}
  Minors = {0, 1}
  short = short
  fits = fits
  long = long
  Messages = {short, fits, long}
  Params = {0, 4}
  Length <- MessageLength
  ReadSizes = {1, 2}
  BufLen = 2
  MaxBufferSize = 4
  PointerSize = 1
  MaxNodes = 2
  Serial = TRUE
SPECIFICATION Spec
SYMMETRY ProcSymmetry
INVARIANT SerialInv
PROPERTY ImplementsRegister
