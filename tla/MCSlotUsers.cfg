CONSTANTS
  Procs = {p1, p2}
  Minors = {0, 1}
  short = short
  fits = fits
  long = long
  tooLong = tooLong
  Messages = {short, fits, long, tooLong}
  Params = {0, 1, 4}
  Length <- MessageLength
  ReadSizes = {4}
  BufLen = 2
  MaxBufferSize = 4
  PointerSize = 1
  MaxNodes = 2
  Serial = FALSE
  Jobs <- AllJobs
SPECIFICATION UsersSpec
SYMMETRY ProcSymmetry
INVARIANTS UsersInv UndisturbedSucceeds ReadsOwnChannel
PROPERTY ReadsLastSent
CHECK_DEADLOCK FALSE
