CONSTANTS
  Byte = 8
  Printable <- TwoPrintable
  c1 = c1
  c2 = c2
  Clients = {c1}
  NoClient = NoClient
  Faults = {}
  ExitAfterConnection = FALSE
  Payloads <- LongPayload
  MaxRandom = 8
SPECIFICATION FairSpec
PROPERTY AcceptedServed
CHECK_DEADLOCK FALSE
