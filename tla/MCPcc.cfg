CONSTANTS
  Byte = 4
  Printable <- OnePrintable
  c1 = c1
  c2 = c2
  Clients = {c1, c2}
  NoClient = NoClient
  Faults = {"sigint", "client"}
  ExitAfterConnection = FALSE
  Payloads <- MixedPayloads
  MaxRandom = 8
SPECIFICATION FairSpec
INVARIANTS IInv AnswerExact TotalsComplete ExitsOnlyOnSIGINT
PROPERTIES AcceptedServed StopsUnlessInAccept
CHECK_DEADLOCK FALSE
