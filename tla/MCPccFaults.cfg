CONSTANTS
  Byte = 8
  Printable <- TwoPrintable
  c1 = c1
  c2 = c2
  Clients = {c1, c2}
  NoClient = NoClient
  Faults = {"sigint", "client", "resources", "slowStart"}
  ExitAfterConnection = TRUE
  Payloads <- OnePayload
  MaxRandom = 8
SPECIFICATION Spec
INVARIANTS AnswersCounted
CHECK_DEADLOCK FALSE
