SPECIFICATION FairSpec
CONSTANTS
  Callers = {p1, p2}
  Registrar = reg
  Transports = {"stdio", "sse"}
  QueueCap = 1
  MaxCalls = 4
  MaxNoise = 1
INVARIANTS
  NoAnswerVanishes
  HandshakeFirst
  FailedLeavesNoServer
PROPERTY
  ImplementsCalls
  DueCallsReturn
  AbortSeenAtNextLine
CHECK_DEADLOCK FALSE
