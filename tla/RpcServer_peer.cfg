SPECIFICATION FairSpec
CONSTANTS
  Requests = {r1, r2}
  Notifications = {r2}
  MaxCalls = 2
  MaxLines = 4
INVARIANTS
  ReaderNeverBlocks
  NoLostResponse
PROPERTY
  ImplementsCalls
  EOFEndsProcess
