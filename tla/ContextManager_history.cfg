SPECIFICATION ManagerSpec
CONSTANTS
  Sizes = {1, 4}
  Reserves = {0, 3}
  Threshold = 7
  Target = 6
  KeepLast = 2
  Budget = 2
  TrimmedSize = 2
  MaskedSize = 1
  MarkerSize = 2
  SummarySize = 3
  Positions = {"prepend", "append", "replace"}
  MaxMessages = 5
INVARIANT CountsAgree
PROPERTIES PairsSurvive CompactedEnough ProtectedKept
