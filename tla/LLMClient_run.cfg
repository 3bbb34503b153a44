SPECIFICATION FairSpec
CONSTANTS
  MaxRetries = 1
  MaxStepRetries = 1
  MaxTurns = 3
  ChanCap = 2
  MaxPieces = 3
INVARIANTS
  AnswerWholeOrCut
  WrapperSawTheAnswer
  NoRetryBehindText
PROPERTY RunReturns
