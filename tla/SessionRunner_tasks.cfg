SPECIFICATION Spec
CONSTANTS
  NumTasks = 3
  MaxSessions = 5
  MaxLoops = 3
  MaxAccidents = 2
INVARIANTS FileFollows LossPerAccident
PROPERTIES NotRunTwice LoopReturns
