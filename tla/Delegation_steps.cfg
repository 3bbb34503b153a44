SPECIFICATION FairSpec
CONSTANTS
  Parallelisms = {0, 2}
  DefaultParallelism = 10
  Budgets = {0, 4}
  Lengths = {1, 3}
  MaxTasks = 3
  MaxSteps = 2
INVARIANTS
  ChildrenWithinLimit
  WorktreeLivesWithItsChild
PROPERTIES
  EveryTaskReported
  StepReturns
CHECK_DEADLOCK FALSE
