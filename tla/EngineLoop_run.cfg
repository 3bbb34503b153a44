SPECIFICATION FairSpec
CONSTANTS
  Tools = {"t", "s"}
  Skills = {"s"}
  Parts = {"input guards", "tool guards", "output guards", "permission", "verifiers", "judge", "delegate"}
  MaxTurns = 4
  MaxStepRetries = 1
  MaxFailures = 2
  MaxRuns = 1
INVARIANTS TypeOK StopsForItsReason SkillLoadedOnce CancelStopsTheLoop
PROPERTIES RunReturns
