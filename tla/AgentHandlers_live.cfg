SPECIFICATION FairSpec
CONSTANTS
  Requests = {q1, q2, q3}
  Methods = {"run", "configure", "inject"}
  Tools = {t1}
  NoRun = NoRun
PROPERTIES EveryRequestAnswered
CHECK_DEADLOCK FALSE
