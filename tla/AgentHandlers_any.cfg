SPECIFICATION Spec
CONSTANTS
  Requests = {q1, q2, q3}
  Methods = {"run", "configure", "abort", "tool.register", "mcp.register", "history", "inject", "summarize"}
  Tools = {t1}
  NoRun = NoRun
INVARIANTS RunSlotIsTheRun StreamsDoNotInterleave RebuildLosesNothing
PROPERTIES BusyHasACause
