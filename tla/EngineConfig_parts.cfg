SPECIFICATION Spec
CONSTANTS
  Null = Null
  Tools = {t1, t2}
  ReadOnly = {t1}
  Rules = {{}, {t2}, {"*"}}
  MaxBlocks = 1
  MaxNames = 1
INVARIANTS ChildNoFreer OfferedInScope
PROPERTIES PartsCarriedOver
