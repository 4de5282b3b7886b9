SPECIFICATION Spec
CONSTANTS
  Dbg <- MCDbg
  MaxPC = 5
  Entries = {0, 3}
  MaxTasks = 2
  MaxDepth = 3
INVARIANTS
  StepsEndWhereAsked
CHECK_DEADLOCK FALSE
