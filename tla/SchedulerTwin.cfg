SPECIFICATION TwinSpec
CONSTANTS
  MaxTasks = 3
  MaxDepth = 1
  MaxTime = 3
  Durations = {1, 2}
  Results = {"r"}
  NoResult = NoResult
  Slack = 0
INVARIANTS
  ScheduleIndependentOfHost
CHECK_DEADLOCK FALSE
