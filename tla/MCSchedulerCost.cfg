SPECIFICATION CostSpec
CONSTANTS
  MaxTasks = 3
  MaxDepth = 2
  MaxTime = 5
  Durations <- MCDurations
  Results = {"r"}
  NoResult = NoResult
  Slack = 0
INVARIANTS
  WaitingOverlaps
