SPECIFICATION FairBypassSpec
CONSTANTS
  MaxTasks = 3
  MaxDepth = 2
  MaxTime = 2
  Durations = {0, 1}
  Results = {"r"}
  NoResult = NoResult
  Slack = 1
INVARIANTS
  TypeOK
  AwaitResumesWhenDone
  RunsOnlyWhenDue
  AwaitingMatchesPC
  DeadlockIsReal
  BoundedBypass
PROPERTIES
  ImplementsFutures
  AwaitedResultArrives
  SleeperWakes
