SPECIFICATION Spec
CONSTANTS
  MaxTasks = 3
  MaxPriority = 1
  Configs <- MCConfigs
  DeleteIds = {0, 1, 2, 3}
  DeleteCurrent = FALSE
  MaxId = 3
  MaxTime = 1
  MaxDelay = 1
  CounterMod = 4
  FollowRaced = FALSE
  EntryKinds = {TRUE}
CHECK_DEADLOCK FALSE
INVARIANTS
  ReadyQueueWellFormed
  CreatedTaskIsQueued
  ReadyCountCoversQueue
PROPERTIES
  HighestPriorityFirst
