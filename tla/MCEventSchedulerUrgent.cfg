SPECIFICATION QueueSpec
CONSTANTS
  Delays = {0}
  Priorities = {2}
  Intervals = {}
  CallbackEvents <- Urgent
  Targets = {}
  HostSetsTime = TRUE
  MayCancel = FALSE
  MaxEvents = 3
  MaxFired = 2
  MaxTime = 1
INVARIANTS
  PendingEventsAreProcessed
