SPECIFICATION QueueFairSpec
CONSTANTS
  Delays = {1}
  Priorities = {2}
  Intervals = {0, 1}
  CallbackEvents <- Later
  Targets = {1}
  HostSetsTime = TRUE
  MayCancel = TRUE
  MaxEvents = 3
  MaxFired = 2
  MaxTime = 1
INVARIANTS
  QueueIsSane
  OneShotFiresOnce
PROPERTIES
  ProcessingEnds
