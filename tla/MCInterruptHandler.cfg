SPECIFICATION FairSpec
CONSTANTS
  Pin = {0, 1}
  NSources = 2
  Size = 2
  MaxEvents = 1
  SchedulerEvents = 1
  EnableDebounce = TRUE
  TaskTypes = {"network"}
  NoEvent = NoEvent
  MaxMissed = 0
INVARIANTS
  ArmedPinHasSource
PROPERTIES
  TaskEventIsDispatched
  IsrEventIsDispatched
