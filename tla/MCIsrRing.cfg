SPECIFICATION Spec
CONSTANTS
  Event = {e1, e2}
  NoEvent = NoEvent
  Size = 4
  MaxMissed = 2
INVARIANTS
  ReadIsStable
  NeverSkipped
PROPERTIES
  ImplementsFifo
