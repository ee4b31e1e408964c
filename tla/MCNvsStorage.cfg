SPECIFICATION FairSpec
CONSTANTS
  Callers = {c1, c2}
  Keys = {ssid, password}
  Settings = {v1, v2}
INVARIANTS
  ReadableIsCommitted
PROPERTIES
  ImplementsStore
  MutexIsReleased
