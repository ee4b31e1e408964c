SPECIFICATION FairSpec
CONSTANTS
  Callers = {c1, c2}
  Ssids = {home, lab}
  MaxEvents = 2
INVARIANTS
  ConnectedIsBacked
PROPERTIES
  OwnNetworkIsJoined
  DisabledIsNotRetried
  RetryIsAttempted
