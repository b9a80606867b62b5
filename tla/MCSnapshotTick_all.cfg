SPECIFICATION TickFairSpec
CONSTANTS
  r1 = r1
  r2 = r2
  Requests <- MCRequests
  Cadence = 1
  MaxCadence = 3
  MaxFrame = 6
INVARIANTS
  SnapshotsKeepComing
PROPERTIES
  RequestsAreServed
CHECK_DEADLOCK FALSE
