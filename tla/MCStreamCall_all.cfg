SPECIFICATION FairSpec
CONSTANTS
  c1 = c1
  c2 = c2
  c3 = c3
  None = None
  Calls = {c1, c2, c3}
  ObserverCap = 1
  SlotCapacity = 1
  MaxReplay = 1
  MaxPush = 1
  U32 = 65536
INVARIANTS
  OneOpInFlight
  PumpsWithinCap
  OwnCompletion
PROPERTY EndedCallsAreReclaimed
CHECK_DEADLOCK FALSE
