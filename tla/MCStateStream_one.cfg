SPECIFICATION FairSpec
CONSTANTS
  c1 = c1
  None = None
  Calls = {c1}
  RingCapacity = 2
  SlotCapacity = 2
  MaxSeq = 5
  Resumes = {0, 1, 2, 3, 4, 5}
INVARIANTS
  GapFree
  StreamInv
  LossIsReported
PROPERTIES
  KeepsContract
  UpdatesReachStreams
CHECK_DEADLOCK FALSE
