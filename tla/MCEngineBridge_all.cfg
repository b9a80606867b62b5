SPECIFICATION FairSpec
CONSTANTS
  c1 = c1
  c2 = c2
  c3 = c3
  alice = alice
  bob = bob
  None = None
  Calls <- MCCalls
  Requests <- MCRequests
  Callers <- MCCallers
  Enabled = TRUE
  CheatsAllowed = FALSE
  TransferEnabled = FALSE
  LeaseTtl = 2
  StaleAfter = 1
  MaxFrame = 3
INVARIANTS
  LeasesAreLive
  PromiseTellsEffect
PROPERTIES
  LeaseNotStolen
  CallsAreAnswered
  QueuesAreDrained
CHECK_DEADLOCK FALSE
