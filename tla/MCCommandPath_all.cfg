SPECIFICATION FairSpec
CONSTANTS
  c1 = c1
  c2 = c2
  u1 = u1
  Calls <- MCCalls
  Units <- MCUnits
  Coordinator = Coordinator
  Game = Game
  None = None
  Capacity = 2
  MaxBatch = 2
  MaxSeq = 2
  Batches <- MCBatches
INVARIANTS
  WholeBatches
  SlotHeldByOne
  BusyUnitsAreOurs
PROPERTIES
  KeepsCommandContract
  AcceptedIsWorkedOff
