SPECIFICATION Spec
CONSTANTS
  Units <- MCUnits
  Commands <- MCCommands
  Batches <- MCBatches
  Settings <- MCSettings
  KnownDefs <- MCKnownDefs
  MaxCommands = 2
  HalfRange = 4
  None = None
INVARIANTS
  ActsOnItsTarget
  AcceptedHasTarget
  AnnouncedArrives
CHECK_DEADLOCK FALSE
