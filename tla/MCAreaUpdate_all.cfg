SPECIFICATION FairSpec
CONSTANTS
  AIs = {1, 2, 3}
  Team <- MCTeam
  Rate = 3
  Handover = 2
  MaxJoins = 3
INVARIANTS
  WriterIsAlone
  RoundsDoNotOverlap
PROPERTY UpdateCompletes
CHECK_DEADLOCK FALSE
