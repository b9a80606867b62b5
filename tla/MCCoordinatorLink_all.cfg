SPECIFICATION LinkFairSpec
CONSTANTS
  MaxQueued = 2
  MaxSeq = 4
INVARIANTS
  UpdatesAccounted
  GapsAreCounted
  CancelReachesPush
PROPERTIES
  UpdatesAreTaken
  ReaderReconnects
CHECK_DEADLOCK FALSE
