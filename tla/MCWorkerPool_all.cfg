SPECIFICATION FairSpec
CONSTANTS
  Schedulers = {1, 2, 3}
  Workers = {w1, w2}
  MaxJobs = 2
  Spurious = TRUE
INVARIANT NothingAfterRelease
PROPERTIES
  OthersKeepTheirTasks
  ReleaseReturnsUnless
  TasksGetDone
ACTION_CONSTRAINT InOrder
CHECK_DEADLOCK FALSE
