SPECIFICATION Spec
CONSTANTS
  Sessions = {a, b}
  PassiveSessions = {b}
  MaxGroup = 1
  MaxObject = 0
  SubgroupIDs = {0}
  Filters <- GroupZeroFilters
  NewGroupRequests = {1}
  CacheInterests <- NoCacheInterest
  deferPublishDone = TRUE
CHECK_DEADLOCK FALSE
INVARIANT DeferredEndIsTold
