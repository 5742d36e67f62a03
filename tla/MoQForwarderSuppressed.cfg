SPECIFICATION Spec
CONSTANTS
  Sessions = {a, b}
  PassiveSessions = {}
  MaxGroup = 1
  MaxObject = 0
  SubgroupIDs = {0}
  Filters <- GroupZeroFilters
  NewGroupRequests = {}
  CacheInterests <- NoCacheInterest
  deferPublishDone = FALSE
CHECK_DEADLOCK FALSE
INVARIANTS NobodyForwardsIsReported
SYMMETRY SessionSymmetry
