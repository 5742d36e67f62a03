SPECIFICATION FairSpec
CONSTANTS
  Sessions = {a, b}
  PassiveSessions = {}
  MaxGroup = 0
  MaxObject = 1
  SubgroupIDs = {0}
  Filters <- StartFilters
  NewGroupRequests = {}
  CacheInterests = {TRUE, FALSE}
  deferPublishDone = FALSE
CHECK_DEADLOCK FALSE
PROPERTIES DrainsOut OpensInRange
