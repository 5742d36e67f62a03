SPECIFICATION CachesSpec
CONSTANTS
  Parts = {"cache", "intervals", "filters", "proxy", "handoff"}
  CacheScenario <- CacheRuns
  CacheGroup = 2
  CacheObject = 4
  ByteWord = 32
  SetGroup = 1
  SetObject = 2
  FilterGroup = 2
  FilterObject = 2
  ProxyScenario <- ProxyRuns
  ProxyGroup = 3
  ProxyObject = 4
  Capacity = 16
  MaxGroups = 2
  Groups = {0, 1, 2, 4}
  SubgroupIDs = {0}
INVARIANTS
  StateOK   RangesExact ProxyServes  HandoffIsClean
PROPERTY OwnershipGrows
CHECK_DEADLOCK FALSE
