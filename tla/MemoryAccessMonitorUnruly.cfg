SPECIFICATION FairSpec
CONSTANTS
  t1 = t1
  t2 = t2
  Threads = {t1, t2}
  Script = t1
  PageCount = 2
  PageSize = 2
  Requests <- MCOneRequest
  RingSize = 2
  MaxMonitors = 2
  Rules <- NoRules
INVARIANTS
  NoOrphanPage
  ReportsInOrder
PROPERTIES
  FaultResolved
CHECK_DEADLOCK FALSE
