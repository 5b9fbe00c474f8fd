SPECIFICATION FairSpec
CONSTANTS
  t1 = t1
  t2 = t2
  Threads = {t1, t2}
  Script = t1
  PageCount = 2
  PageSize = 2
  Requests <- MCRequests
  RingSize = 2
  MaxMonitors = 2
  Rules <- AllRules
INVARIANTS
  AccessSurvives
  UnfiredStaysGuarded
  ReportedAsRecorded
PROPERTIES
  CallsReturn
  ImplementsLog
CHECK_DEADLOCK FALSE
