SPECIFICATION FairSpec
CONSTANTS
  t1 = t1
  t2 = t2
  Threads = {t1, t2}
  Script = t1
  Size = 3
  PatchSize = 2
  MaxBreakpoints = 2
  MaxHooks = 2
  Failures <- RelocationFails
  Rules <- RulesKept
INVARIANT
  Survives
PROPERTIES
  GetsOut
  ImplementsContract
CHECK_DEADLOCK FALSE
