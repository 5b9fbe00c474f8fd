SPECIFICATION Spec
CONSTANTS
  t1 = t1
  t2 = t2
  Threads = {t1, t2}
  Script = t1
  Size = 2
  PatchSize = 2
  MaxBreakpoints = 2
  MaxHooks = 1
  Failures <- OpeningFails
  Rules <- RulesNestedOnly
INVARIANTS
  Restored
  JumpsLead
  MapsAgree
CHECK_DEADLOCK FALSE
