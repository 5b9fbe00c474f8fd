SPECIFICATION Spec
CONSTANTS
  Programs <- MCPrograms
  PatchBytes = 3
INVARIANTS
  RunsAlike
  LeavesForATarget
CHECK_DEADLOCK FALSE
