SPECIFICATION Spec
CONSTANTS
  t1 = t1
  t2 = t2
  Threads = {t1, t2}
  Script = t1
  Code <- ThreeInstructions
  Data <- TwoVariables
  MaxHw = 2
  MaxIds = 3
  Rules <- EitherFirst
  Size = 3
  Advance = 1
PROPERTY
  InOrder
CHECK_DEADLOCK FALSE
