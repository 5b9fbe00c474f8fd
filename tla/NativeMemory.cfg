SPECIFICATION Spec
CONSTANTS
  t1 = t1
  t2 = t2
  p1 = p1
  p2 = p2
  Threads <- MCThreads
  Pages <- MCPages
  Own <- MCOwn
  MaxCalls = 3
  Failures <- MCFailures
  Rules <- MCRules
INVARIANT
  ReadsStayInside
PROPERTIES
  ImplementsContract
  FaultsAreAnswered
CHECK_DEADLOCK FALSE
