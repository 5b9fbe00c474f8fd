SPECIFICATION Spec
CONSTANTS
  t1 = t1
  t2 = t2
  o1 = o1
  o2 = o2
  a1 = a1
  Threads <- MCThreads
  Objects <- MCObjects
  Addresses <- MCAddresses
  Size <- MCSize
  Exact <- MCExact
  Values <- MCValues
  MaxContexts = 2
  MaxCalls = 4
  Refusing <- MCRefusing
  Rules <- MCRules
SYMMETRY Symmetry
INVARIANTS
  OnlyLiveCallbacks
  HandlersWhileNeeded
  ValuesSurvive
CHECK_DEADLOCK FALSE
