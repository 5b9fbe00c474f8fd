SPECIFICATION FairSpec
CONSTANTS
  Threads = {t1}
  Subsystems <- MCSubsystems
  Handles <- MCHandles
  Forgetful <- MCForgetful
  Original <- MCOriginal
  RequestedTypes <- MCRequestedTypes
  MaxId = 5
  MaxJsId = 1
INVARIANTS
  TypeOK
  RefsKeepHandlers
  ClaimedReachesOwner
  OriginalsRecoverable
  DisableRestores
PROPERTIES
  SignalResolved
  ImplementsOwnership
CHECK_DEADLOCK FALSE
