CONSTANTS
  NoLifetime = NoLifetime
  NoEndpoint = NoEndpoint
  NoToken = NoToken
  NoAnswer = NoAnswer
  Calls = {c1, c2}
  Endpoints = {e1}
  Lifetimes <- ThreeLifetimes
  Minute = 1
  MaxInstant = 4
  Delay = 1
  MaxTime = 2
SPECIFICATION Spec
INVARIANTS
  TypeOK
  CachedTokenIsLive
  RequestsAreEquipped
  ApprovalIsIntunes
PROPERTIES
  EveryCallReturns
  ImplementsRemoteCall
CHECK_DEADLOCK FALSE
