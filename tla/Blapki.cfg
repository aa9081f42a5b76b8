CONSTANTS
  ca1 = ca1
  ca2 = ca2
  intune = intune
  open = open
  t = t
  s1 = s1
  s2 = s2
  NoRow = NoRow
  NoTime = NoTime
  Unwritable = Unwritable
  NoReq = NoReq
  NoSerial = NoSerial
  NoAnswer = NoAnswer
  CAs = {ca1, ca2}
  Profiles = {intune, open}
  Txns = {t}
  PrintableTxns = {t}
  Serials = {s1}
  CaOf <- MCCaOf
  Mode <- MCMode
  Requests <- MCRequests
  Reqs = {r1}
  OcspReqs = {o1}
  CrlReqs = {c1}
  Revokers = {v1}
  Paths = {ca2}
  Questions <- OneCertificate
  Stamps = {0, Unwritable}
  MaxTime = 1
  PoolSize = 1
SPECIFICATION Spec
INVARIANTS
  ConnectionsAreForStatements
  DeliveredIsKnown
PROPERTIES
  ImplementsEnrolment
  ImplementsResponder
  EveryHandlerEnds
CHECK_DEADLOCK FALSE
