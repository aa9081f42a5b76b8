CONSTANTS
  ca1 = ca1
  ca2 = ca2
  static = static
  intune = intune
  none = none
  unknown = unknown
  t = t
  u = u
  r1 = r1
  r2 = r2
  r3 = r3
  s1 = s1
  s2 = s2
  s3 = s3
  NoRow = NoRow
  NoTime = NoTime
  Unwritable = Unwritable
  NoReq = NoReq
  NoSerial = NoSerial
  CAs <- MCCAs
  CaOf <- MCCaOf
  Mode <- MCMode
  Profiles = {static, intune, none}
  Txns = {t, u}
  PrintableTxns = {t}
  Reqs = {r1, r2}
  Serials = {s1, s2}
  Requests <- AllRequests
SPECIFICATION Spec
PROPERTIES
  RowsPersist
  EveryRequestIsSettled
  ImplementsIssuance
CHECK_DEADLOCK FALSE
