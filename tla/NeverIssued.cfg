CONSTANTS
  ca1 = ca1
  ca2 = ca2
  s1 = s1
  s2 = s2
  NoRow = NoRow
  NoTime = NoTime
  Unwritable = Unwritable
  NoAnswer = NoAnswer
  CAs = {ca1, ca2}
  Profiles = {profile}
  Txns = {txn}
  Serials = {s1, s2}
  OcspReqs = {o1}
  CrlReqs = {}
  Revokers = {v1}
  Paths = {ca1}
  Questions <- BothIssuers
  Stamps = {0}
  MaxTime = 1
SPECIFICATION Spec
INVARIANTS
  NeverIssuedIsUnknown
CHECK_DEADLOCK FALSE
