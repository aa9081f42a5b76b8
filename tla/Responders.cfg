CONSTANTS
  ca1 = ca1
  ca2 = ca2
  s1 = s1
  s2 = s2
  NoRow = NoRow
  NoTime = NoTime
  Unwritable = Unwritable
  NoAnswer = NoAnswer
  CAs = {ca1, ca2}
  Profiles = {profile}
  Txns = {txn}
  Serials = {s1, s2}
  OcspReqs = {o1}
  CrlReqs = {c1}
  Revokers = {v1, v2}
  Paths = {ca1}
  Questions <- Twice
  Stamps = {0, 1, NoTime, Unwritable}
  MaxTime = 1
SPECIFICATION Spec
SYMMETRY Interchangeable
INVARIANTS
  TypeOK
  GoodAsOfThisUpdate
  CrlIsWholeOrAbsent
  RespondersAgree
  OneRevokerWins
PROPERTIES
  RevocationIsFinal
CHECK_DEADLOCK FALSE
