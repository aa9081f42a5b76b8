CONSTANTS
  nameA = nameA
  nameB = nameB
  skiA = skiA
  skiB = skiB
  keyA = keyA
  keyB = keyB
  nameD = nameD
  nameLong = nameLong
  skiD = skiD
  keyD = keyD
  keyNew = keyNew
  keyShort = keyShort
  keyEc = keyEc
  d1 = d1
  d2 = d2
  one = one
  two = two
  t = t
  u = u
  subject = subject
  san1 = san1
  san2 = san2
  ca1 = ca1
  ca2 = ca2
  NoRow = NoRow
  NoTime = NoTime
  Unwritable = Unwritable
  Nothing = Nothing
  Noise = Noise
  NoCek = NoCek
  ServerNonce = ServerNonce
  CAs = {ca1, ca2}
  Profiles = {one, two}
  Txns = {t, u}
  PrintableTxns = {t}
  Serials = {s}
  RsaKeys = {keyA, keyB, keyD, keyNew, keyShort}
  ShortKeys = {keyShort}
  LongNames = {nameLong}
  Base = 4
  SerialBytes = 2
  Oids = {}
  LastDay = 3
  Today = 0
  Devices = {d1, d2}
  Cert <- MCCert
  CaOf <- MCCaOf
  Options <- MCOptions
  Orders <- MCOrders
  Draws <- MCDraws
  Sans = {san1, san2}
  MaxRequests = 2
SPECIFICATION Spec
INVARIANTS
  TypeOK
  RepliesAreUnderstood
  EnrolledAsAsked
  SignedRequestsOnly
  AnswersRestOnThePublicPart
  AnswersAreThoseOfScep
  SerialsTravelWell
CHECK_DEADLOCK FALSE
