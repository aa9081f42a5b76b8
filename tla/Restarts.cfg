CONSTANTS
  a = a
  b = b
  ghost = ghost
  profile = profile
  f1 = f1
  f2 = f2
  Processes = {p1, p2}
  Overlap = FALSE
  CaIds = {a, b, ghost}
  Names = {profile}
  Files = {f1, f2}
  Configs <- SomeConfigs
  NoFile = NoFile
  NoCa = NoCa
  NoProfile = NoProfile
  NoConfig = NoConfig
  Absent = Absent
  Own = Own
  Missing = Missing
SPECIFICATION Spec
INVARIANTS
  TypeOK
  AcceptedConfigsAreWired
  LastEntryIsServed
  ServedCaIsPersisted
  CaSurvivesRestarts
CHECK_DEADLOCK FALSE
