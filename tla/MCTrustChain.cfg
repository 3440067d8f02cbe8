SPECIFICATION TcSpec
CONSTANTS
  r1 = r1  r2 = r2  ca1 = ca1  ca2 = ca2  badCa = badCa  subCa = subCa
  at = at  ec = ec  direct = direct  noDuration = noDuration
  atBad = atBad  atDeep = atDeep
  NoCert = NoCert
  Certs <- MCCerts
  Info <- MCInfo
  Crls <- MCCrls
  Labels <- MCLabels
  Files <- MCFiles
  MaxTime = 3
CONSTRAINT OnlyCasStored
INVARIANTS
  TcTypeOK
  VerdictIsTrustPath
  RevokedCaVouchesForNobody
PROPERTIES
  LearningKeepsVerdicts
  CrlSpeaksForItsIssuer
  ReinstatedOnlyByListInDate
