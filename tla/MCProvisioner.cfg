SPECIFICATION PvSpec
CONSTANTS
  t = t  r1 = r1  r2 = r2  e1 = e1  a1 = a1  e2 = e2  a2 = a2
  Topologies <- MCTopologies
  Cas <- MCCas
  NoFile = NoFile
  ValidityHours = 12
  Width = 10
  Hour = 1
  Grants = {3, 9}
  RotateAfter = 3
  RetryAfter = 1
  CallTime = 1
  EcValidity = 10
  DumpDir = TRUE
  MaxEntries = 2
INVARIANTS
  PvTypeOK
  StationEquippedWhileAsleep
  OutageIsShortfall
  TicketOutlivesRetries
PROPERTIES
  DumpEndsWithFlush
  RetriesGoOn
  ShutdownCompletes
  OneshotReturns
