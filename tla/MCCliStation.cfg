SPECIFICATION StSpec
CONSTANTS
  k1 = k1  a1 = a1  a2 = a2  g1 = g1  g2 = g2
  KeyIds <- MCKeyIds
  AtOf <- MCAtOf
  Gens <- MCGens
  NoFile = NoFile
  Torn = Torn
  MaxKeys = 3
INVARIANTS
  StTypeOK
  EnrolmentKeyHeld
  TicketHasItsOwnKey
PROPERTY TicketWrittenWithItsKey
