SPECIFICATION PkSpec
CONSTANTS
  t1 = t1  t2 = t2  r1 = r1  r2 = r2  e1 = e1  a1 = a1  e2 = e2  a2 = a2
  ec1 = ec1  atLate = atLate
  NoCert = NoCert
  Certs <- MCCerts
  Info <- MCInfo
  Crls <- NoLists
  Labels <- MCLabels
  Files <- MCFiles
  MaxTime = 0
  Ectls <- MCEctls
  Ctls <- MCCtls
  Urls <- MCUrls
  NoUrl = ""
  TlmUrl = "tlm"
  EaUrl = "ea0"
  AaUrl = ""
  Names <- MCNames
  Keyless = {}
  PinnedTlm = t1
  TrustDir <- DiscoveryFiles
  Handles = {k1}
  HeldKeys = {}
  EndCerts <- NoCerts
  MaxOps = 1
INVARIANT TopologyUnderPinnedTlm
CHECK_DEADLOCK FALSE
