SPECIFICATION PkSpec
CONSTANTS
  t1 = t1  t2 = t2  r1 = r1  r2 = r2  e1 = e1  a1 = a1  e2 = e2  a2 = a2
  ec1 = ec1  atLate = atLate
  NoCert = NoCert
  Certs <- CredentialCerts
  Info <- CredentialInfo
  Crls <- MCCrls
  Labels <- MCLabels
  Files <- MCFiles
  MaxTime = 2
  Ectls <- NoLists
  Ctls <- NoLists
  Urls <- MCUrls
  NoUrl = ""
  TlmUrl = "tlm"
  EaUrl = "ea0"
  AaUrl = ""
  Names = {"ea"}
  Keyless = {r2}
  PinnedTlm = NoCert
  TrustDir <- MCFiles
  Handles = {k1, k2}
  HeldKeys = {k1}
  EndCerts <- MCEndCerts
  MaxOps = 3
INVARIANTS
  GrantAnswersItsRequest
PROPERTIES
  GrantHasTrustPath
  ErrorLeavesNoTrace
  ImplementsExchange
CHECK_DEADLOCK FALSE
