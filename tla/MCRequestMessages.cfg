SPECIFICATION RmSpec
CONSTANTS
  Ids = {"canonical", "canonical-at"}
  AtOf <- MCAtOf
  CurveArgs = {"nist-p384", "brainpool-p256r1", "brainpool-p384r1"}
  RecordCurves = {"NistP384", "BrainpoolP256r1"}
  Eas <- MCEas
  Aas <- MCAas
  MaxKeys = 3
  MaxPosts = 3
INVARIANTS
  RmTypeOK
  MatchedRequestsAccepted
  SignaturesCarryTheirCurve
  CertifiedKeyHeld
  NobodyLinks
CHECK_DEADLOCK FALSE
