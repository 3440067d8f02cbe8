SPECIFICATION RevSpec
CONSTANTS
  root = root  ca = ca
  Certs <- MCCerts
  Crls <- MCCrls
  MaxTime = 4
PROPERTY OnlyNewerListReplaces
