CONSTANTS
  a1 = a1  a2 = a2  a3 = a3  a4 = a4
  n0 = n0  n1 = n1  n2 = n2  n3 = n3
  h0 = h0  h1 = h1
  None = None
  ACIDs = {a1, a2, a3}
  Names = {n0, n1, n2, n3}
  acSecretName <- ThreeNames
  LegacyName = n0
  MaxSpec = 0
  SecurityHash <- NoEdit
  StaleCR = FALSE
  SecretLag = FALSE
  EDPMService = TRUE
  Consumer = "prompt"
  UserOps = {}
  Faults = {}
  FaultsEnd = FALSE
SPECIFICATION Spec
CHECK_DEADLOCK FALSE
INVARIANTS EDPMCredentialLive
