CONSTANTS
  i1 = i1  public = public  internal = internal  u1 = u1  u2 = u2
  None = None
  IDs = {i1}
  Ifaces = {public}
  URLs = {u1}
  FirstURLs = {u1}
  Adoption = TRUE
  External = FALSE
  Lag = {}
  MaxEdits = 0
  MaxCreated = 1
  UserOps = {"service", "endpoint", "api"}
  Faults = {"patch", "crash"}
  FaultsEnd = FALSE
SPECIFICATION Spec
CHECK_DEADLOCK FALSE
INVARIANTS TypeOK KeystoneHeld NoDanglingFinalizer DependenciesHeld
