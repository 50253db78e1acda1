CONSTANTS
  i1 = i1  public = public  internal = internal  u1 = u1  u2 = u2
  None = None
  IDs = {i1}
  Ifaces = {public}
  URLs = {u1, u2}
  FirstURLs = {u1}
  Adoption = FALSE
  External = FALSE
  Lag = {"api"}
  MaxEdits = 1
  MaxCreated = 0
  UserOps = {"edit", "service", "endpoint"}
  Faults = {"call", "lost"}
  FaultsEnd = TRUE
SPECIFICATION FairSpec
CHECK_DEADLOCK FALSE
PROPERTIES Registered DeletionCompletes
