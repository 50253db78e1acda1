CONSTANTS
  p1 = p1  p2 = p2
  Pods = {p1}
  MinKeys = 3
  MaxKeys = 4
  MaxKey = 7
  UserOps = {"grow"}
  Reread = FALSE
  Combine = TRUE
SPECIFICATION FairSpec
CHECK_DEADLOCK FALSE
PROPERTIES Terminates
