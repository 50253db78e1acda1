CONSTANTS
  p1 = p1  p2 = p2
  Pods = {}
  MinKeys = 3
  MaxKeys = 5
  MaxKey = 7
  UserOps = {"grow", "shrink"}
  Reread = TRUE
  Combine = FALSE
SPECIFICATION FairSpec
CHECK_DEADLOCK FALSE
PROPERTIES PrimaryKept RepoSpec LoopsAdvance Terminates
