CONSTANTS
  p1 = p1  p2 = p2
  Pods = {p1, p2}
  MinKeys = 3
  MaxKeys = 5
  MaxKey = 9
  UserOps = {"shrink", "annotation"}
  Reread = FALSE
  Combine = FALSE
SPECIFICATION Spec
CHECK_DEADLOCK FALSE
SYMMETRY PodSymmetry
INVARIANTS TypeOK TokensAccepted
