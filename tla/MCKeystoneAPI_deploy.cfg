CONSTANTS
  p1 = p1  p2 = p2
  Pods = {p1}
  MaxVersion = 2
  MaxSecret = 2
  MaxEdits = 1
  Rapid = FALSE
  Revert = FALSE
  UserOps = {"acct", "img", "url", "external", "delete"}
  Flaky = {"tls"}
  Faults = {"call", "crash", "inputs"}
  MaxFaults = 1
SPECIFICATION FairSpec
CHECK_DEADLOCK FALSE
INVARIANTS TypeOK TransportHeld SchemaBeforePods NothingStranded
PROPERTIES ReadyHonest Settles DeletionCompletes
