CONSTANTS
  None = None
  Operator = {o1, o2}
  Host = {h1}
  Commit = {c1, c2, c3}
  Slot = {s1, s2, s3}
  Config = {"A", "U"}
  TreeOf <- MCTreeOf
  Commands = {"deploy"}
  Faults = {"kill", "io", "crash", "drop"}
SPECIFICATION Spec
SYMMETRY Symmetry
INVARIANT LockPins
INVARIANT DeployNeverPanics
INVARIANT TargetAhead
INVARIANT DoneIsDeployed
CHECK_DEADLOCK FALSE
INVARIANT LockExclusive
PROPERTY NoLostUpdate
