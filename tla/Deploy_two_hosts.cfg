CONSTANTS
  None = None
  Operator = {o1, o2}
  Host = {h1, h2}
  Commit = {c1, c2}
  Slot = {s1, s2, s3}
  Config = {"V", "drop"}
  TreeOf <- MCTreeOf
  Commands = {"deploy"}
  Faults = {"kill", "wipe", "rename"}
SPECIFICATION Spec
SYMMETRY Symmetry
INVARIANT AllOrNothing
INVARIANT StoresComplete
INVARIANT DeployNeverPanics
INVARIANT LockedUnderOwnName
PROPERTY Registers
CHECK_DEADLOCK FALSE
