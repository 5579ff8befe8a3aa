CONSTANTS
  None = None
  Operator = {o1, o2}
  Host = {h1}
  Commit = {c1, c2, c3}
  Slot = {s1, s2}
  Config = {"A", "U"}
  TreeOf <- MCTreeOf
  Commands = {"deploy", "reapply", "sync"}
  Faults = {}
SPECIFICATION Spec
SYMMETRY Symmetry
INVARIANT TypeOK
INVARIANT LockPins
INVARIANT DeployNeverPanics
INVARIANT TrackingBehind
PROPERTY NoLostUpdate
PROPERTY TrackingAdvances
PROPERTY Attempts
