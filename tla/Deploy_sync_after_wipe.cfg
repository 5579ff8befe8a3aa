CONSTANTS
  None = None
  Operator = {o1, o2}
  Host = {h1}
  Commit = {c1, c2}
  Slot = {s1, s2}
  Config = {"A", "V"}
  TreeOf <- MCTreeOf
  Commands = {"deploy", "sync"}
  Faults = {"wipe"}
SPECIFICATION Spec
SYMMETRY Symmetry
INVARIANT SyncReconciles
