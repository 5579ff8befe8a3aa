CONSTANTS
  None = None
  Operator = {o1, o2}
  Host = {h1}
  Commit = {c1, c2}
  Slot = {s1, s2}
  Config = {"A"}
  TreeOf <- MCTreeOf
  Commands = {"deploy"}
  Faults = {"kill", "crash"}
SPECIFICATION FairSpec
PROPERTY CommandsEnd
PROPERTY LocksReleased
CHECK_DEADLOCK FALSE
