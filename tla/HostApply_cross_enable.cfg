CONSTANTS
  Configs <- CrossEnable
  MaxCommits = 3
  Faults = {}
SPECIFICATION Spec
INVARIANT PinsResolve
