CONSTANTS
  Operator = {o1, o2}
  Version = {v1, v2}
  Chunks = 2
  MaxSize = 2
  Faults = {"ssh", "drop", "dd", "store", "missing"}
SPECIFICATION Spec
SYMMETRY Symmetry
INVARIANT TypeOK
INVARIANT VerifiedRuns
PROPERTY OnlyCutShort
