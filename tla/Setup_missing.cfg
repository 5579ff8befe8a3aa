CONSTANTS
  Operator = {o1}
  Version = {v1}
  Chunks = 2
  MaxSize = 2
  Faults = {"missing"}
SPECIFICATION Spec
INVARIANT HintHelps
