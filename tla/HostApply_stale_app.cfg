CONSTANTS
  Configs <- Reverts
  MaxCommits = 3
  Faults = {"unit"}
SPECIFICATION Spec
CHECK_DEADLOCK FALSE
INVARIANT Materialized
