CONSTANTS
  Configs <- Changes
  MaxCommits = 3
  Faults = {"unit", "disk", "crash", "drift"}
SPECIFICATION Spec
CHECK_DEADLOCK FALSE
INVARIANT TypeOK
INVARIANT Converges
INVARIANT ManagedExact
INVARIANT RefsTell
INVARIANT PreviousKept
PROPERTY Attempts
