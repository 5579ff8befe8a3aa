CONSTANTS
  Unit = {u1, u2}
  Verbs = {"start", "restart"}
  Kind <- Kinds
  Settle = 1
  Patience = 2
  RestartSec = 0
  MaxLag = 1
  MaxRestarts = 1
SPECIFICATION FairSpec
CHECK_DEADLOCK FALSE
INVARIANT TypeOK
INVARIANT FailuresReported
INVARIANT SettledMeansUp
INVARIANT EveryUnitGetsItsTime
INVARIANT NoFalseAlarm
 
