--------------------------- MODULE UnitWatch_proofs ---------------------------
(***************************************************************************)
(* The invariants of UnitWatch, for any number of units of any kind, any   *)
(* settle window and deadline and any delays of the poll loop.             *)
(***************************************************************************)
EXTENDS UnitWatch, TLAPS

(* A job runs while its unit starts, only a unit that failed has a bad     *)
(* result, and one that does not exist never starts.                       *)
StateInv ==
    \A u \in Unit :
        /\ kind[u] = "missing" => state[u] = "inactive"
        /\ job[u] = "running" => state[u] = "starting"
        /\ result[u] # "success" => state[u] \in {"failed", "auto-restart"}

(* What the watch compares tells the failures apart: a unit that is        *)
(* settling failed, or was restarted, since its baseline exactly if one    *)
(* can see it, and a unit with a bad result whose job is over has failed   *)
(* since its job.                                                          *)
FailureInv ==
    \A u \in Unit :
        /\ pending[u] = "settling" => baseline[u] <= restarts[u]
        /\ late[u] => pending[u] = "settling"
        /\ late[u] => result[u] # "success" \/ restarts[u] > baseline[u]
        /\ pending[u] = "settling" /\ restarts[u] > baseline[u] => late[u]
        /\ job[u] = "done" /\ result[u] # "success" => early[u] \/ late[u]

(* The agent's clock against the units': a unit that is active has not     *)
(* died since it became so, and the deadline runs at most a poll ahead of  *)
(* any job that was reaped.                                                *)
TimeInv ==
    \A u \in Unit :
        /\ state[u] = "active" => died[u] >= entered[u] \/ died[u] >= Settle
        /\ pending[u] # "job" => endedJob[u] + MaxLag >= waited \/ endedJob[u] >= Patience

(* What is promised of the watch's end.                                    *)
EndInv == FailuresReported /\ SettledMeansUp /\ EveryUnitGetsItsTime /\ NoFalseAlarm

WatchInv == TypeOK /\ StateInv /\ FailureInv /\ TimeInv /\ EndInv
-----------------------------------------------------------------------------
LEMMA InitWatch == Init => WatchInv
  <1> SUFFICES ASSUME Init PROVE WatchInv
    OBVIOUS
  <1> USE WatchAssumption DEF Init
  <1>1. TypeOK
    BY DEF TypeOK, State, Old, Due, Ended, Kinds
  <1>2. StateInv /\ FailureInv /\ TimeInv
    BY DEF StateInv, FailureInv, TimeInv
  <1>3. EndInv
    BY DEF EndInv, FailuresReported, SettledMeansUp, EveryUnitGetsItsTime, NoFalseAlarm
  <1>4. QED
    BY <1>1, <1>2, <1>3 DEF WatchInv
-----------------------------------------------------------------------------
LEMMA NextTypeOK == TypeOK /\ [Next]_vars => TypeOK'
  <1> SUFFICES ASSUME TypeOK, [Next]_vars PROVE TypeOK'
    OBVIOUS
  <1> USE WatchAssumption DEF TypeOK, State, Old, Due, Ended, Kinds
  <1>1. CASE Systemd
    <2> PICK u \in Unit : JobStep(u) \/ Ready(u) \/ Exits(u) \/ Fails(u) \/ Respawn(u)
      BY <1>1 DEF Systemd
    <2> USE DEF Goes, KeepsJob, EndsJob, NoFailure, Failure, Dies, agentVars, unitVars, historyVars
    <2>1. CASE Stop(u)
      BY <2>1 DEF Stop
    <2>2. CASE Stopped(u)
      BY <2>2 DEF Stopped
    <2>3. CASE Start(u)
      BY <2>3 DEF Start
    <2>4. CASE Nothing(u)
      BY <2>4 DEF Nothing
    <2>5. CASE Ready(u)
      BY <2>5 DEF Ready
    <2>6. CASE Exits(u)
      BY <2>6 DEF Exits
    <2>7. CASE Fails(u)
      BY <2>7 DEF Fails
    <2>8. CASE Respawn(u)
      <3>1. CASE restarts[u] < MaxRestarts
        <4>1. restarts'[u] \in 0 .. MaxRestarts
          BY <2>8, <3>1 DEF Respawn
        <4>2. restarts' \in [Unit -> 0 .. MaxRestarts]
          BY <2>8, <3>1, <4>1 DEF Respawn
        <4>3. late' \in [Unit -> BOOLEAN]
          BY <2>8, <3>1 DEF Respawn
        <4>4. QED
          BY <2>8, <3>1, <4>2, <4>3 DEF Respawn
      <3>2. CASE ~(restarts[u] < MaxRestarts)
        <4>1. /\ UNCHANGED <<restarts, verb, kind, pending, baseline, pc, lag, waited, job, endedJob>>
              /\ state' = [state EXCEPT ![u] = "failed"]
              /\ result' = [result EXCEPT ![u] = "failure"]
              /\ entered' = [entered EXCEPT ![u] = Settle + MaxLag]
              /\ died' = [died EXCEPT ![u] = 0]
              /\ early' = [early EXCEPT ![u] = @ \/ (job'[u] = "done" /\ pending[u] # "settling")]
              /\ late' = [late EXCEPT ![u] = @ \/ pending[u] = "settling"]
          BY <2>8, <3>2 DEF Respawn
        <4>2. early' \in [Unit -> BOOLEAN] /\ late' \in [Unit -> BOOLEAN]
          BY <4>1
        <4>3. QED
          BY <4>1, <4>2
      <3>3. QED
        BY <3>1, <3>2
    <2>9. QED
      BY <2>1, <2>2, <2>3, <2>4, <2>5, <2>6, <2>7, <2>8 DEF JobStep
  <1>2. CASE Tick
    BY <1>2 DEF Tick, Older
  <1>3. CASE \E u \in Unit : Spawn(u)
    BY <1>3 DEF Spawn, unitVars, agentVars, historyVars
  <1>4. CASE SpawnFails \/ Unreadable
    BY <1>4 DEF SpawnFails, Unreadable, unitVars, historyVars
  <1>5. CASE Spawned \/ Wake
    BY <1>5 DEF Spawned, Wake, unitVars, historyVars
  <1>6. CASE Reap
    BY <1>6 DEF Reap, unitVars, historyVars
  <1>7. CASE Show
    BY <1>7 DEF Show, Settling, Baselines, unitVars, historyVars
  <1>8. CASE UNCHANGED vars
    BY <1>8 DEF vars, unitVars, agentVars, historyVars
  <1>9. QED
    BY <1>1, <1>2, <1>3, <1>4, <1>5, <1>6, <1>7, <1>8 DEF Next, Poll
-----------------------------------------------------------------------------
LEMMA NextState == TypeOK /\ StateInv /\ [Next]_vars => StateInv'
  <1> SUFFICES ASSUME TypeOK, StateInv, [Next]_vars, NEW u \in Unit
               PROVE  /\ kind'[u] = "missing" => state'[u] = "inactive"
                      /\ job'[u] = "running" => state'[u] = "starting"
                      /\ result'[u] # "success" => state'[u] \in {"failed", "auto-restart"}
    BY DEF StateInv
  <1> USE DEF TypeOK, StateInv, State
  <1>1. CASE Systemd
    <2> PICK v \in Unit : JobStep(v) \/ Ready(v) \/ Exits(v) \/ Fails(v) \/ Respawn(v)
      BY <1>1 DEF Systemd
    <2> USE DEF Goes, KeepsJob, EndsJob, unitVars
    <2>1. CASE Stop(v) \/ Stopped(v)
      BY <2>1 DEF Stop, Stopped
    <2>2. CASE Start(v) \/ Nothing(v)
      BY <2>2 DEF Start, Nothing
    <2>3. CASE Ready(v) \/ Exits(v)
      BY <2>3 DEF Ready, Exits
    <2>4. CASE Fails(v) \/ Respawn(v)
      BY <2>4 DEF Fails, Respawn
    <2>5. QED
      BY <2>1, <2>2, <2>3, <2>4 DEF JobStep
  <1>2. CASE \E v \in Unit : Spawn(v)
    BY <1>2 DEF Spawn, unitVars
  <1>3. CASE Tick \/ SpawnFails \/ Unreadable \/ Poll
    BY <1>3 DEF Tick, SpawnFails, Unreadable, Poll, Spawned, Wake, Reap, Show, unitVars
  <1>4. CASE UNCHANGED vars
    BY <1>4 DEF vars, unitVars
  <1>5. QED
    BY <1>1, <1>2, <1>3, <1>4 DEF Next
-----------------------------------------------------------------------------
LEMMA NextFailure == TypeOK /\ StateInv /\ FailureInv /\ [Next]_vars => FailureInv'
  <1> SUFFICES ASSUME TypeOK, StateInv, FailureInv, [Next]_vars, NEW u \in Unit
               PROVE  /\ pending'[u] = "settling" => baseline'[u] <= restarts'[u]
                      /\ late'[u] => pending'[u] = "settling"
                      /\ late'[u] => result'[u] # "success" \/ restarts'[u] > baseline'[u]
                      /\ pending'[u] = "settling" /\ restarts'[u] > baseline'[u] => late'[u]
                      /\ job'[u] = "done" /\ result'[u] # "success" => early'[u] \/ late'[u]
    BY DEF FailureInv
  <1> USE WatchAssumption DEF TypeOK, StateInv, FailureInv
  <1>1. CASE Systemd
    <2> PICK v \in Unit : JobStep(v) \/ Ready(v) \/ Exits(v) \/ Fails(v) \/ Respawn(v)
      BY <1>1 DEF Systemd
    <2> USE DEF Goes, KeepsJob, EndsJob, NoFailure, Failure, Dies, unitVars, agentVars
    <2>1. CASE Stop(v) \/ Stopped(v)
      BY <2>1 DEF Stop, Stopped
    <2>2. CASE Start(v)
      BY <2>2 DEF Start
    <2>3. CASE Nothing(v)
      BY <2>3 DEF Nothing
    <2>4. CASE Ready(v)
      BY <2>4 DEF Ready
    <2>5. CASE Exits(v)
      BY <2>5 DEF Exits
    <2>6. CASE Fails(v)
      BY <2>6 DEF Fails
    <2>7. CASE Respawn(v)
      <3>1. CASE restarts[v] < MaxRestarts
        <4>1. /\ UNCHANGED <<job, early, pending, baseline>>
              /\ restarts' = [restarts EXCEPT ![v] = @ + 1]
              /\ result' = [result EXCEPT ![v] = "success"]
              /\ late' = [late EXCEPT ![v] = @ \/ pending[v] = "settling"]
          BY <2>7, <3>1 DEF Respawn
        <4>2. CASE u = v
          <5>1. late'[u] <=> late[u] \/ pending[u] = "settling"
            BY <4>1, <4>2
          <5>2. restarts'[u] = restarts[u] + 1 /\ result'[u] = "success"
            BY <4>1, <4>2
          <5>3. QED
            BY <4>1, <5>1, <5>2
        <4>3. CASE u # v
          <5>1. late'[u] = late[u] /\ restarts'[u] = restarts[u] /\ result'[u] = result[u]
            BY <4>1, <4>3
          <5>2. QED
            BY <4>1, <5>1
        <4>4. QED
          BY <4>2, <4>3
      <3>2. CASE ~(restarts[v] < MaxRestarts)
        <4>1. /\ UNCHANGED <<job, restarts, pending, baseline>>
              /\ result' = [result EXCEPT ![v] = "failure"]
              /\ early' = [early EXCEPT ![v] = @ \/ (job'[v] = "done" /\ pending[v] # "settling")]
              /\ late' = [late EXCEPT ![v] = @ \/ pending[v] = "settling"]
          BY <2>7, <3>2 DEF Respawn
        <4>2. CASE u = v
          <5>1. /\ late'[u] <=> late[u] \/ pending[u] = "settling"
                /\ early'[u] <=> early[u] \/ (job[u] = "done" /\ pending[u] # "settling")
            BY <4>1, <4>2
          <5>2. result'[u] = "failure"
            BY <4>1, <4>2
          <5>3. QED
            BY <4>1, <5>1, <5>2
        <4>3. CASE u # v
          <5>1. late'[u] = late[u] /\ early'[u] = early[u] /\ result'[u] = result[u]
            BY <4>1, <4>3
          <5>2. QED
            BY <4>1, <5>1
        <4>4. QED
          BY <4>2, <4>3
      <3>3. QED
        BY <3>1, <3>2
    <2>8. QED
      BY <2>1, <2>2, <2>3, <2>4, <2>5, <2>6, <2>7 DEF JobStep
  <1>2. CASE \E v \in Unit : Spawn(v)
    BY <1>2 DEF Spawn, unitVars, agentVars, historyVars
  <1>3. CASE Tick \/ SpawnFails \/ Unreadable
    BY <1>3 DEF Tick, SpawnFails, Unreadable, unitVars, historyVars
  <1>4. CASE Spawned \/ Wake \/ Reap
    BY <1>4 DEF Spawned, Wake, Reap, unitVars, historyVars
  <1>5. CASE Show
    BY <1>5 DEF Show, Settling, Baselines, unitVars, historyVars
  <1>6. CASE UNCHANGED vars
    BY <1>6 DEF vars, unitVars, agentVars, historyVars
  <1>7. QED
    BY <1>1, <1>2, <1>3, <1>4, <1>5, <1>6 DEF Next, Poll
-----------------------------------------------------------------------------
LEMMA NextTime == TypeOK /\ TimeInv /\ [Next]_vars => TimeInv'
  <1> SUFFICES ASSUME TypeOK, TimeInv, [Next]_vars, NEW u \in Unit
               PROVE  /\ state'[u] = "active" => died'[u] >= entered'[u] \/ died'[u] >= Settle
                      /\ pending'[u] # "job" =>
                           endedJob'[u] + MaxLag >= waited' \/ endedJob'[u] >= Patience
    BY DEF TimeInv
  <1> USE WatchAssumption DEF TypeOK, TimeInv, Old, Due
  <1>1. CASE Systemd
    <2> PICK v \in Unit : JobStep(v) \/ Ready(v) \/ Exits(v) \/ Fails(v) \/ Respawn(v)
      BY <1>1 DEF Systemd
    <2> USE DEF Goes, KeepsJob, EndsJob, NoFailure, Failure, Dies, unitVars, agentVars
    <2>1. CASE Stop(v) \/ Stopped(v)
      BY <2>1 DEF Stop, Stopped
    <2>2. CASE Start(v)
      BY <2>2 DEF Start
    <2>3. CASE Nothing(v)
      BY <2>3 DEF Nothing
    <2>4. CASE Ready(v)
      BY <2>4 DEF Ready
    <2>5. CASE Exits(v)
      BY <2>5 DEF Exits
    <2>6. CASE Fails(v)
      BY <2>6 DEF Fails
    <2>7. CASE Respawn(v)
      BY <2>7 DEF Respawn
    <2>8. QED
      BY <2>1, <2>2, <2>3, <2>4, <2>5, <2>6, <2>7 DEF JobStep
  <1>2. CASE Tick
    BY <1>2 DEF Tick, Older
  <1>3. CASE \E v \in Unit : Spawn(v)
    BY <1>3 DEF Spawn, unitVars, agentVars, historyVars
  <1>4. CASE SpawnFails \/ Unreadable
    BY <1>4 DEF SpawnFails, Unreadable, unitVars, historyVars
  <1>5. CASE Spawned \/ Wake
    BY <1>5 DEF Spawned, Wake, unitVars, historyVars
  <1>6. CASE Reap
    BY <1>6 DEF Reap, unitVars, historyVars
  <1>7. CASE Show
    BY <1>7 DEF Show, Settling, unitVars, historyVars
  <1>8. CASE UNCHANGED vars
    BY <1>8 DEF vars, unitVars, agentVars, historyVars
  <1>9. QED
    BY <1>1, <1>2, <1>3, <1>4, <1>5, <1>6, <1>7, <1>8 DEF Next, Poll
-----------------------------------------------------------------------------
(* Once the watch has ended, nothing of it changes.                        *)
LEMMA EndedStays ==
    ASSUME TypeOK, [Next]_vars, pc \in Ended
    PROVE  UNCHANGED vars
  <1> USE DEF Ended, vars
  <1>1. CASE Systemd
    <2> PICK v \in Unit : JobStep(v) \/ Ready(v) \/ Exits(v) \/ Fails(v) \/ Respawn(v)
      BY <1>1 DEF Systemd
    <2>1. Watching
      BY DEF JobStep, Stop, Stopped, Start, Nothing, Ready, Exits, Fails, Respawn, Goes
    <2>2. QED
      BY <2>1 DEF Watching
  <1>2. CASE Tick \/ (\E v \in Unit : Spawn(v)) \/ SpawnFails \/ Unreadable \/ Poll
    BY <1>2 DEF Tick, Spawn, SpawnFails, Unreadable, Poll, Spawned, Wake, Reap, Show
  <1>3. QED
    BY <1>1, <1>2 DEF Next

(* The verdicts of a poll are right.                                       *)
LEMMA ShowEnds ==
    ASSUME TypeOK, FailureInv, TimeInv, Show
    PROVE  EndInv'
  <1> USE WatchAssumption DEF TypeOK, Show, unitVars, historyVars
  <1>1. ASSUME pc' = "ok", NEW u \in Unit
        PROVE  Verdict(u) # "Failed" /\ (Verdict(u) # "Waiting" \/ Late)
    BY <1>1
  <1>2. ASSUME pc' = "ok", NEW u \in Unit
        PROVE  Settling[u] # "job" /\ pending[u] # "job" /\ job[u] = "done"
    BY <1>1, <1>2 DEF Verdict, Late, Settling
  <1>3. ASSUME pc' = "ok", NEW u \in Unit
        PROVE  Activation(u, Baselines[u]) # "Failed"
    BY <1>1, <1>2, <1>3 DEF Verdict
  <1>4. ASSUME pc' = "ok", NEW u \in Unit, ~Late
        PROVE  \/ state[u] = "inactive"
               \/ state[u] = "active" /\ entered[u] >= Settle + lag
    BY <1>1, <1>2, <1>3, <1>4 DEF Verdict, Activation, Progress, Settled
  <1>5. FailuresReported'
    <2> SUFFICES ASSUME pc' = "ok", NEW u \in Unit, late'[u] PROVE FALSE
      BY DEF FailuresReported
    <2>1. pending[u] = "settling" /\ (result[u] # "success" \/ restarts[u] > baseline[u])
      BY DEF FailureInv
    <2>2. Baselines[u] = baseline[u]
      BY <2>1 DEF Baselines
    <2>3. QED
      BY <1>3, <2>1, <2>2 DEF Activation
  <1>6. SettledMeansUp'
    <2> SUFFICES ASSUME pc' = "ok", waited < Patience, NEW u \in Unit, state[u] = "active"
                 PROVE  entered[u] >= Settle /\ died[u] >= Settle
      BY DEF SettledMeansUp
    <2>1. ~Late
      BY DEF Late
    <2>2. entered[u] >= Settle
      BY <1>4, <2>1
    <2>3. died[u] >= entered[u] \/ died[u] >= Settle
      BY DEF TimeInv
    <2>4. QED
      BY <2>2, <2>3 DEF Old
  <1>7. EveryUnitGetsItsTime'
    <2> SUFFICES ASSUME pc' = "ok", NEW u \in Unit
                 PROVE  /\ job[u] = "done"
                        /\ \/ endedJob[u] + MaxLag >= Patience
                           \/ state[u] = "inactive"
                           \/ state[u] = "active" /\ entered[u] >= Settle
      BY DEF EveryUnitGetsItsTime
    <2>1. pending[u] # "job" /\ job[u] = "done"
      BY <1>2
    <2>2. CASE Late
      <3>1. waited >= Patience
        BY <2>2 DEF Late, Due
      <3>2. endedJob[u] + MaxLag >= waited \/ endedJob[u] >= Patience
        BY <2>1 DEF TimeInv
      <3>3. QED
        BY <2>1, <3>1, <3>2 DEF Due
    <2>3. CASE ~Late
      BY <1>4, <2>1, <2>3 DEF Old
    <2>4. QED
      BY <2>2, <2>3
  <1>8. NoFalseAlarm'
    <2> SUFFICES ASSUME pc' = "failed"
                 PROVE  \E u \in Unit : kind[u] = "missing" \/ early[u] \/ late[u]
      BY DEF NoFalseAlarm
    <2>1. PICK u \in Unit : Verdict(u) = "Failed"
      OBVIOUS
    <2>2. Settling[u] # "job" /\ Activation(u, Baselines[u]) = "Failed"
      BY <2>1 DEF Verdict
    <2>3. pending[u] # "job" /\ job[u] = "done"
      BY <2>2 DEF Settling
    <2>4. kind[u] = "missing" \/ result[u] # "success" \/ restarts[u] > Baselines[u]
      BY <2>2 DEF Activation, Progress
    <2>5. CASE restarts[u] > Baselines[u]
      <3>1. pending[u] = "settling" /\ Baselines[u] = baseline[u]
        BY <2>3, <2>5 DEF Baselines
      <3>2. QED
        BY <2>5, <3>1 DEF FailureInv
    <2>6. QED
      BY <2>3, <2>4, <2>5 DEF FailureInv
  <1>9. QED
    BY <1>5, <1>6, <1>7, <1>8 DEF EndInv

LEMMA NextEnd == TypeOK /\ FailureInv /\ TimeInv /\ EndInv /\ [Next]_vars => EndInv'
  <1> SUFFICES ASSUME TypeOK, FailureInv, TimeInv, EndInv, [Next]_vars PROVE EndInv'
    OBVIOUS
  <1>1. CASE pc \in Ended
    <2>1. UNCHANGED vars
      BY <1>1, EndedStays
    <2>2. QED
      BY <2>1 DEF EndInv, FailuresReported, SettledMeansUp, EveryUnitGetsItsTime, NoFalseAlarm,
                  vars, unitVars, agentVars, historyVars
  <1>2. CASE Show
    BY <1>2, ShowEnds
  <1>3. CASE pc \notin Ended /\ ~Show
    <2>1. pc' \notin {"ok", "failed"}
      <3> USE <1>3 DEF Ended
      <3>1. CASE Systemd
        BY <3>1 DEF Systemd, JobStep, Stop, Stopped, Start, Nothing, Ready, Exits, Fails, Respawn,
                    Goes, agentVars
      <3>2. CASE Tick \/ (\E v \in Unit : Spawn(v)) \/ SpawnFails \/ Unreadable \/ Poll
        BY <3>2 DEF Tick, Spawn, SpawnFails, Unreadable, Poll, Spawned, Wake, Reap, agentVars
      <3>3. CASE UNCHANGED vars
        BY <3>3 DEF vars, agentVars
      <3>4. QED
        BY <3>1, <3>2, <3>3 DEF Next
    <2>2. QED
      BY <2>1 DEF EndInv, FailuresReported, SettledMeansUp, EveryUnitGetsItsTime, NoFalseAlarm
  <1>4. QED
    BY <1>1, <1>2, <1>3
-----------------------------------------------------------------------------
(* The invariant of the watch.                                             *)
THEOREM WatchInvariant == Spec => []WatchInv
  <1>1. WatchInv /\ [Next]_vars => WatchInv'
    BY NextTypeOK, NextState, NextFailure, NextTime, NextEnd DEF WatchInv
  <1>2. QED
    BY <1>1, InitWatch, PTL DEF Spec

(* Every variable has its type, and a unit whose job still runs is not     *)
(* judged.                                                                 *)
THEOREM WatchTypeCorrect == Spec => []TypeOK
  <1>1. WatchInv => TypeOK
    BY DEF WatchInv
  <1>2. QED
    BY <1>1, WatchInvariant, PTL

(* No failure and no restart of a settling unit goes unreported, however   *)
(* the units' crashes and recoveries fall between the polls.               *)
THEOREM NoFailureIsMissed == Spec => []FailuresReported
  <1>1. WatchInv => FailuresReported
    BY DEF WatchInv, EndInv
  <1>2. QED
    BY <1>1, WatchInvariant, PTL

(* A watch that ends well before its deadline leaves every running unit    *)
(* up for a whole settle window.                                           *)
THEOREM SettledUnitsAreUp == Spec => []SettledMeansUp
  <1>1. WatchInv => SettledMeansUp
    BY DEF WatchInv, EndInv
  <1>2. QED
    BY <1>1, WatchInvariant, PTL

(* The shared deadline cuts no unit short, whichever job ends when.        *)
THEOREM UnitsGetTheirTime == Spec => []EveryUnitGetsItsTime
  <1>1. WatchInv => EveryUnitGetsItsTime
    BY DEF WatchInv, EndInv
  <1>2. QED
    BY <1>1, WatchInvariant, PTL

(* The watch never fails, and so never causes a rollback, without a unit   *)
(* that failed or does not exist.                                          *)
THEOREM AlarmsAreTrue == Spec => []NoFalseAlarm
  <1>1. WatchInv => NoFalseAlarm
    BY DEF WatchInv, EndInv
  <1>2. QED
    BY <1>1, WatchInvariant, PTL
=============================================================================
