------------------------------ MODULE UnitWatch ------------------------------
(***************************************************************************)
(* The end of SystemdActivator::activate: the agent starts a systemctl job *)
(* for every touched unit and polls until the units have settled, one has  *)
(* failed, or the deadline has passed.  Meanwhile systemd runs the jobs    *)
(* and the units start, stop, crash and are restarted at any moment,       *)
(* between the agent's reading of the clock, its reaping of the jobs and   *)
(* its reading of the units' status as well.                               *)
(*                                                                         *)
(* Time passes in ticks of one poll period (100ms).  No clock value is     *)
(* kept, only how long ago something was, up to where it stops mattering.  *)
(***************************************************************************)
EXTENDS Naturals

CONSTANTS
    Unit,          \* the units the plan touches
    Verbs,         \* "restart" for a deploy, "start" for a reapply
    Kind,          \* what the units can be, see Kinds
    Settle,        \* the settle window
    Patience,      \* from the end of a job to the deadline
    RestartSec,    \* at least how long systemd waits before it restarts a unit
    MaxLag,        \* bound: what a poll can take longer than its sleep
    MaxRestarts    \* StartLimitBurst: automatic restarts before systemd gives up

Kinds == {"missing", "no", "always"}   \* not loaded, or the unit's Restart=

ASSUME WatchAssumption ==
    /\ Verbs \subseteq {"restart", "start"}
    /\ Kind \subseteq Kinds
    /\ {Settle, Patience, RestartSec} \subseteq Nat
    /\ {MaxLag, MaxRestarts} \subseteq Nat \ {0}

VARIABLES
    verb,      \* what the agent asks systemctl to do
    kind,      \* Unit -> its kind
    state,     \* Unit -> its state in systemd
    result,    \* Unit -> Result=
    restarts,  \* Unit -> NRestarts=
    entered,   \* Unit -> how long ago it entered the active state it is in
    job,       \* Unit -> its systemctl job
    pending,   \* Unit -> RestartState
    baseline,  \* Unit -> NRestarts of the baseline, once it is settling
    pc,        \* where the agent is
    lag,       \* how long ago it went to sleep, or took the time
    waited,    \* how long ago the deadline was set
    endedJob,  \* Unit -> how long ago its job ended
    died,      \* Unit -> how long ago its process last ended by itself
    early,     \* Unit -> it failed after its job, before its baseline was read
    late       \* Unit -> it failed or was restarted after its baseline was read

unitVars    == <<verb, kind, state, result, restarts, entered>>
agentVars   == <<pending, baseline, pc, lag, waited>>
historyVars == <<endedJob, died, early, late>>
vars        == <<unitVars, job, agentVars, historyVars>>

State == {"inactive", "starting", "active", "stopping", "failed", "auto-restart"}

(* Long enough ago that a reading of the clock can no longer tell.         *)
Old  == Settle + MaxLag
Due  == Patience + MaxLag
Ended == {"ok", "failed", "unreadable", "error"}

Init ==
    /\ verb \in Verbs
    /\ kind \in [Unit -> Kind]
    /\ state \in [Unit -> {"inactive", "active"}]
    /\ \A u \in Unit : kind[u] = "missing" => state[u] = "inactive"
    /\ result = [u \in Unit |-> "success"]
    /\ restarts \in [Unit -> {0, 1}]
    /\ \A u \in Unit : restarts[u] = 1 => state[u] = "active"
    /\ entered = [u \in Unit |-> Old]
    /\ job = [u \in Unit |-> "none"]
    /\ pending = [u \in Unit |-> "job"]
    /\ baseline = [u \in Unit |-> 0]
    /\ pc = "spawn" /\ lag = 0 /\ waited = 0
    /\ endedJob = [u \in Unit |-> 0]
    /\ died = [u \in Unit |-> Settle]
    /\ early = [u \in Unit |-> FALSE]
    /\ late = [u \in Unit |-> FALSE]
-----------------------------------------------------------------------------
(* Once the watch is over nothing of it is left to see.                    *)
Watching == pc \notin Ended

(* systemd: a unit goes to another state.                                  *)
Goes(u, s, res) ==
    /\ Watching
    /\ state' = [state EXCEPT ![u] = s]
    /\ result' = [result EXCEPT ![u] = res]
    /\ entered' = [entered EXCEPT ![u] = IF s = "active" THEN 0 ELSE Old]
    /\ UNCHANGED <<verb, kind, agentVars>>

EndsJob(u) ==
    /\ job' = [job EXCEPT ![u] = IF job[u] \in {"none", "queued"} THEN @ ELSE "done"]
    /\ endedJob' = IF job[u] = "running" THEN [endedJob EXCEPT ![u] = 0] ELSE endedJob

KeepsJob == UNCHANGED <<job, endedJob>>

NoFailure == UNCHANGED <<died, early, late>>

Dies(u) == died' = [died EXCEPT ![u] = 0]

Failure(u) ==
    /\ Dies(u)
    /\ early' = [early EXCEPT ![u] = @ \/ (job'[u] = "done" /\ pending[u] # "settling")]
    /\ late' = [late EXCEPT ![u] = @ \/ pending[u] = "settling"]

(* `restart' of a unit that runs first stops it.                           *)
Stop(u) ==
    /\ job[u] = "queued" /\ verb = "restart"
    /\ state[u] \in {"starting", "active"}
    /\ Goes(u, "stopping", result[u])
    /\ KeepsJob /\ NoFailure
    /\ UNCHANGED restarts

Stopped(u) ==
    /\ state[u] = "stopping"
    /\ Goes(u, "inactive", result[u])
    /\ KeepsJob /\ NoFailure
    /\ UNCHANGED restarts

(* A start on behalf of a job resets NRestarts.  A Type=simple unit is     *)
(* active at once, which ends the job; others are starting for a while.    *)
Start(u) ==
    /\ job[u] = "queued"
    /\ kind[u] # "missing"
    /\ state[u] \in {"inactive", "failed", "auto-restart"}
    /\ restarts' = [restarts EXCEPT ![u] = 0]
    /\ \/ /\ Goes(u, "active", "success")
          /\ job' = [job EXCEPT ![u] = "done"]
          /\ endedJob' = [endedJob EXCEPT ![u] = 0]
       \/ /\ Goes(u, "starting", "success")
          /\ job' = [job EXCEPT ![u] = "running"]
          /\ UNCHANGED endedJob
    /\ NoFailure

(* `start' of a unit that runs does nothing, and nor does any job of a     *)
(* unit that is not there.                                                 *)
Nothing(u) ==
    /\ Watching /\ job[u] = "queued"
    /\ \/ verb = "start" /\ state[u] = "active"
       \/ kind[u] = "missing"
    /\ job' = [job EXCEPT ![u] = "done"]
    /\ endedJob' = [endedJob EXCEPT ![u] = 0]
    /\ NoFailure
    /\ UNCHANGED <<unitVars, agentVars>>

(* A unit reports that it is ready, or a oneshot is done.                  *)
Ready(u) ==
    /\ state[u] = "starting"
    /\ \E s \in {"active", "inactive"} : Goes(u, s, "success")
    /\ EndsJob(u) /\ NoFailure
    /\ UNCHANGED restarts

(* The unit's process exits with success; Restart=always has it restarted. *)
Exits(u) ==
    /\ state[u] = "active"
    /\ Goes(u, IF kind[u] = "always" THEN "auto-restart" ELSE "inactive", "success")
    /\ Dies(u) /\ KeepsJob
    /\ UNCHANGED <<restarts, early, late>>

(* The unit fails, while it starts or later.                               *)
Fails(u) ==
    /\ state[u] \in {"starting", "active"}
    /\ Goes(u, IF kind[u] = "always" THEN "auto-restart" ELSE "failed", "failure")
    /\ EndsJob(u)
    /\ Failure(u)
    /\ UNCHANGED restarts

(* systemd restarts the unit by itself, up to a limit.                     *)
Respawn(u) ==
    /\ state[u] = "auto-restart" /\ died[u] >= RestartSec
    /\ KeepsJob
    /\ IF restarts[u] < MaxRestarts
       THEN /\ restarts' = [restarts EXCEPT ![u] = @ + 1]
            /\ \E s \in {"active", "starting"} : Goes(u, s, "success")
            /\ late' = [late EXCEPT ![u] = @ \/ pending[u] = "settling"]
            /\ UNCHANGED <<died, early>>
       ELSE /\ Goes(u, "failed", "failure")
            /\ Failure(u)
            /\ UNCHANGED restarts

(* What a job needs from systemd and the unit to end.                      *)
JobStep(u) == Stop(u) \/ Stopped(u) \/ Start(u) \/ Nothing(u) \/ (job[u] # "done" /\ Ready(u))

Systemd == \E u \in Unit : JobStep(u) \/ Ready(u) \/ Exits(u) \/ Fails(u) \/ Respawn(u)

Older(f, cap) == [u \in Unit |-> IF f[u] < cap THEN f[u] + 1 ELSE f[u]]

(* A tick of the clock; the agent is never further behind than MaxLag.     *)
Tick ==
    /\ pc \notin Ended \cup {"spawn"}
    /\ lag < MaxLag
    /\ lag' = lag + 1
    /\ waited' = IF waited < Due THEN waited + 1 ELSE waited
    /\ entered' = Older(entered, Old)
    /\ died' = Older(died, Settle)
    /\ endedJob' = Older(endedJob, Patience)
    /\ UNCHANGED <<verb, kind, state, result, restarts, job, pending, baseline, pc, early, late>>
-----------------------------------------------------------------------------
(* The agent spawns one systemctl per unit, and gives up if it cannot.     *)
Spawn(u) ==
    /\ pc = "spawn" /\ job[u] = "none"
    /\ job' = [job EXCEPT ![u] = "queued"]
    /\ UNCHANGED <<unitVars, agentVars, historyVars>>

SpawnFails ==
    /\ pc = "spawn" /\ \E u \in Unit : job[u] = "none"
    /\ pc' = "error"
    /\ UNCHANGED <<unitVars, job, pending, baseline, lag, waited, historyVars>>

Spawned ==
    /\ pc = "spawn" /\ \A u \in Unit : job[u] # "none"
    /\ pc' = "sleep" /\ lag' = 0 /\ waited' = 0
    /\ UNCHANGED <<unitVars, job, pending, baseline, historyVars>>

(* The sleep is over, the agent takes the time.                            *)
Wake ==
    /\ pc = "sleep" /\ lag >= 1
    /\ pc' = "awake" /\ lag' = 0
    /\ UNCHANGED <<unitVars, job, pending, baseline, waited, historyVars>>

(* Mutant of Reap: a finished job does not move the deadline.              *)
ReapKeepsDeadline ==
    /\ pc = "awake" /\ pc' = "reaped"
    /\ pending' = [u \in Unit |->
                     IF pending[u] = "job" /\ job[u] = "done" THEN "jobdone" ELSE pending[u]]
    /\ UNCHANGED <<unitVars, job, baseline, waited, lag, historyVars>>


(* Mutant of Reap: takes a child that could not be waited for as finished. *)
ReapAnyway ==
    /\ pc = "awake" /\ pc' = "reaped"
    /\ pending' = [u \in Unit |-> IF pending[u] = "job" THEN "jobdone" ELSE pending[u]]
    /\ waited' = IF pending' = pending THEN waited ELSE lag
    /\ UNCHANGED <<unitVars, job, baseline, lag, historyVars>>

(* Finished jobs are reaped, whatever their exit status.  Each sets the    *)
(* deadline anew, counted from the time that was taken.                    *)
Reap ==
    /\ pc = "awake" /\ pc' = "reaped"
    /\ pending' = [u \in Unit |->
                     IF pending[u] = "job" /\ job[u] = "done" THEN "jobdone" ELSE pending[u]]
    /\ waited' = IF pending' = pending THEN waited ELSE lag
    /\ UNCHANGED <<unitVars, job, baseline, lag, historyVars>>
-----------------------------------------------------------------------------
(* Mutant of Settled: an active unit is good at once. *)
SettledAtOnce(u) == TRUE

(* UnitStatus::settled, by the time that was taken before the status.      *)
Settled(u) == entered[u] >= Settle + lag

(* A unit with which nothing is wrong.                                     *)
Progress(u) ==
    CASE state[u] = "inactive" -> "Succeeded"
      [] state[u] = "active" -> "Running"
      [] OTHER -> "Starting"

(* Mutant of Activation: does not look at the restarts.                    *)
ActivationByResult(u, base) ==
    IF kind[u] = "missing" \/ result[u] # "success" THEN "Failed" ELSE Progress(u)

(* UnitStatus::activation against the baseline.                            *)
Activation(u, base) ==
    IF kind[u] = "missing" \/ result[u] # "success" \/ restarts[u] > base
    THEN "Failed" ELSE Progress(u)

(* A finished job's unit is settling from the first reading of the status. *)
Settling == [u \in Unit |-> IF pending[u] = "jobdone" THEN "settling" ELSE pending[u]]

(* Mutant of Baselines: assumes that a finished job has reset NRestarts.  *)
BaselinesZero == [u \in Unit |-> 0]

(* That reading gives the baseline.                                        *)
Baselines == [u \in Unit |-> IF pending[u] = "jobdone" THEN restarts[u] ELSE baseline[u]]

Verdict(u) ==
    IF Settling[u] = "job" THEN "Waiting"
    ELSE LET a == Activation(u, Baselines[u])
         IN  CASE a = "Running" /\ ~Settled(u) -> "Waiting"
               [] a = "Starting" -> "Waiting"
               [] OTHER -> a

(* now >= deadline, which counts only when every job has been reaped.      *)
Late == waited >= Patience + lag /\ \A u \in Unit : Settling[u] # "job"

(* systemctl show, and what follows from it.                               *)
Show ==
    /\ pc = "reaped"
    /\ pending' = Settling
    /\ baseline' = Baselines
    /\ pc' = IF \E u \in Unit : Verdict(u) = "Failed" THEN "failed"
             ELSE IF Late \/ \A u \in Unit : Verdict(u) # "Waiting" THEN "ok"
             ELSE "sleep"
    /\ lag' = 0
    /\ UNCHANGED <<unitVars, job, waited, historyVars>>

(* The report does not have one readable block per unit.                   *)
Unreadable ==
    /\ pc = "reaped" /\ pc' = "unreadable"
    /\ UNCHANGED <<unitVars, job, pending, baseline, lag, waited, historyVars>>

Poll == Spawned \/ Wake \/ Reap \/ Show

Next ==
    \/ Systemd
    \/ Tick
    \/ \E u \in Unit : Spawn(u)
    \/ SpawnFails
    \/ Poll
    \/ Unreadable

Spec == Init /\ [][Next]_vars

(* The agent's steps and time go on.  A job ends because systemd stops and *)
(* starts units under timeouts of its own.                                 *)
Fairness ==
    /\ WF_vars(Poll \/ \E u \in Unit : Spawn(u))
    /\ WF_vars(Tick)
    /\ \A u \in Unit : WF_vars(JobStep(u))

FairSpec == Spec /\ Fairness
-----------------------------------------------------------------------------
(* Every variable has its type, and a unit whose job still runs is not     *)
(* judged.                                                                 *)
TypeOK ==
    /\ verb \in Verbs /\ kind \in [Unit -> Kind]
    /\ state \in [Unit -> State] /\ result \in [Unit -> {"success", "failure"}]
    /\ {restarts, baseline} \subseteq [Unit -> 0 .. MaxRestarts]
    /\ entered \in [Unit -> 0 .. Old] /\ died \in [Unit -> 0 .. Settle]
    /\ job \in [Unit -> {"none", "queued", "running", "done"}]
    /\ pending \in [Unit -> {"job", "jobdone", "settling"}]
    /\ \A u \in Unit : pending[u] # "job" => job[u] = "done"
    /\ pc \in {"spawn", "sleep", "awake", "reaped"} \cup Ended
    /\ lag \in 0 .. MaxLag /\ waited \in 0 .. Due
    /\ endedJob \in [Unit -> 0 .. Patience]
    /\ {early, late} \subseteq [Unit -> BOOLEAN]

(* A unit that fails, or that systemd has to restart, after its baseline   *)
(* was read (not between the end of its job and that reading) is never     *)
(* reported as good: not when it runs again by the time of the next poll,  *)
(* not when the deadline has passed, and not while others are waited for.  *)
FailuresReported == pc = "ok" => \A u \in Unit : ~late[u]

(* "a quick death surfaces within it": when the watch ends before its      *)
(* deadline, no running unit has failed or has been restarted within a     *)
(* settle window, by systemd's time and not by the agent's.                *)
SettledMeansUp ==
    pc = "ok" /\ waited < Patience =>
        \A u \in Unit : state[u] = "active" => entered[u] >= Settle /\ died[u] >= Settle

(* "Each finished job also gives its unit a fresh 10s to prove it stays    *)
(* up": a good end of the watch cuts no job off, and no unit that has not  *)
(* settled yet unless its time since its own job is over, up to what the  *)
(* poll that reaped the job may have taken.                                *)
EveryUnitGetsItsTime ==
    pc = "ok" => \A u \in Unit :
        /\ job[u] = "done"
        /\ \/ endedJob[u] + MaxLag >= Patience
           \/ state[u] = "inactive"
           \/ state[u] = "active" /\ entered[u] >= Settle

(* No rollback without a cause: the watch fails only on a unit that does   *)
(* not exist, or that failed or had to be restarted after its job, however *)
(* often it was restarted before.                                          *)
NoFalseAlarm ==
    pc = "failed" => \E u \in Unit : kind[u] = "missing" \/ early[u] \/ late[u]

=============================================================================
