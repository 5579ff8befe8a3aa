-------------------------------- MODULE Deploy --------------------------------
(***************************************************************************)
(* The whole system: operators that deploy, reapply and sync concurrently, *)
(* the agents they start, and the hosts those agents run on.               *)
(***************************************************************************)
EXTENDS Driver

vars == <<graphVars, processVars, pipeVars, hostVars, job, driverVars>>

Init == ClusterInit /\ AgentInit /\ DriverInit

(* The agents and the machines they run on leave the drivers' state alone. *)
HostSide ==
    /\ \/ \E s \in Slot : AgentStep(s) \/ AgentKilled(s)
       \/ \E h \in Host : Wipe(h)
       \/ \E a, b \in Host : Rename(a, b)
    /\ UNCHANGED driverVars

DriverSide ==
    \E o \in Operator :
        \/ OperatorStep(o)
        \/ CommandStep(o)
        \/ DriverFault(o)
        \/ \E h \in Host : Connect(o, h) \/ ThreadStep(o, h)

Next == HostSide \/ DriverSide

Spec == Init /\ [][Next]_vars

(* A process that can take a step takes one eventually.  Connecting is     *)
(* strongly fair because only the bound on Slot can get in its way; what   *)
(* the operator decides and the faults are not fair at all.                *)
Fairness ==
    /\ \A s \in Slot : WF_vars(AgentStep(s) /\ UNCHANGED driverVars)
    /\ \A o \in Operator :
         /\ WF_vars(CommandStep(o))
         /\ \A h \in Host : WF_vars(ThreadStep(o, h)) /\ SF_vars(Connect(o, h))

FairSpec == Spec /\ Fairness
-----------------------------------------------------------------------------
(* Every value has its type.  What takes several steps to get right: the    *)
(* ApplyContext of an agent always has a target commit.                    *)
TypeOK == ClusterTypeOK /\ AgentTypeOK /\ DriverTypeOK

(* The deploy lock: at most one session per host holds it.                 *)
LockExclusive ==
    \A s, t \in Slot : Holding(s) /\ Holding(t) /\ ahost[s] = ahost[t] => s = t

(* What the lock is for.  From the Locked answer until the driver's Apply  *)
(* is taken up, the host stays at the commit the plan was made for,        *)
(* whatever other operators, orphaned agents and retries do meanwhile.     *)
LockPins ==
    \A o \in Operator, h \in Host :
        /\ thread[o][h] \in {"locked", "push", "pushing"}
        /\ Live(conn[o][h])
        => /\ Holding(conn[o][h])
           /\ ahost[conn[o][h]] = h
           /\ current[h] = plan[o].expected[h]

(* The assertions in the agent's deploy path never fail: an Apply finds    *)
(* the session locked, its target descends from current, both sides agree  *)
(* on rollback safety, and RequestObjects finds a current commit.          *)
DeployNeverPanics ==
    \A s \in Slot : Panics(s) => Asked(s, "Reapply") /\ apc[s] = "locked"

(* prepare_apply on a reapply: "the driver refuses hosts with a diverged   *)
(* target ref, so both refs already point at the reapply target".          *)
ReapplyRefsAgree ==
    \A s \in Slot : apc[s] = "locked" /\ Asked(s, "Reapply") => ReapplyAssertions(s)

(* Every store has the whole history of every commit in it, and every ref  *)
(* points into its store, although packs carry only differences that are   *)
(* computed from refs which may be stale.                                  *)
StoresComplete ==
    /\ \A o \in Operator :
         /\ Closed(anc, objects[o])
         /\ {main[o]} \cup {tracking[o][h] : h \in Host} \subseteq objects[o] \cup {None}
    /\ \A h \in Host :
         /\ Closed(anc, hobjects[h])
         /\ {current[h], target[h]} \subseteq hobjects[h] \cup {None}

(* The target ref is never behind or beside current: it is current, or the *)
(* goal of an unfinished deploy on top of it.                              *)
TargetAhead ==
    \A h \in Host : current[h] # None =>
        target[h] # None /\ current[h] \in History(anc, target[h])

(* No lost update: current only ever moves to a commit made with knowledge *)
(* of the one it replaces (or away with the host, by a wipe).              *)
NoLostUpdate ==
    [][\A h \in Host :
         current'[h] # current[h] /\ current[h] # None /\ current'[h] # None
           => DescendsFrom(anc', current'[h], current[h])]_vars

(* The hosts keep their promise: the agents' processes, refs and flocks    *)
(* implement one register per host, with target as the write-ahead goal,   *)
(* under every interleaving and fault, wipes and renames included.         *)
Hosts == INSTANCE Register WITH
    Session <- Slot, value <- current, goal <- target,
    holders <- [h \in Host |-> LockedBy(h)]

Registers == Hosts!Spec

(* How far the apply on a host is, if there is one.                        *)
Progress(h) ==
    LET doing(pc) == \E s \in Slot : apc[s] = pc /\ ahost[s] = h
    IN  CASE doing("modify")   -> "going"
          [] doing("record")   -> "there"
          [] doing("rollback") -> "back"
          [] OTHER             -> "rest"

(* Every apply, a reapply too, lives the life of an attempt: it goes to    *)
(* what the target ref said before anything was changed, and once it has   *)
(* arrived it is not rolled back, wherever it is killed.                   *)
Applies == INSTANCE Attempt WITH
    value <- current, goal <- target, at <- [h \in Host |-> Progress(h)]

Attempts == Applies!Spec

(* A tracking ref never runs ahead of its host: what an operator believes  *)
(* is deployed is deployed, or was.  (Not after a wipe or a rename.)       *)
TrackingBehind ==
    \A o \in Operator, h \in Host : tracking[o][h] # None =>
        current[h] # None /\ tracking[o][h] \in History(anc, current[h])

(* ... and it never goes back.                                             *)
TrackingAdvances ==
    [][\A o \in Operator, h \in Host :
         tracking[o][h] # None =>
           /\ tracking'[o][h] # None
           /\ tracking[o][h] \in History(anc', tracking'[o][h])]_vars

(* A host the driver reports as done runs the plan's commit, or one that a *)
(* later deploy put on top of it.  (Not after a wipe or a rename.)         *)
DoneIsDeployed ==
    \A o \in Operator, h \in Host :
        cmd[o] = "deploy" /\ thread[o][h] \in {"applied", "done"} =>
            current[h] # None /\ plan[o].commit \in History(anc, current[h])

(* All or nothing: while any host works on a plan's commit, no host of the *)
(* plan failed to lock.                                                    *)
AllOrNothing ==
    \A o \in Operator, s \in Slot :
        /\ job[s] # None
        /\ job[s].commit = plan[o].commit
        => \A h \in Host : thread[o][h] \notin {"connect", "lock", "refused", "stale"}

(* The host tree an apply is diffed against is found under the host's own  *)
(* name, and what is on the machine is not known to have been deployed     *)
(* under another, also after machines were renamed between an operator's   *)
(* syncs and deploys and applies were interrupted before they recorded the *)
(* name.                                                                   *)
LockedUnderOwnName ==
    \A h \in Host : LockedBy(h) # {} /\ current[h] # None =>
        HasEntry(current[h], h) /\ deployedAs[h] \in {None, h}

(* "That's how we recover from a reprovisioned host": a sync that reaches  *)
(* its hosts reconciles every tracking ref.                                *)
SyncReconciles ==
    \A o \in Operator, h \in Host : cmd[o] = "sync" => thread[o][h] # "failed"
-----------------------------------------------------------------------------
(* A command that runs comes to an end, whoever else deploys.              *)
CommandsEnd ==
    \A o \in Operator : phase[o] = "locking" ~> phase[o] = "idle"

(* No lock is held for ever, not even by an agent whose driver died.       *)
LocksReleased == \A s \in Slot : Holding(s) ~> ~Holding(s)
=============================================================================
