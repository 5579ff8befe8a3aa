--------------------------- MODULE Refinement_proofs ---------------------------
(***************************************************************************)
(* Deploy implements Register: the agents' processes, refs and flocks are  *)
(* one lock-protected register per host.  What Register_proofs shows of    *)
(* registers therefore holds for the hosts.                                *)
(***************************************************************************)
EXTENDS Deploy_proofs

Holders == [h \in Host |-> LockedBy(h)]

(* A commit that was not created yet has no history.                       *)
FreshInv == \A c \in Commit \ Created : anc[c] = {}

(* While a session applies, the refs are where it took them: its base is   *)
(* still current, and it goes to the target.                               *)
ApplyInv ==
    \A s \in Slot :
        /\ apc[s] \in {"modify", "rollback"} => job[s].base = current[ahost[s]]
        /\ apc[s] = "modify" => job[s].commit = target[ahost[s]]

(* The inductive invariant of the refinement.                              *)
RefineInv == LockInv /\ FreshInv /\ ApplyInv
-----------------------------------------------------------------------------
(* Who holds which lock depends on the holders' processes only.            *)
LEMMA HoldersFrame ==
    ASSUME \A t \in Slot : /\ Holding(t)' <=> Holding(t)
                           /\ Holding(t) => ahost'[t] = ahost[t]
    PROVE  Holders' = Holders
  BY DEF Holders, LockedBy

(* An agent moves the refs of its own host only, and with the lock.        *)
LEMMA AgentRefs ==
    ASSUME TypeOK, ProcessInv, NEW s \in Slot, AgentStep(s) \/ AgentKilled(s), NEW h \in Host,
           current'[h] # current[h] \/ target'[h] # target[h]
    PROVE  Holding(s) /\ ahost[s] = h
  <1>t. HostTypeOK
    BY DEF TypeOK, AgentTypeOK
  <1> USE DEF HostTypeOK, Holding
  <1>1. CASE HandleLock(s) \/ HandleReceivePack(s) \/ HandleRequestObjects(s)
    BY <1>1 DEF HandleLock, HandleReceivePack, HandleRequestObjects, hostVars
  <1>2. CASE PreApplyError(s) \/ PrepareUnresolved(s)
    BY <1>2 DEF PreApplyError, PrepareUnresolved, hostVars
  <1>3. CASE PrepareDeploy(s) \/ PrepareReapply(s)
    BY <1>3, <1>t DEF PrepareDeploy, PrepareReapply, StartJob
  <1>4. CASE AgentPanic(s) \/ AgentExit(s) \/ AgentKilled(s)
    BY <1>4 DEF AgentPanic, AgentExit, AgentKilled, hostVars
  <1>5. CASE SetCurrent(s) \/ StartRollback(s)
    BY <1>5, <1>t DEF SetCurrent, StartRollback, hostVars
  <1>6. CASE RecordHostname(s) \/ RecordFails(s) \/ ApplyFails(s)
    BY <1>6 DEF RecordHostname, RecordFails, ApplyFails, refVars
  <1>7. CASE RollbackCompletes(s) \/ RollbackFails(s)
    BY <1>7, <1>t DEF RollbackCompletes, RollbackFails, refVars
  <1>8. QED
    BY <1>1, <1>2, <1>3, <1>4, <1>5, <1>6, <1>7 DEF AgentStep

(* A step of an agent keeps ApplyInv for the agent itself ...              *)
LEMMA ApplyOwn ==
    ASSUME TypeOK, ProcessInv, ApplyInv, NEW s \in Slot, AgentStep(s) \/ AgentKilled(s)
    PROVE  /\ apc'[s] \in {"modify", "rollback"} => job'[s].base = current'[ahost'[s]]
           /\ apc'[s] = "modify" => job'[s].commit = target'[ahost'[s]]
  <1>t. ProcessTypeOK /\ HostTypeOK /\ JobTypeOK /\ (Live(s) => ahost[s] \in Host)
    BY DEF TypeOK, ClusterTypeOK, AgentTypeOK, ProcessInv, ProcessTypeOK
  <1>a. /\ apc[s] \in {"modify", "rollback"} => job[s].base = current[ahost[s]]
        /\ apc[s] = "modify" => job[s].commit = target[ahost[s]]
    BY DEF ApplyInv
  <1> USE DEF ProcessTypeOK, HostTypeOK, JobTypeOK, Live
  <1>1. CASE HandleLock(s)
    BY <1>1, <1>t, <1>a DEF HandleLock
  <1>2. CASE HandleReceivePack(s) \/ HandleRequestObjects(s)
    BY <1>2, <1>t, <1>a DEF HandleReceivePack, HandleRequestObjects, processVars, hostVars
  <1>3. CASE PreApplyError(s) \/ PrepareUnresolved(s)
    BY <1>3, <1>t, <1>a DEF PreApplyError, PrepareUnresolved, processVars, hostVars
  <1>4. CASE PrepareDeploy(s)
    BY <1>4, <1>t DEF PrepareDeploy, StartJob
  <1>5. CASE PrepareReapply(s)
    BY <1>5, <1>t DEF PrepareReapply, StartJob, ReapplyAssertions
  <1>6. CASE AgentPanic(s) \/ AgentExit(s) \/ AgentKilled(s)
    BY <1>6, <1>t DEF AgentPanic, AgentExit, AgentKilled, Exit
  <1>7. CASE SetCurrent(s)
    BY <1>7, <1>t DEF SetCurrent
  <1>8. CASE StartRollback(s)
    BY <1>8, <1>t, <1>a DEF StartRollback, hostVars
  <1>9. CASE RecordHostname(s) \/ RecordFails(s) \/ ApplyFails(s)
    BY <1>9, <1>t DEF RecordHostname, RecordFails, ApplyFails, EndJob
  <1>10. CASE RollbackCompletes(s) \/ RollbackFails(s)
    BY <1>10, <1>t DEF RollbackCompletes, RollbackFails, EndJob
  <1>11. QED
    BY <1>1, <1>2, <1>3, <1>4, <1>5, <1>6, <1>7, <1>8, <1>9, <1>10 DEF AgentStep

(* ... and for the others, whose hosts' refs it cannot move.               *)
LEMMA NextApply ==
    ASSUME LockInv, ApplyInv, [Next]_vars
    PROVE  ApplyInv'
  <1>t. TypeOK /\ ProcessInv /\ CommandInv /\ LockExclusive
    BY DEF LockInv
  <1>p. ProcessTypeOK
    BY <1>t DEF TypeOK, ClusterTypeOK
  <1>1. ASSUME NEW s \in Slot, AgentStep(s) \/ AgentKilled(s)
        PROVE  ApplyInv'
    <2>1. \A t \in Slot \ {s} : apc'[t] = apc[t] /\ ahost'[t] = ahost[t] /\ job'[t] = job[t]
      BY <1>1, <1>t, AgentFrame
    <2>2. \A h \in Host : current'[h] # current[h] \/ target'[h] # target[h]
                            => Holding(s) /\ ahost[s] = h
      BY <1>1, <1>t, AgentRefs
    <2>3. \A t \in Slot \ {s} : apc[t] \in {"modify", "rollback"} =>
             /\ current'[ahost[t]] = current[ahost[t]]
             /\ target'[ahost[t]] = target[ahost[t]]
      BY <1>t, <1>p, <2>2 DEF LockExclusive, Holding, ProcessInv, ProcessTypeOK, Live
    <2>4. /\ apc'[s] \in {"modify", "rollback"} => job'[s].base = current'[ahost'[s]]
          /\ apc'[s] = "modify" => job'[s].commit = target'[ahost'[s]]
      BY <1>1, <1>t, ApplyOwn
    <2>5. QED
      BY <2>1, <2>3, <2>4 DEF ApplyInv
  <1>2. CASE UNCHANGED <<processVars, hostVars, job>>
    BY <1>2 DEF ApplyInv, processVars, hostVars
  <1>3. ASSUME NEW o \in Operator, NEW h \in Host, Connect(o, h)
        PROVE  ApplyInv'
    <2>1. PICK s \in Slot :
             /\ apc'[s] = "idle"
             /\ \A t \in Slot \ {s} : apc'[t] = apc[t] /\ ahost'[t] = ahost[t]
      BY <1>3, <1>t, ConnectFrame
    <2>2. UNCHANGED <<hostVars, job>>
      BY <1>3, <1>t, ConnectFrame
    <2>3. QED
      BY <2>1, <2>2 DEF ApplyInv, hostVars
  <1>4. ASSUME NEW o \in Operator, NEW h \in Host,
               ThreadStep(o, h) \/ ConnectFails(o, h) \/ ConnectionLost(o, h)
        PROVE  ApplyInv'
    BY <1>2, <1>4, <1>t, ThreadFrame
  <1>5. ASSUME NEW o \in Operator, OperatorStep(o) \/ CommandStep(o) \/ DriverCrash(o)
        PROVE  ApplyInv'
    BY <1>2, <1>5, <1>t, OperatorFrame
  <1>6. ASSUME NEW a \in Host, NEW b \in Host, Wipe(a) \/ Rename(a, b)
        PROVE  ApplyInv'
    <2>1. UNCHANGED <<processVars, job>>
      BY <1>6 DEF Wipe, Rename
    <2>2. \A t \in Slot : apc[t] \in {"modify", "rollback"} =>
             /\ current'[ahost[t]] = current[ahost[t]]
             /\ target'[ahost[t]] = target[ahost[t]]
      <3>1. HostTypeOK /\ (\A t \in Slot : Live(t) => ahost[t] \in Host)
        BY <1>t, <1>p DEF TypeOK, AgentTypeOK, ProcessInv, ProcessTypeOK
      <3>2. QED
        BY <1>6, <3>1 DEF Wipe, Rename, Quiet, Swap, HostTypeOK, Live
    <2>3. QED
      BY <2>1, <2>2 DEF ApplyInv, processVars
  <1>7. QED
    BY <1>1, <1>2, <1>3, <1>4, <1>5, <1>6 DEF Next, HostSide, DriverSide, DriverFault, vars
-----------------------------------------------------------------------------
(* The commit graph only changes when an operator makes a plan.            *)
LEMMA OnlyPlansCommit ==
    ASSUME [Next]_vars
    PROVE  \/ UNCHANGED graphVars
           \/ \E o \in Operator, g \in Config, c \in Commit :
                \E limit \in SUBSET DOMAIN TreeOf[g] : MakePlan(o, g, limit, c)
  <1>1. ASSUME NEW o \in Operator, OperatorStep(o) \/ CommandStep(o) \/ DriverFault(o)
        PROVE  \/ UNCHANGED graphVars
               \/ \E g \in Config, c \in Commit :
                    \E limit \in SUBSET DOMAIN TreeOf[g] : MakePlan(o, g, limit, c)
    BY <1>1 DEF OperatorStep, StartReapply, StartSync, Select, Confirm, Decline, CommandStep,
         ProceedDeploy, ProceedReapply, StartApplying, RefuseReapply, StartFetching, Finish,
         DriverFault, DriverCrash, ConnectFails, ConnectionLost, EndCommand, graphVars
  <1>2. ASSUME NEW o \in Operator, NEW h \in Host, Connect(o, h) \/ ThreadStep(o, h)
        PROVE  UNCHANGED graphVars
    BY <1>2 DEF Connect, ConnectAndLock, ConnectForSync, ThreadStep, ReadLock, FetchStale,
         ReadObjects, SendPack, ReadPackReceived, SendReapply, ReadApply, ReadApplied, ReadEOF
  <1>3. CASE HostSide
    BY <1>3 DEF HostSide, Wipe, Rename, AgentStep, AgentKilled, HandleLock,
         HandleReceivePack, HandleRequestObjects, PreApplyError, PrepareDeploy, PrepareReapply,
         PrepareUnresolved, StartJob, AgentPanic, SetCurrent, RecordHostname, RecordFails,
         ApplyFails, EndJob, StartRollback, RollbackCompletes, RollbackFails, AgentExit, graphVars
  <1>4. QED
    BY <1>1, <1>2, <1>3 DEF Next, DriverSide, vars, graphVars

(* Histories only change when a commit is created, which had none.         *)
LEMMA NextFresh ==
    ASSUME TypeOK, FreshInv, [Next]_vars
    PROVE  /\ FreshInv'
           /\ anc' = anc \/ (/\ \A c \in Commit : anc[c] \subseteq anc'[c]
                             /\ UNCHANGED <<processVars, hostVars, job>>)
  <1>t. GraphTypeOK
    BY DEF TypeOK, ClusterTypeOK
  <1>1. CASE UNCHANGED graphVars
    BY <1>1 DEF FreshInv, Created, graphVars
  <1>2. ASSUME NEW o \in Operator, NEW g \in Config, NEW limit \in SUBSET DOMAIN TreeOf[g],
               NEW c \in Commit, MakePlan(o, g, limit, c)
        PROVE  /\ FreshInv'
               /\ \A d \in Commit : anc[d] \subseteq anc'[d]
               /\ UNCHANGED <<processVars, hostVars, job>>
    <2>1. g # None
      BY ConstantsAssumption
    <2>2. QED
      BY <1>2, <1>t, <2>1 DEF MakePlan, FreshInv, Created, GraphTypeOK
  <1>3. QED
    BY <1>1, <1>2, OnlyPlansCommit DEF graphVars
-----------------------------------------------------------------------------
(* What an agent's step is to its host: nothing, unless it moves a ref or  *)
(* takes or releases the lock.                                             *)
LEMMA AgentImplements ==
    ASSUME LockInv, ApplyInv, NEW s \in Slot, AgentStep(s) \/ AgentKilled(s)
    PROVE  [Hosts!Next]_Hosts!vars
  <1> DEFINE h == ahost[s]
  <1>t. TypeOK /\ ProcessInv /\ LockExclusive
    BY DEF LockInv
  <1>u. /\ GraphTypeOK /\ ProcessTypeOK /\ HostTypeOK /\ JobTypeOK
        /\ Live(s) /\ h \in Host
    BY <1>t, AgentFrame DEF TypeOK, ClusterTypeOK, AgentTypeOK, ProcessInv, ProcessTypeOK
  <1>f. \A t \in Slot \ {s} : apc'[t] = apc[t] /\ ahost'[t] = ahost[t]
    BY <1>t, AgentFrame
  <1>h. ASSUME Holding(s)' <=> Holding(s), Holding(s) => ahost'[s] = ahost[s]
        PROVE  Holders' = Holders
    BY <1>f, <1>h, HoldersFrame DEF Holding
  <1>s. ASSUME Holders' = Holders, anc' = anc, current' = current, target' = target
        PROVE  UNCHANGED Hosts!vars
    BY <1>s DEF Hosts!vars, Holders
  <1>v. Holding(s) => Holders[h] # {}
    BY <1>u DEF Holders, LockedBy
  <1>1. CASE HandleLock(s)
    <2>1. UNCHANGED <<anc, current, target>>
      BY <1>1 DEF HandleLock, graphVars, hostVars
    <2>2. CASE LockAnswer(h, inbox[s].commit).type = "Locked"
      <3>1. LockedBy(h) = {}
        BY <2>2 DEF LockAnswer, Msg
      <3>2. apc' = [apc EXCEPT ![s] = "locked"] /\ ahost' = ahost
        BY <1>1, <2>2 DEF HandleLock
      <3>l. \A g \in Host : LockedBy(g)' = IF g = h THEN {s} ELSE LockedBy(g)
        BY <1>u, <3>1, <3>2 DEF LockedBy, Holding, ProcessTypeOK
      <3>3. Holders' = [Holders EXCEPT ![h] = {s}]
        BY <3>l DEF Holders
      <3>4. Hosts!Acquire(h, s)
        BY <1>u, <2>1, <3>1, <3>3 DEF Hosts!Acquire, Hosts!Held, Holders
      <3>5. QED
        BY <1>u, <3>4 DEF Hosts!Next
    <2>3. CASE LockAnswer(h, inbox[s].commit).type # "Locked"
      <3>1. apc[s] = "idle" /\ apc' = [apc EXCEPT ![s] = "idle"] /\ ahost' = ahost
        BY <1>1, <2>3 DEF HandleLock
      <3>2. Holders' = Holders
        BY <1>u, <1>h, <3>1 DEF Holding, ProcessTypeOK
      <3>3. QED
        BY <1>s, <2>1, <3>2
    <2>4. QED
      BY <2>2, <2>3
  <1>2. CASE \/ HandleReceivePack(s) \/ HandleRequestObjects(s) \/ PreApplyError(s)
             \/ PrepareUnresolved(s) \/ PrepareReapply(s)
    <2>1. UNCHANGED <<anc, current, target>>
      BY <1>2 DEF HandleReceivePack, HandleRequestObjects, PreApplyError, PrepareUnresolved,
                  PrepareReapply, StartJob, graphVars, hostVars
    <2>2. (Holding(s)' <=> Holding(s)) /\ ahost' = ahost
      BY <1>2, <1>u DEF HandleReceivePack, HandleRequestObjects, PreApplyError, PrepareUnresolved,
                  PrepareReapply, StartJob, processVars, Holding, ProcessTypeOK
    <2>3. QED
      BY <1>h, <1>s, <2>1, <2>2
  <1>3. CASE PrepareDeploy(s)
    <2>1. /\ UNCHANGED <<anc, current>> /\ target' = [target EXCEPT ![h] = inbox[s].commit]
          /\ Holding(s) /\ Holding(s)' /\ ahost' = ahost
      BY <1>3, <1>u DEF PrepareDeploy, StartJob, graphVars, Holding, ProcessTypeOK
    <2>2. inbox[s].commit \in Commit
      BY <1>3, <1>t DEF PrepareDeploy, ProcessInv
    <2>3. current[h] # None => DescendsFrom(anc, inbox[s].commit, current[h])
      BY <1>3 DEF PrepareDeploy, DeployAssertions
    <2>4. Holders' = Holders
      BY <1>h, <2>1
    <2>5. Hosts!Open(h, inbox[s].commit)
      BY <1>v, <2>1, <2>3, <2>4 DEF Hosts!Open, Hosts!Held, Hosts!DescendsFrom, DescendsFrom, Holders
    <2>6. QED
      BY <1>u, <2>2, <2>5 DEF Hosts!Next
  <1>4. CASE AgentPanic(s) \/ AgentExit(s) \/ AgentKilled(s)
    <2>1. /\ UNCHANGED <<anc, current, target>>
          /\ apc' = [apc EXCEPT ![s] = "gone"] /\ ahost' = [ahost EXCEPT ![s] = None]
      BY <1>4 DEF AgentPanic, AgentExit, AgentKilled, Exit, graphVars, hostVars
    <2>2. CASE Holding(s)
      <3>1. Holders' = [Holders EXCEPT ![h] = {}]
        BY <1>u, <1>t, <2>1, <2>2 DEF Holders, LockedBy, Holding, LockExclusive, ProcessTypeOK
      <3>2. Hosts!Release(h)
        BY <1>v, <2>1, <2>2, <3>1 DEF Hosts!Release, Hosts!Held, Holders
      <3>3. QED
        BY <1>u, <3>2 DEF Hosts!Next
    <2>3. CASE ~Holding(s)
      <3>1. ~Holding(s)'
        BY <1>u, <2>1 DEF Holding, ProcessTypeOK
      <3>2. QED
        BY <1>h, <1>s, <2>1, <2>3, <3>1
    <2>4. QED
      BY <2>2, <2>3
  <1>5. CASE SetCurrent(s)
    <2>1. /\ UNCHANGED <<anc, target>> /\ current' = [current EXCEPT ![h] = job[s].commit]
          /\ Holding(s) /\ Holding(s)' /\ ahost' = ahost
      BY <1>5, <1>u DEF SetCurrent, graphVars, Holding, ProcessTypeOK
    <2>2. job[s].commit = target[h]
      BY <1>5 DEF SetCurrent, ApplyInv
    <2>3. Holders' = Holders
      BY <1>h, <2>1
    <2>4. Hosts!Advance(h)
      BY <1>v, <2>1, <2>2, <2>3 DEF Hosts!Advance, Hosts!Held, Holders
    <2>5. QED
      BY <1>u, <2>4 DEF Hosts!Next
  <1>6. CASE RollbackCompletes(s)
    <2>1. /\ UNCHANGED <<anc, current>>
          /\ target' = [target EXCEPT ![h] = IF job[s].base # None THEN job[s].base ELSE @]
          /\ Holding(s) /\ Holding(s)' /\ ahost' = ahost
      BY <1>6, <1>u DEF RollbackCompletes, EndJob, graphVars, Holding, ProcessTypeOK
    <2>2. job[s].base = current[h]
      BY <1>6 DEF RollbackCompletes, ApplyInv
    <2>3. Holders' = Holders
      BY <1>h, <2>1
    <2>4. CASE current[h] = None
      BY <1>u, <1>s, <2>1, <2>2, <2>3, <2>4 DEF HostTypeOK
    <2>5. CASE current[h] # None
      <3>1. Hosts!Abandon(h)
        BY <1>v, <2>1, <2>2, <2>3, <2>5 DEF Hosts!Abandon, Hosts!Held, Holders
      <3>2. QED
        BY <1>u, <3>1 DEF Hosts!Next
    <2>6. QED
      BY <2>4, <2>5
  <1>7. CASE \/ RecordHostname(s) \/ RecordFails(s) \/ ApplyFails(s) \/ StartRollback(s)
             \/ RollbackFails(s)
    <2>1. UNCHANGED <<anc, current, target>>
      BY <1>7 DEF RecordHostname, RecordFails, ApplyFails, StartRollback, RollbackFails, EndJob,
                  refVars, graphVars, hostVars
    <2>2. Holding(s) /\ Holding(s)' /\ ahost' = ahost
      BY <1>7, <1>u DEF RecordHostname, RecordFails, ApplyFails, StartRollback, RollbackFails,
                        EndJob, Holding, ProcessTypeOK
    <2>3. QED
      BY <1>h, <1>s, <2>1, <2>2
  <1>8. QED
    BY <1>1, <1>2, <1>3, <1>4, <1>5, <1>6, <1>7 DEF AgentStep

(* A machine is wiped or renamed only when no session runs on it.          *)
LEMMA MachineImplements ==
    ASSUME LockInv, NEW a \in Host, NEW b \in Host, Wipe(a) \/ Rename(a, b)
    PROVE  [Hosts!Next]_Hosts!vars
  <1>t. HostTypeOK
    BY DEF LockInv, TypeOK, AgentTypeOK
  <1>1. Holders' = Holders /\ anc' = anc
    BY DEF Wipe, Rename, processVars, graphVars, Holders, LockedBy, Holding
  <1>2. CASE Wipe(a)
    <2>1. Hosts!Erase(a)
      BY <1>1, <1>2 DEF Wipe, Quiet, Hosts!Erase, Hosts!Held, Holders, LockedBy
    <2>2. QED
      BY <2>1 DEF Hosts!Next
  <1>3. CASE Rename(a, b)
    <2>1. Hosts!Exchange(a, b)
      BY <1>1, <1>3 DEF Rename, Swap, Quiet, Hosts!Exchange, Hosts!Held, Holders, LockedBy
    <2>2. QED
      BY <2>1 DEF Hosts!Next
  <1>4. QED
    BY <1>2, <1>3

(* Every step of the system is a step of the registers or a stutter.       *)
LEMMA NextImplements ==
    ASSUME RefineInv, [Next]_vars
    PROVE  [Hosts!Next]_Hosts!vars
  <1>t. TypeOK /\ ProcessInv /\ CommandInv /\ ConnInv /\ LockInv /\ FreshInv /\ ApplyInv
    BY DEF RefineInv, LockInv
  <1>1. CASE anc' # anc
    <2>1. /\ \A c \in Commit : anc[c] \subseteq anc'[c]
          /\ UNCHANGED <<processVars, hostVars, job>>
      BY <1>1, <1>t, NextFresh
    <2>2. anc' \in [Commit -> SUBSET Commit]
      <3>1. TypeOK'
        BY <1>t, NextType
      <3>2. QED
        BY <3>1 DEF TypeOK, ClusterTypeOK, GraphTypeOK
    <2>3. Hosts!Grow
      BY <2>1, <2>2 DEF Hosts!Grow, processVars, hostVars, LockedBy, Holding
    <2>4. QED
      BY <2>3 DEF Hosts!Next
  <1>2. CASE anc' = anc
    <2>1. CASE UNCHANGED <<processVars, hostVars>>
      BY <1>2, <2>1 DEF Hosts!vars, processVars, hostVars, LockedBy, Holding
    <2>2. ASSUME NEW s \in Slot, AgentStep(s) \/ AgentKilled(s)
          PROVE  [Hosts!Next]_Hosts!vars
      BY <1>t, <2>2, AgentImplements
    <2>3. ASSUME NEW o \in Operator, NEW h \in Host, Connect(o, h)
          PROVE  [Hosts!Next]_Hosts!vars
      <3>1. PICK s \in Slot :
               /\ Free(s) /\ apc'[s] = "idle"
               /\ \A t \in Slot \ {s} : apc'[t] = apc[t] /\ ahost'[t] = ahost[t]
        BY <2>3, <1>t, ConnectFrame
      <3>2. Holders' = Holders
        BY <3>1, HoldersFrame DEF Holding, Free, Live
      <3>3. UNCHANGED <<current, target>>
        BY <2>3, <1>t, ConnectFrame DEF hostVars
      <3>4. QED
        BY <1>2, <3>2, <3>3 DEF Hosts!vars, Holders
    <2>4. ASSUME NEW o \in Operator, NEW h \in Host,
                 ThreadStep(o, h) \/ ConnectFails(o, h) \/ ConnectionLost(o, h)
          PROVE  [Hosts!Next]_Hosts!vars
      BY <2>1, <2>4, <1>t, ThreadFrame
    <2>5. ASSUME NEW o \in Operator, OperatorStep(o) \/ CommandStep(o) \/ DriverCrash(o)
          PROVE  [Hosts!Next]_Hosts!vars
      BY <2>1, <2>5, <1>t, OperatorFrame
    <2>6. ASSUME NEW a \in Host, NEW b \in Host, Wipe(a) \/ Rename(a, b)
          PROVE  [Hosts!Next]_Hosts!vars
      BY <1>t, <2>6, MachineImplements
    <2>7. QED
      BY <2>1, <2>2, <2>3, <2>4, <2>5, <2>6 DEF Next, HostSide, DriverSide, DriverFault, vars
  <1>3. QED
    BY <1>1, <1>2

(* ... and the initial states are initial states of the registers.         *)
LEMMA InitImplements == Init => RefineInv /\ Hosts!Init
  <1> SUFFICES ASSUME Init PROVE RefineInv /\ Hosts!Init
    OBVIOUS
  <1>1. LockInv
    BY InitLockInv
  <1>2. FreshInv /\ ApplyInv
    BY DEF Init, ClusterInit, FreshInv, ApplyInv
  <1>3. Hosts!Init
    BY DEF Init, ClusterInit, AgentInit, Hosts!Init, LockedBy, Holding
  <1>4. QED
    BY <1>1, <1>2, <1>3 DEF RefineInv

LEMMA NextRefineInv == RefineInv /\ [Next]_vars => RefineInv'
  BY NextLockInv, NextFresh, NextApply DEF RefineInv, LockInv

(* The hosts keep their promise.  Whatever the operators do and whatever   *)
(* dies, is lost, wiped or renamed: a host's current ref is only written   *)
(* by the one session that holds its flock, only to what the target ref    *)
(* says already, and only to a descendant of what it replaces.             *)
THEOREM HostsAreRegisters == Spec => Registers
  <1>1. RefineInv /\ [Next]_vars => [Hosts!Next]_Hosts!vars
    BY NextImplements
  <1>2. QED
    BY <1>1, InitImplements, NextRefineInv, PTL DEF Spec, Registers, Hosts!Spec
-----------------------------------------------------------------------------
(* What Register_proofs shows of every register.                           *)
Shown == INSTANCE Register_proofs WITH
    Session <- Slot, value <- current, goal <- target,
    holders <- [h \in Host |-> LockedBy(h)]

LEMMA SameRegisters == Hosts!Spec => Shown!Spec
  <1>1. Hosts!Init => Shown!Init
    BY DEF Hosts!Init, Shown!Init
  <1>2. [Hosts!Next]_Hosts!vars => [Shown!Next]_Shown!vars
    BY DEF Hosts!Next, Hosts!vars, Hosts!Grow, Hosts!Acquire, Hosts!Release, Hosts!Open,
           Hosts!Advance, Hosts!Abandon, Hosts!Erase, Hosts!Exchange, Hosts!Held,
           Shown!Next, Shown!vars, Shown!Grow, Shown!Acquire, Shown!Release, Shown!Open,
           Shown!Advance, Shown!Abandon, Shown!Erase, Shown!Exchange, Shown!Held,
           Hosts!DescendsFrom, Shown!DescendsFrom
  <1>3. QED
    BY <1>1, <1>2, PTL DEF Hosts!Spec, Shown!Spec

(* The target ref tells an unfinished deploy from a finished one: it is    *)
(* current, or a commit on top of it, also after crashes, failed           *)
(* rollbacks, wipes and renames.                                           *)
THEOREM TargetStaysAhead == Spec => []TargetAhead
  <1>1. None \notin Commit
    BY ConstantsAssumption
  <1>2. Shown!Spec => []Shown!GoalAhead
    BY <1>1, Shown!GoalStaysAhead
  <1>3. Shown!GoalAhead => TargetAhead
    BY DEF Shown!GoalAhead, TargetAhead, Shown!History, History
  <1>4. QED
    BY <1>2, <1>3, HostsAreRegisters, SameRegisters, PTL DEF Registers

(* A current ref moves under the lock, or with the machine.                *)
LEMMA MovesWhenHeld ==
    ASSUME "rename" \notin Faults, LockInv, [Next]_vars, NEW h \in Host,
           current'[h] # current[h], current'[h] # None
    PROVE  LockedBy(h) # {}
  <1>t. TypeOK /\ ProcessInv /\ CommandInv
    BY DEF LockInv
  <1>1. ASSUME NEW s \in Slot, AgentStep(s) \/ AgentKilled(s)
        PROVE  LockedBy(h) # {}
    BY <1>1, <1>t, AgentRefs DEF LockedBy
  <1>2. ASSUME NEW o \in Operator, NEW g \in Host,
               Connect(o, g) \/ ThreadStep(o, g) \/ ConnectFails(o, g) \/ ConnectionLost(o, g)
        PROVE  FALSE
    BY <1>2, <1>t, ConnectFrame, ThreadFrame DEF hostVars
  <1>3. ASSUME NEW o \in Operator, OperatorStep(o) \/ CommandStep(o) \/ DriverCrash(o)
        PROVE  FALSE
    BY <1>3, <1>t, OperatorFrame DEF hostVars
  <1>4. ASSUME NEW a \in Host, Wipe(a)
        PROVE  FALSE
    BY <1>4, <1>t DEF Wipe, TypeOK, AgentTypeOK, HostTypeOK
  <1>5. ASSUME NEW a \in Host, NEW b \in Host, Rename(a, b)
        PROVE  FALSE
    BY <1>5 DEF Rename
  <1>6. QED
    BY <1>1, <1>2, <1>3, <1>4, <1>5 DEF Next, HostSide, DriverSide, DriverFault, vars, hostVars

(* No lost update: as long as no machine takes another's name, a host only *)
(* moves to a commit that was made with knowledge of the one it replaces,  *)
(* whoever deploys at the same time and whatever dies or is lost.          *)
THEOREM NoUpdateIsLost ==
    ASSUME "rename" \notin Faults
    PROVE  Spec => NoLostUpdate
  <1>1. None \notin Commit
    BY ConstantsAssumption
  <1>2. Shown!Spec => [][Shown!Onward]_Shown!vars
    BY <1>1, Shown!GoesOnward
  <1>3. LockInv /\ [Next]_vars /\ [Shown!Onward]_Shown!vars =>
          [\A h \in Host :
             current'[h] # current[h] /\ current[h] # None /\ current'[h] # None
               => DescendsFrom(anc', current'[h], current[h])]_vars
    BY MovesWhenHeld
       DEF Shown!Onward, Shown!vars, Shown!Held, Shown!DescendsFrom, DescendsFrom
  <1>4. QED
    BY <1>2, <1>3, LockInvariant, HostsAreRegisters, SameRegisters, PTL
       DEF Registers, Spec, NoLostUpdate
=============================================================================
