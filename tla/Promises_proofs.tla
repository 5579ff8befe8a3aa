---------------------------- MODULE Promises_proofs ----------------------------
(***************************************************************************)
(* What operators can rely on: apply everywhere or nowhere, under the      *)
(* host's own name, with complete histories, and tracking refs that are    *)
(* never ahead of their hosts.                                             *)
(***************************************************************************)
EXTENDS Assertions_proofs

-----------------------------------------------------------------------------
(* Only its own steps take a process somewhere, once it has been started.  *)
LEMMA OwnSteps ==
    ASSUME TypeOK, ProcessInv, CommandInv, [Next]_vars, NEW s \in Slot,
           apc'[s] \notin {apc[s], "idle"}
    PROVE  AgentStep(s) \/ AgentKilled(s)
  <1>1. ASSUME NEW t \in Slot, AgentStep(t) \/ AgentKilled(t)
        PROVE  AgentStep(s) \/ AgentKilled(s)
    <2>1. t = s
      BY <1>1, AgentFrame
    <2>2. QED
      BY <1>1, <2>1
  <1>2. ASSUME NEW o \in Operator, NEW h \in Host, Connect(o, h)
        PROVE  FALSE
    BY <1>2, ConnectFrame
  <1>3. ASSUME NEW o \in Operator, NEW h \in Host,
               ThreadStep(o, h) \/ ConnectFails(o, h) \/ ConnectionLost(o, h)
        PROVE  FALSE
    BY <1>3, ThreadFrame DEF processVars
  <1>4. ASSUME NEW o \in Operator, OperatorStep(o) \/ CommandStep(o) \/ DriverCrash(o)
        PROVE  FALSE
    BY <1>4, OperatorFrame DEF processVars
  <1>5. ASSUME NEW a \in Host, NEW b \in Host, Wipe(a) \/ Rename(a, b)
        PROVE  FALSE
    BY <1>5 DEF Wipe, Rename, processVars
  <1>6. QED
    BY <1>1, <1>2, <1>3, <1>4, <1>5
       DEF Next, HostSide, DriverSide, DriverFault, vars, processVars

(* While a session holds the lock and stays where it is, so does its host. *)
LEMMA HeldStays ==
    ASSUME TypeOK, ProcessInv, CommandInv, LockExclusive, [Next]_vars,
           NEW s \in Slot, Holding(s), apc'[s] = apc[s]
    PROVE  /\ ahost'[s] = ahost[s] /\ job'[s] = job[s]
           /\ current'[ahost[s]] = current[ahost[s]]
           /\ target'[ahost[s]] = target[ahost[s]]
           /\ deployedAs'[ahost[s]] = deployedAs[ahost[s]]
  <1>t. ProcessTypeOK /\ HostTypeOK /\ JobTypeOK /\ ahost[s] \in Host
    BY DEF TypeOK, ClusterTypeOK, AgentTypeOK, ProcessInv, ProcessTypeOK, Holding, Live
  <1> DEFINE Stays == /\ ahost'[s] = ahost[s] /\ job'[s] = job[s]
                      /\ current'[ahost[s]] = current[ahost[s]]
                      /\ target'[ahost[s]] = target[ahost[s]]
                      /\ deployedAs'[ahost[s]] = deployedAs[ahost[s]]
  <1>0. CASE UNCHANGED <<processVars, hostVars, job>>
    BY <1>0 DEF processVars, hostVars
  <1>1. ASSUME NEW t \in Slot, t # s, AgentStep(t) \/ AgentKilled(t)
        PROVE  Stays
    <2>1. ahost'[s] = ahost[s] /\ job'[s] = job[s]
      BY <1>1, AgentFrame
    <2>2. ~(Holding(t) /\ ahost[t] = ahost[s])
      BY <1>1 DEF LockExclusive
    <2>3. current'[ahost[s]] = current[ahost[s]] /\ target'[ahost[s]] = target[ahost[s]]
      BY <1>1, <1>t, <2>2, AgentRefs
    <2>4. deployedAs'[ahost[s]] = deployedAs[ahost[s]]
      <3>1. CASE RecordHostname(t)
        BY <1>t, <2>2, <3>1 DEF RecordHostname, Holding, HostTypeOK
      <3>2. CASE ~RecordHostname(t)
        BY <1>1, <3>2 DEF AgentStep, AgentKilled, HandleLock, HandleReceivePack,
           HandleRequestObjects, PreApplyError, PrepareDeploy, PrepareReapply, StartJob,
           PrepareUnresolved, AgentPanic, SetCurrent, RecordFails, ApplyFails,
           StartRollback, RollbackCompletes, RollbackFails, AgentExit, hostVars
      <3>3. QED
        BY <3>1, <3>2
    <2>5. QED
      BY <2>1, <2>3, <2>4
  <1>2. CASE AgentStep(s) \/ AgentKilled(s)
    BY <1>2, <1>t DEF AgentStep, AgentKilled, HandleLock, HandleReceivePack,
       HandleRequestObjects, PreApplyError, PrepareDeploy, PrepareReapply, StartJob,
       PrepareUnresolved, AgentPanic, Exit, SetCurrent, RecordHostname, RecordFails, ApplyFails,
       EndJob, StartRollback, RollbackCompletes, RollbackFails, AgentExit, hostVars,
       processVars, ProcessTypeOK, Holding
  <1>3. ASSUME NEW o \in Operator, NEW h \in Host, Connect(o, h)
        PROVE  Stays
    <2>1. PICK t \in Slot : /\ Free(t)
                            /\ \A r \in Slot \ {t} : ahost'[r] = ahost[r]
      BY <1>3, ConnectFrame
    <2>2. s # t
      BY <2>1 DEF Free, Live, Holding
    <2>3. UNCHANGED <<hostVars, job>>
      BY <1>3, ConnectFrame
    <2>4. QED
      BY <2>1, <2>2, <2>3 DEF hostVars
  <1>4. ASSUME NEW o \in Operator, NEW h \in Host,
               ThreadStep(o, h) \/ ConnectFails(o, h) \/ ConnectionLost(o, h)
        PROVE  Stays
    BY <1>0, <1>4, ThreadFrame
  <1>5. ASSUME NEW o \in Operator, OperatorStep(o) \/ CommandStep(o) \/ DriverCrash(o)
        PROVE  Stays
    BY <1>0, <1>5, OperatorFrame
  <1>6. ASSUME NEW a \in Host, NEW b \in Host, Wipe(a) \/ Rename(a, b)
        PROVE  Stays
    <2>1. UNCHANGED <<processVars, job>>
      BY <1>6 DEF Wipe, Rename
    <2>2. QED
      BY <1>6, <1>t, <2>1 DEF Wipe, Rename, Quiet, Swap, HostTypeOK, processVars
  <1>7. QED
    BY <1>0, <1>1, <1>2, <1>3, <1>4, <1>5, <1>6
       DEF Next, HostSide, DriverSide, DriverFault, vars

(* What an apply is about to record has become current.                    *)
RecordInv == \A s \in Slot : apc[s] = "record" => current[ahost[s]] = job[s].commit

LEMMA NextRecord ==
    ASSUME AssertInv, RecordInv, [Next]_vars
    PROVE  RecordInv'
  <1>t. /\ TypeOK /\ ProcessInv /\ CommandInv /\ LockExclusive
        /\ ProcessTypeOK /\ HostTypeOK
    BY DEF AssertInv, RefineInv, LockInv, TypeOK, ClusterTypeOK, AgentTypeOK
  <1> SUFFICES ASSUME NEW s \in Slot, apc'[s] = "record"
               PROVE  current'[ahost'[s]] = job'[s].commit
    BY DEF RecordInv
  <1>1. CASE apc[s] = "record"
    BY <1>1, <1>t, HeldStays DEF RecordInv, Holding
  <1>2. CASE apc[s] # "record"
    <2>1. AgentStep(s) \/ AgentKilled(s)
      BY <1>2, <1>t, OwnSteps
    <2>2. SetCurrent(s)
      BY <1>2, <1>t, <2>1 DEF AgentStep, AgentKilled, HandleLock, HandleReceivePack,
       HandleRequestObjects, PreApplyError, PrepareDeploy, PrepareReapply, StartJob,
       PrepareUnresolved, AgentPanic, Exit, RecordHostname, RecordFails, ApplyFails,
       EndJob, StartRollback, RollbackCompletes, RollbackFails, AgentExit,
       processVars, ProcessTypeOK
    <2>3. ahost[s] \in Host
      BY <1>t, <2>2 DEF SetCurrent, ProcessInv, ProcessTypeOK, Live
    <2>4. QED
      BY <1>t, <2>2, <2>3 DEF SetCurrent, HostTypeOK
  <1>3. QED
    BY <1>1, <1>2
-----------------------------------------------------------------------------
(* What a host runs was made for the name it was deployed under, as long   *)
(* as that name is known; and what is about to be current was made for the *)
(* host.                                                                   *)
NameInv ==
    /\ \A h \in Host : deployedAs[h] # None =>
         current[h] # None /\ HasEntry(current[h], deployedAs[h])
    /\ \A s \in Slot : apc[s] = "modify" => HasEntry(job[s].commit, ahost[s])
    /\ LockedUnderOwnName

(* A commit that was created stays made for the same hosts.                *)
LEMMA EntryStays ==
    ASSUME TypeOK, [Next]_vars, NEW c \in Created, NEW h
    PROVE  HasEntry(c, h)' <=> HasEntry(c, h)
  BY CreatedStays DEF HasEntry

(* Who changes what a host runs or is known as.                            *)
LEMMA HostMoves ==
    ASSUME TypeOK, ProcessInv, CommandInv, [Next]_vars, NEW h \in Host,
           current'[h] # current[h] \/ deployedAs'[h] # deployedAs[h]
    PROVE  \/ \E s \in Slot : ahost[s] = h /\ (SetCurrent(s) \/ RecordHostname(s))
           \/ \E a, b \in Host : Wipe(a) \/ Rename(a, b)
  <1>t. HostTypeOK
    BY DEF TypeOK, AgentTypeOK
  <1>1. ASSUME NEW s \in Slot, AgentStep(s) \/ AgentKilled(s)
        PROVE  ahost[s] = h /\ (SetCurrent(s) \/ RecordHostname(s))
    <2>1. SetCurrent(s) \/ RecordHostname(s)
      BY <1>1 DEF AgentStep, AgentKilled, HandleLock, HandleReceivePack,
       HandleRequestObjects, PreApplyError, PrepareDeploy, PrepareReapply, StartJob,
       PrepareUnresolved, AgentPanic, RecordFails, ApplyFails,
       StartRollback, RollbackCompletes, RollbackFails, AgentExit, hostVars, refVars
    <2>2. QED
      BY <1>t, <2>1 DEF SetCurrent, RecordHostname, refVars, HostTypeOK
  <1>2. ASSUME NEW o \in Operator, NEW g \in Host,
               \/ Connect(o, g) \/ ThreadStep(o, g)
               \/ ConnectFails(o, g) \/ ConnectionLost(o, g)
        PROVE  FALSE
    BY <1>2, ConnectFrame, ThreadFrame DEF hostVars
  <1>3. ASSUME NEW o \in Operator, OperatorStep(o) \/ CommandStep(o) \/ DriverCrash(o)
        PROVE  FALSE
    BY <1>3, OperatorFrame DEF hostVars
  <1>4. QED
    BY <1>1, <1>2, <1>3 DEF Next, HostSide, DriverSide, DriverFault, vars, hostVars

LEMMA NextName ==
    ASSUME AssertInv, RecordInv, NameInv, [Next]_vars
    PROVE  NameInv'
  <1>t. /\ TypeOK /\ ProcessInv /\ CommandInv /\ LockExclusive
        /\ ProcessTypeOK /\ HostTypeOK /\ JobTypeOK /\ None \notin Host \cup Commit
        /\ \A s \in Slot : Live(s) => ahost[s] \in Host
    BY ConstantsAssumption DEF AssertInv, RefineInv, LockInv, TypeOK, ClusterTypeOK, AgentTypeOK,
       ProcessInv, ProcessTypeOK
  <1>k. \A h \in Host : current[h] # None => current[h] \in Created
    BY DEF AssertInv, KnownInv, Known
  <1>e. \A c \in Created : \A h : HasEntry(c, h)' <=> HasEntry(c, h)
    BY <1>t, EntryStays
  <1>j. \A s \in Slot : apc[s] = "modify" =>
           /\ job[s].commit \in Created /\ HasEntry(job[s].commit, ahost[s])
    <2>1. \A s \in Slot : apc[s] = "modify" => job[s].commit \in Commit
      BY <1>t, Fields DEF ProcessInv
    <2>2. \A s \in Slot : apc[s] = "modify" => job[s].commit = target[ahost[s]]
      BY DEF AssertInv, RefineInv, ApplyInv
    <2>3. QED
      BY <1>t, <2>1, <2>2 DEF NameInv, AssertInv, KnownInv, Known, Live
  \* What a session that holds the lock finds.
  <1>h. \A s \in Slot : Holding(s) /\ current[ahost[s]] # None =>
           HasEntry(current[ahost[s]], ahost[s]) /\ deployedAs[ahost[s]] \in {None, ahost[s]}
    BY <1>t DEF NameInv, LockedUnderOwnName, LockedBy, Holding, Live
  \* What a step makes of a host.
  <1>m. ASSUME NEW h \in Host, current'[h] # current[h] \/ deployedAs'[h] # deployedAs[h],
               NEW s \in Slot, ahost[s] = h, SetCurrent(s) \/ RecordHostname(s)
        PROVE  /\ current'[h] \in Created /\ HasEntry(current'[h], h)
               /\ deployedAs'[h] \in {None, h}
    <2>1. CASE SetCurrent(s)
      <3>1. current'[h] = job[s].commit /\ deployedAs' = deployedAs
        BY <1>m, <1>t, <2>1 DEF SetCurrent, HostTypeOK
      <3>2. deployedAs[h] \in {None, h}
        BY <1>m, <1>h, <2>1 DEF NameInv, SetCurrent, Holding
      <3>3. QED
        BY <1>m, <1>j, <2>1, <3>1, <3>2 DEF SetCurrent
    <2>2. CASE RecordHostname(s)
      <3>1. current' = current /\ deployedAs'[h] = h
        BY <1>m, <1>t, <2>2 DEF RecordHostname, refVars, HostTypeOK
      <3>2. current[h] \in Commit
        <4>1. job[s].commit \in Commit
          BY <1>t, <2>2, Fields DEF RecordHostname, ProcessInv
        <4>2. QED
          BY <1>m, <2>2, <4>1 DEF RecordInv, RecordHostname
      <3>3. QED
        BY <1>m, <1>h, <1>k, <1>t, <2>2, <3>1, <3>2 DEF RecordHostname, Holding
    <2>3. QED
      BY <1>m, <2>1, <2>2
  <1>1. \A h \in Host : deployedAs'[h] # None =>
           current'[h] # None /\ HasEntry(current[h], deployedAs[h])'
    <2> SUFFICES ASSUME NEW h \in Host, deployedAs'[h] # None
                 PROVE  current'[h] # None /\ HasEntry(current[h], deployedAs[h])'
      OBVIOUS
    <2>1. CASE current'[h] = current[h] /\ deployedAs'[h] = deployedAs[h]
      BY <1>e, <1>k, <2>1 DEF NameInv
    <2>2. ASSUME NEW s \in Slot, ahost[s] = h, SetCurrent(s) \/ RecordHostname(s),
                 current'[h] # current[h] \/ deployedAs'[h] # deployedAs[h]
          PROVE  current'[h] # None /\ HasEntry(current[h], deployedAs[h])'
      BY <1>e, <1>m, <1>t, <2>2 DEF Created
    <2>3. ASSUME NEW a \in Host, NEW b \in Host, Wipe(a) \/ Rename(a, b)
          PROVE  current'[h] # None /\ HasEntry(current[h], deployedAs[h])'
      <3>1. CASE Wipe(a)
        BY <1>e, <1>k, <1>t, <3>1 DEF Wipe, NameInv, HostTypeOK
      <3>2. CASE Rename(a, b)
        <4>1. PICK g \in Host : current'[h] = current[g] /\ deployedAs'[h] = deployedAs[g]
          BY <1>t, <3>2 DEF Rename, Swap, HostTypeOK
        <4>2. QED
          BY <1>e, <1>k, <4>1 DEF NameInv
      <3>3. QED
        BY <2>3, <3>1, <3>2
    <2>4. QED
      BY <1>t, <2>1, <2>2, <2>3, HostMoves
  <1>2. \A s \in Slot : apc'[s] = "modify" => HasEntry(job[s].commit, ahost[s])'
    <2> SUFFICES ASSUME NEW s \in Slot, apc'[s] = "modify"
                 PROVE  HasEntry(job[s].commit, ahost[s])'
      OBVIOUS
    <2>1. CASE apc[s] = "modify"
      <3>1. ahost'[s] = ahost[s] /\ job'[s] = job[s]
        BY <1>t, <2>1, HeldStays DEF Holding
      <3>2. QED
        BY <1>e, <1>j, <2>1, <3>1
    <2>2. CASE apc[s] # "modify"
      <3>1. AgentStep(s) \/ AgentKilled(s)
        BY <1>t, <2>2, OwnSteps
      <3>2. PrepareDeploy(s) \/ PrepareReapply(s)
        BY <1>t, <2>2, <3>1 DEF AgentStep, AgentKilled, HandleLock, HandleReceivePack,
         HandleRequestObjects, PreApplyError, SetCurrent,
         PrepareUnresolved, AgentPanic, Exit, RecordHostname, RecordFails, ApplyFails,
         EndJob, StartRollback, RollbackCompletes, RollbackFails, AgentExit,
         processVars, ProcessTypeOK
      <3>3. /\ job'[s].commit = inbox[s].commit /\ ahost'[s] = ahost[s]
            /\ Holding(s) /\ Live(s)
        BY <1>t, <3>2 DEF PrepareDeploy, PrepareReapply, StartJob, JobTypeOK, Holding, Live
      <3>4. CASE PrepareDeploy(s)
        <4>1. inbox[s].commit \in Created /\ HasEntry(inbox[s].commit, ahost[s])
          BY <3>3, <3>4 DEF PrepareDeploy, AssertInv, RequestInv, Answerable, Fits
        <4>2. QED
          BY <1>e, <3>3, <4>1
      <3>5. CASE PrepareReapply(s)
        <4>1. inbox[s].commit = current[ahost[s]] /\ inbox[s].commit \in Commit
          BY <1>t, <3>5 DEF PrepareReapply, ReapplyAssertions, ProcessInv
        <4>2. QED
          BY <1>e, <1>h, <1>k, <1>t, <3>3, <4>1
      <3>6. QED
        BY <3>2, <3>4, <3>5
    <2>3. QED
      BY <2>1, <2>2
  <1>3. LockedUnderOwnName'
    <2> SUFFICES ASSUME NEW h \in Host, NEW s \in Slot, Holding(s)', ahost'[s] = h,
                        current'[h] # None
                 PROVE  HasEntry(current[h], h)' /\ deployedAs'[h] \in {None, h}
      BY DEF LockedUnderOwnName, LockedBy
    <2>1. CASE current'[h] = current[h] /\ deployedAs'[h] = deployedAs[h]
      <3>1. HasEntry(current[h], h) /\ deployedAs[h] \in {None, h}
        <4>1. CASE Holding(s)
          <5>1. ahost[s] = h
            BY <1>t, <4>1, Lives DEF Holding, Live, Free
          <5>2. QED
            BY <1>h, <2>1, <4>1, <5>1
        <4>2. CASE ~Holding(s)
          <5>1. AgentStep(s) \/ AgentKilled(s)
            BY <1>t, <4>2, OwnSteps DEF Holding
          <5>2. HandleLock(s) /\ ahost'[s] = ahost[s]
            BY <1>t, <4>2, <5>1 DEF AgentStep, AgentKilled, HandleReceivePack,
             HandleRequestObjects, PreApplyError, SetCurrent, PrepareDeploy, PrepareReapply,
             PrepareUnresolved, AgentPanic, Exit, RecordHostname, RecordFails, ApplyFails,
             EndJob, StartRollback, RollbackCompletes, RollbackFails, AgentExit,
             processVars, ProcessTypeOK, Holding, HandleLock
          <5>3. ~HostnameChanged(h)
            BY <1>t, <4>2, <5>2 DEF HandleLock, LockAnswer, Msg, Holding, ProcessTypeOK
          <5>4. QED
            BY <2>1, <5>3 DEF HostnameChanged, NameInv
        <4>3. QED
          BY <4>1, <4>2
      <3>2. QED
        BY <1>e, <1>k, <2>1, <3>1
    <2>2. ASSUME NEW t \in Slot, ahost[t] = h, SetCurrent(t) \/ RecordHostname(t),
                 current'[h] # current[h] \/ deployedAs'[h] # deployedAs[h]
          PROVE  HasEntry(current[h], h)' /\ deployedAs'[h] \in {None, h}
      BY <1>e, <1>m, <2>2
    <2>3. ASSUME NEW a \in Host, NEW b \in Host, Wipe(a) \/ Rename(a, b),
                 current'[h] # current[h] \/ deployedAs'[h] # deployedAs[h]
          PROVE  FALSE
      BY <1>t, <2>3 DEF Wipe, Rename, Quiet, Swap, HostTypeOK, processVars
    <2>4. QED
      BY <1>t, <2>1, <2>2, <2>3, HostMoves
  <1>4. QED
    BY <1>1, <1>2, <1>3 DEF NameInv
-----------------------------------------------------------------------------
(* An apply is under way. *)
Applying(s) == apc[s] \in {"modify", "record", "rollback"}

(* What the apply-or-nothing promise rests on.  Where a commit can be seen *)
(* outside the plan it was made for: on a host, in an operator's refs, in  *)
(* an apply or on a pipe.                                                  *)
Seen(c) ==
    \/ \E h \in Host : c \in {current[h], target[h]}
    \/ \E o \in Operator, h \in Host : c \in {tracking[o][h], actual[o][h], plan[o].expected[h]}
    \/ \E s \in Slot : Applying(s) /\ c \in {job[s].base, job[s].commit}
    \/ \E s \in Slot : inbox[s] # None /\ c = inbox[s].commit
    \/ \E s \in Slot : outbox[s] # None /\ outbox[s].type = "LockStale" /\ c = outbox[s].commit

(* The states of a thread before and after the command starts to apply.    *)
Early == {"connect", "lock", "locked", "refused", "stale"}

Working == {"push", "pushing", "applying", "applied", "done", "rolledback"}

PublishInv ==
    /\ \A s \in Slot : ~Applying(s) => job[s] = None
    /\ \A c \in Commit : Seen(c) => c \in Created
    /\ \A o \in Operator : IF cmd[o] = "deploy" THEN plan[o].commit \in Created
                                                ELSE plan[o].commit = None
    /\ \A o, p \in Operator : o # p /\ plan[o].commit = plan[p].commit => plan[o].commit = None
    /\ \A o \in Operator : cmd[o] = "deploy" /\ phase[o] # "applying" => ~Seen(plan[o].commit)
    /\ \A o \in Operator, h \in Host :
         /\ thread[o][h] \in Working => phase[o] = "applying"
         /\ phase[o] = "applying" => thread[o][h] \notin Early

(* A command starts, ends, or goes from one phase to the next.             *)
StartsOver(o) ==
    /\ phase'[o] # "applying"
    /\ \A h \in Host : /\ thread'[o][h] \in {"none", "connect"}
                       /\ plan'[o].expected[h] \in {Tracked(o, h), None}
    /\ IF cmd'[o] = "deploy" THEN plan'[o].commit \in Created' \ Created
                             ELSE plan'[o].commit = None

MovesOn(o) ==
    /\ cmd'[o] = cmd[o] /\ plan'[o] = plan[o]
    /\ phase[o] # "applying"
    /\ IF phase'[o] = "applying" THEN \A h \in Host : thread'[o][h] \in {"none", "push"}
                                 ELSE thread'[o] = thread[o]

LEMMA CommandMoves ==
    ASSUME TypeOK, NEW o \in Operator, OperatorStep(o) \/ CommandStep(o) \/ DriverCrash(o)
    PROVE  /\ StartsOver(o) \/ MovesOn(o)
           /\ \A p \in Operator : p # o =>
                /\ cmd'[p] = cmd[p] /\ phase'[p] = phase[p]
                /\ plan'[p] = plan[p] /\ thread'[p] = thread[p]
  <1>t. CommandTypeOK /\ ThreadTypeOK /\ GraphTypeOK /\ None \notin Config \cup Commit
    BY ConstantsAssumption DEF TypeOK, ClusterTypeOK, DriverTypeOK
  <1>0. ASSUME NEW H, StartThreads(o, H)
        PROVE  /\ \A h \in Host : thread'[o][h] \in {"none", "connect"}
               /\ \A p \in Operator : p # o => thread'[p] = thread[p]
    BY <1>0, <1>t DEF StartThreads, ThreadTypeOK
  <1>1. ASSUME NEW g \in Config, NEW c \in Commit, NEW limit \in SUBSET DOMAIN TreeOf[g],
               MakePlan(o, g, limit, c)
        PROVE  /\ StartsOver(o)
               /\ \A p \in Operator : p # o =>
                    /\ cmd'[p] = cmd[p] /\ phase'[p] = phase[p]
                    /\ plan'[p] = plan[p] /\ thread'[p] = thread[p]
    <2>1. /\ plan'[o].commit = c
          /\ \A h \in Host : plan'[o].expected[h] \in {Tracked(o, h), None}
          /\ cmd'[o] = "deploy" /\ phase'[o] = "confirm"
      BY <1>1, <1>t DEF MakePlan, CommandTypeOK
    <2>2. c \in Created' \ Created
      BY <1>1, <1>t DEF MakePlan, Created, GraphTypeOK
    <2>3. StartThreads(o, Changed(o, g, limit))
      BY <1>1 DEF MakePlan
    <2>4. \A p \in Operator : p # o =>
             cmd'[p] = cmd[p] /\ phase'[p] = phase[p] /\ plan'[p] = plan[p]
      BY <1>1, <1>t DEF MakePlan, CommandTypeOK
    <2>5. QED
      BY <1>0, <2>1, <2>2, <2>3, <2>4 DEF StartsOver
  <1>2. ASSUME NEW H \in SUBSET Host, StartReapply(o, H) \/ StartSync(o, H)
        PROVE  /\ StartsOver(o)
               /\ \A p \in Operator : p # o =>
                    /\ cmd'[p] = cmd[p] /\ phase'[p] = phase[p]
                    /\ plan'[p] = plan[p] /\ thread'[p] = thread[p]
    <2>1. /\ plan'[o].commit = None
          /\ \A h \in Host : plan'[o].expected[h] \in {Tracked(o, h), None}
          /\ cmd'[o] # "deploy" /\ phase'[o] # "applying"
      BY <1>2, <1>t DEF StartReapply, StartSync, Select, NoPlan, CommandTypeOK
    <2>2. StartThreads(o, H)
      BY <1>2 DEF StartReapply, StartSync, Select
    <2>3. \A p \in Operator : p # o =>
             cmd'[p] = cmd[p] /\ phase'[p] = phase[p] /\ plan'[p] = plan[p]
      BY <1>2, <1>t DEF StartReapply, StartSync, Select, CommandTypeOK
    <2>4. QED
      BY <1>0, <2>1, <2>2, <2>3 DEF StartsOver
  <1>3. ASSUME EndCommand(o)
        PROVE  /\ StartsOver(o)
               /\ \A p \in Operator : p # o =>
                    /\ cmd'[p] = cmd[p] /\ phase'[p] = phase[p]
                    /\ plan'[p] = plan[p] /\ thread'[p] = thread[p]
    <2>1. /\ plan'[o].commit = None
          /\ \A h \in Host : plan'[o].expected[h] = None
          /\ cmd'[o] # "deploy" /\ phase'[o] # "applying"
      BY <1>3, <1>t DEF EndCommand, NoPlan, CommandTypeOK
    <2>2. StartThreads(o, {})
      BY <1>3 DEF EndCommand
    <2>3. \A p \in Operator : p # o =>
             cmd'[p] = cmd[p] /\ phase'[p] = phase[p] /\ plan'[p] = plan[p]
      BY <1>3, <1>t DEF EndCommand, CommandTypeOK
    <2>4. QED
      BY <1>0, <2>1, <2>2, <2>3 DEF StartsOver
  <1>4. CASE Confirm(o) \/ StartFetching(o)
    BY <1>4, <1>t DEF Confirm, StartFetching, Joined, MovesOn, threadVars, CommandTypeOK
  <1>5. CASE ProceedDeploy(o) \/ ProceedReapply(o)
    <2>1. /\ \A h \in Host : thread'[o][h] \in {"none", "push"}
          /\ \A p \in Operator : p # o => thread'[p] = thread[p]
      BY <1>5, <1>t, ProceedThreads DEF ThreadTypeOK
    <2>2. /\ UNCHANGED <<cmd, plan>>
          /\ phase[o] # "applying" /\ phase' = [phase EXCEPT ![o] = "applying"]
      BY <1>5 DEF ProceedDeploy, ProceedReapply, StartApplying, Joined
    <2>3. QED
      BY <1>t, <2>1, <2>2 DEF MovesOn, CommandTypeOK
  <1>6. CASE Decline(o) \/ RefuseReapply(o) \/ Finish(o) \/ DriverCrash(o)
    BY <1>3, <1>6 DEF Decline, RefuseReapply, Finish, DriverCrash
  <1>7. QED
    BY <1>1, <1>2, <1>4, <1>5, <1>6 DEF OperatorStep, CommandStep

(* What a thread may do next.                                              *)
LEMMA ThreadPhases ==
    ASSUME TypeOK, CommandInv, NEW o \in Operator, NEW h \in Host,
           \/ Connect(o, h) \/ ThreadStep(o, h)
           \/ ConnectFails(o, h) \/ ConnectionLost(o, h)
    PROVE  /\ UNCHANGED commandVars
           /\ \A p \in Operator, g \in Host :
                /\ thread'[p][g] \in Working => thread[p][g] \in Working
                /\ thread'[p][g] \in Early => thread[p][g] \in Early
  <1>t. ThreadTypeOK
    BY DEF TypeOK, DriverTypeOK
  <1>1. UNCHANGED commandVars /\ Moves(o, h)
    BY ThreadMoves
  <1>2. ASSUME NEW state, thread' = [thread EXCEPT ![o][h] = state]
        PROVE  thread'[o][h] = state
    BY <1>2, <1>t DEF ThreadTypeOK
  <1>3. CASE Connect(o, h)
    <2>1. thread[o][h] = "connect" /\ thread'[o][h] \in {"lock", "stale", "uptodate"}
      BY <1>2, <1>3 DEF Connect, ConnectAndLock, ConnectForSync
    <2>2. QED
      BY <1>1, <2>1 DEF Moves, Working, Early
  <1>4. CASE ConnectFails(o, h)
    <2>1. thread[o][h] = "connect" /\ thread'[o][h] = "refused"
      BY <1>2, <1>4 DEF ConnectFails
    <2>2. QED
      BY <1>1, <2>1 DEF Moves, Working, Early
  <1>5. CASE ReadEOF(o, h) \/ ConnectionLost(o, h)
    <2>1. \/ thread[o][h] = "lock" /\ thread'[o][h] = "refused"
          \/ thread'[o][h] = "failed"
      BY <1>2, <1>5, <1>t DEF ReadEOF, ConnectionLost, Hangup, LostState, ThreadTypeOK
    <2>2. QED
      BY <1>1, <2>1 DEF Moves, Working, Early
  <1>6. CASE ReadLock(o, h) \/ FetchStale(o, h) \/ ReadObjects(o, h)
    <2>1. \/ thread[o][h] = "lock" /\ thread'[o][h] \in {"locked", "stale", "refused"}
          \/ thread'[o][h] \in {"fetch", "fetched", "failed"}
      BY <1>2, <1>6 DEF ReadLock, FetchStale, ReadObjects, Receive, Hangup
    <2>2. QED
      BY <1>1, <2>1 DEF Moves, Working, Early
  <1>7. CASE \/ SendPack(o, h) \/ ReadPackReceived(o, h) \/ SendReapply(o, h)
             \/ ReadApply(o, h) \/ ReadApplied(o, h)
    <2>1. /\ thread[o][h] \in {"push", "pushing", "applying", "applied"}
          /\ thread'[o][h] \in {"pushing", "applying", "applied", "done", "rolledback", "failed"}
      BY <1>2, <1>7 DEF SendPack, ReadPackReceived, SendReapply, ReadApply, ReadApplied,
         Receive, Hangup
    <2>2. QED
      BY <1>1, <2>1 DEF Moves, Working, Early
  <1>8. QED
    BY <1>3, <1>4, <1>5, <1>6, <1>7 DEF ThreadStep

(* What a thread sends, and where.                                         *)
LEMMA ThreadSends ==
    ASSUME TypeOK, NEW o \in Operator, NEW h \in Host,
           ThreadStep(o, h) \/ ConnectFails(o, h) \/ ConnectionLost(o, h),
           NEW s \in Slot, inbox'[s] # inbox[s], inbox'[s] # None
    PROVE  /\ s = conn[o][h]
           /\ \/ /\ thread[o][h] = "stale" /\ UNCHANGED storeVars
                 /\ inbox'[s] = ObjectsRequest(plan[o].expected[h])
              \/ /\ SendPack(o, h)
                 /\ inbox'[s] = ReceivePackRequest(Pack(anc, plan[o].commit, plan[o].expected[h]))
              \/ /\ thread[o][h] = "pushing"
                 /\ inbox'[s] = ApplyDeploy(plan[o].commit, plan[o].safe[h])
              \/ /\ cmd[o] = "reapply"
                 /\ inbox'[s] = ApplyReapply(plan[o].expected[h])
  <1>t. PipeTypeOK
    BY DEF TypeOK, ClusterTypeOK
  <1>1. ASSUME NEW r, SendTo(conn[o][h], r)
        PROVE  s = conn[o][h] /\ inbox'[s] = r
    BY <1>1, <1>t DEF SendTo, PipeTypeOK
  <1>2. CASE ConnectFails(o, h) \/ ConnectionLost(o, h)
    BY <1>2, <1>t DEF ConnectFails, ConnectionLost, pipeVars, PipeTypeOK
  <1>3. CASE ReadLock(o, h) \/ ReadObjects(o, h) \/ ReadApply(o, h) \/ ReadApplied(o, h) \/ ReadEOF(o, h)
    BY <1>3 DEF ReadLock, ReadObjects, ReadApply, ReadApplied, ReadEOF, Receive, Hangup
  <1>4. CASE FetchStale(o, h)
    BY <1>1, <1>4 DEF FetchStale, Hangup, storeVars
  <1>5. CASE SendPack(o, h)
    BY <1>1, <1>5 DEF SendPack
  <1>6. CASE ReadPackReceived(o, h)
    BY <1>1, <1>6 DEF ReadPackReceived, SendApply, Hangup
  <1>7. CASE SendReapply(o, h)
    BY <1>1, <1>7 DEF SendReapply, SendApply
  <1>8. QED
    BY <1>2, <1>3, <1>4, <1>5, <1>6, <1>7 DEF ThreadStep

(* Where a job comes from, and that it is gone with the apply.             *)
LEMMA JobsStart ==
    ASSUME TypeOK, ProcessInv, CommandInv, [Next]_vars, NEW s \in Slot
    PROVE  /\ Applying(s)' =>
                \/ Applying(s) /\ job'[s] = job[s]
                \/ /\ PrepareDeploy(s) \/ PrepareReapply(s)
                   /\ job'[s].base = current[ahost[s]] /\ job'[s].commit = inbox[s].commit
           /\ ~Applying(s)' => job'[s] = None \/ (~Applying(s) /\ job'[s] = job[s])
  <1>t. JobTypeOK /\ ProcessTypeOK
    BY DEF TypeOK, ClusterTypeOK, AgentTypeOK
  <1> DEFINE Starts ==
        /\ Applying(s)' =>
             \/ Applying(s) /\ job'[s] = job[s]
             \/ /\ PrepareDeploy(s) \/ PrepareReapply(s)
                /\ job'[s].base = current[ahost[s]] /\ job'[s].commit = inbox[s].commit
        /\ ~Applying(s)' => job'[s] = None \/ (~Applying(s) /\ job'[s] = job[s])
  <1>0. ASSUME job'[s] = job[s], apc'[s] = apc[s]
        PROVE  Starts
    BY <1>0 DEF Applying
  <1>1. ASSUME NEW t \in Slot, t # s, AgentStep(t) \/ AgentKilled(t)
        PROVE  Starts
    BY <1>0, <1>1, AgentFrame
  <1>2. CASE PrepareDeploy(s) \/ PrepareReapply(s)
    BY <1>2, <1>t DEF PrepareDeploy, PrepareReapply, StartJob, Applying, JobTypeOK, ProcessTypeOK
  <1>3. CASE SetCurrent(s) \/ StartRollback(s)
    BY <1>3, <1>t DEF SetCurrent, StartRollback, Applying, ProcessTypeOK
  <1>4. CASE \/ RecordHostname(s) \/ RecordFails(s) \/ ApplyFails(s)
             \/ RollbackCompletes(s) \/ RollbackFails(s)
    BY <1>4, <1>t DEF RecordHostname, RecordFails, ApplyFails, RollbackCompletes,
       RollbackFails, EndJob, Applying, JobTypeOK, ProcessTypeOK
  <1>5. CASE AgentPanic(s) \/ AgentExit(s) \/ AgentKilled(s)
    BY <1>5, <1>t DEF AgentPanic, AgentExit, AgentKilled, Exit, Applying, JobTypeOK, ProcessTypeOK
  <1>6. CASE \/ HandleLock(s) \/ HandleReceivePack(s) \/ HandleRequestObjects(s)
             \/ PreApplyError(s) \/ PrepareUnresolved(s)
    BY <1>6, <1>t DEF HandleLock, HandleReceivePack, HandleRequestObjects, PreApplyError,
       PrepareUnresolved, Applying, ProcessTypeOK, processVars
  <1>7. ASSUME NEW o \in Operator, NEW g \in Host, Connect(o, g)
        PROVE  Starts
    BY <1>0, <1>7, ConnectFrame DEF Free, Live, Applying
  <1>8. ASSUME NEW o \in Operator, NEW g \in Host,
               ThreadStep(o, g) \/ ConnectFails(o, g) \/ ConnectionLost(o, g)
        PROVE  Starts
    BY <1>0, <1>8, ThreadFrame DEF processVars
  <1>9. ASSUME NEW o \in Operator, OperatorStep(o) \/ CommandStep(o) \/ DriverCrash(o)
        PROVE  Starts
    BY <1>0, <1>9, OperatorFrame DEF processVars
  <1>10. ASSUME NEW a \in Host, NEW b \in Host, Wipe(a) \/ Rename(a, b)
         PROVE  Starts
    BY <1>0, <1>10 DEF Wipe, Rename, processVars
  <1>11. QED
    BY <1>0, <1>1, <1>2, <1>3, <1>4, <1>5, <1>6, <1>7, <1>8, <1>9, <1>10
       DEF Next, HostSide, DriverSide, DriverFault, AgentStep, vars, processVars
-----------------------------------------------------------------------------
(* The commit of a command that applies goes wherever it is needed.        *)
Published(c) ==
    \E o \in Operator : /\ cmd[o] = "deploy" /\ phase[o] = "applying"
                        /\ c = plan[o].commit

LEMMA NextSeen ==
    ASSUME LockInv, PublishInv, [Next]_vars, NEW c \in Commit, Seen(c)'
    PROVE  Seen(c) \/ Published(c)
  <1>t. /\ TypeOK /\ ProcessInv /\ CommandInv
        /\ HostTypeOK /\ JobTypeOK /\ PipeTypeOK /\ None \notin Commit
    BY ConstantsAssumption DEF LockInv, TypeOK, ClusterTypeOK, AgentTypeOK
  <1>1. ASSUME NEW h \in Host, c \in {current'[h], target'[h]}
        PROVE  Seen(c) \/ Published(c)
    <2>1. ASSUME NEW s \in Slot, AgentStep(s) \/ AgentKilled(s)
          PROVE  Seen(c)
      <3>1. c \in {current[h], target[h]} \/ (Asked(s, "Deploy") /\ c = inbox[s].commit)
              \/ (apc[s] \in {"modify", "rollback"} /\ c \in {job[s].base, job[s].commit})
        BY <1>1, <1>t, <2>1, AgentAnswers
      <3>2. QED
        BY <3>1 DEF Seen, Asked, Applying
    <2>2. ASSUME NEW a \in Host, NEW b \in Host, Wipe(a) \/ Rename(a, b)
          PROVE  Seen(c)
      <3>1. \E g \in Host : c \in {current[g], target[g]}
        BY <1>1, <1>t, <2>2 DEF Wipe, Rename, Swap, HostTypeOK
      <3>2. QED
        BY <3>1 DEF Seen
    <2>3. CASE UNCHANGED hostVars
      BY <1>1, <2>3 DEF Seen, hostVars
    <2>4. ASSUME NEW o \in Operator, NEW g \in Host,
                 \/ Connect(o, g) \/ ThreadStep(o, g)
                 \/ ConnectFails(o, g) \/ ConnectionLost(o, g)
          PROVE  UNCHANGED hostVars
      BY <1>t, <2>4, ConnectFrame, ThreadFrame
    <2>5. ASSUME NEW o \in Operator, OperatorStep(o) \/ CommandStep(o) \/ DriverCrash(o)
          PROVE  UNCHANGED hostVars
      BY <1>t, <2>5, OperatorFrame
    <2>6. QED
      BY <2>1, <2>2, <2>3, <2>4, <2>5 DEF Next, HostSide, DriverSide, DriverFault, vars
  <1>2. ASSUME NEW o \in Operator, NEW h \in Host, c \in {tracking'[o][h], actual'[o][h]}
        PROVE  Seen(c) \/ Published(c)
    <2>1. CASE c \in {tracking[o][h], actual[o][h], current[h]}
      BY <2>1 DEF Seen
    <2>2. CASE DriverSide /\ ~(c \in {tracking[o][h], actual[o][h], current[h]})
      <3>1. CASE /\ cmd[o] = "deploy" /\ thread[o][h] = "applied"
                 /\ c = plan[o].commit
        <4>1. phase[o] = "applying"
          BY <3>1 DEF PublishInv, Working
        <4>2. QED
          BY <3>1, <4>1 DEF Published
      <3>2. CASE /\ HasMessage(o, h) /\ Got(o, h) = "LockStale"
                 /\ c = outbox[conn[o][h]].commit
        <4>1. conn[o][h] \in Slot
          BY <1>t, <3>2 DEF HasMessage, TypeOK, DriverTypeOK, ThreadTypeOK
        <4>2. QED
          BY <3>2, <4>1 DEF Seen, HasMessage, Got
      <3>3. QED
        BY <1>2, <1>t, <2>2, <3>1, <3>2, DriverLearns
    <2>3. CASE UNCHANGED driverVars
      BY <1>2, <2>1, <2>3 DEF driverVars, storeVars, threadVars
    <2>4. QED
      BY <2>1, <2>2, <2>3 DEF Next, HostSide, vars
  <1>3. ASSUME NEW o \in Operator, NEW h \in Host, c = plan'[o].expected[h]
        PROVE  Seen(c)
    <2>1. CASE plan'[o] = plan[o]
      BY <1>3, <2>1 DEF Seen
    <2>2. CASE plan'[o].expected[h] \in {Tracked(o, h), None}
      BY <1>3, <1>t, <2>2 DEF Seen, Tracked
    <2>3. ASSUME NEW p \in Operator, NEW g \in Host,
                 \/ Connect(p, g) \/ ThreadStep(p, g)
                 \/ ConnectFails(p, g) \/ ConnectionLost(p, g)
          PROVE  plan' = plan
      BY <1>t, <2>3, ThreadMoves DEF commandVars
    <2>4. ASSUME NEW p \in Operator, OperatorStep(p) \/ CommandStep(p) \/ DriverCrash(p)
          PROVE  plan'[o] = plan[o] \/ plan'[o].expected[h] \in {Tracked(o, h), None}
      <3>1. CASE p = o
        BY <1>t, <2>4, <3>1, CommandMoves DEF StartsOver, MovesOn
      <3>2. CASE p # o
        BY <1>t, <2>4, <3>2, CommandMoves
      <3>3. QED
        BY <3>1, <3>2
    <2>5. QED
      BY <2>1, <2>2, <2>3, <2>4
         DEF Next, HostSide, DriverSide, DriverFault, vars, driverVars, commandVars
  <1>4. ASSUME NEW s \in Slot, Applying(s)', c \in {job'[s].base, job'[s].commit}
        PROVE  Seen(c)
    <2>1. CASE Applying(s) /\ job'[s] = job[s]
      BY <1>4, <2>1 DEF Seen
    <2>2. CASE /\ PrepareDeploy(s) \/ PrepareReapply(s)
               /\ job'[s].base = current[ahost[s]] /\ job'[s].commit = inbox[s].commit
      <3>1. /\ ahost[s] \in Host /\ inbox[s] # None
            /\ c \in {current[ahost[s]], inbox[s].commit}
        BY <1>4, <1>t, <2>2
           DEF PrepareDeploy, PrepareReapply, Asked, Live, ProcessInv,
               TypeOK, ClusterTypeOK, ProcessTypeOK
      <3>2. QED
        BY <3>1 DEF Seen
    <2>3. QED
      BY <1>4, <1>t, <2>1, <2>2, JobsStart
  <1>5. ASSUME NEW s \in Slot, inbox'[s] # None, c = inbox'[s].commit
        PROVE  Seen(c) \/ Published(c)
    <2>1. CASE inbox'[s] = inbox[s]
      BY <1>5, <2>1 DEF Seen
    <2>2. ASSUME NEW t \in Slot, AgentStep(t) \/ AgentKilled(t)
          PROVE  Seen(c)
      <3>1. inbox'[s] \in {inbox[s], None}
        <4>1. CASE t = s
          BY <1>t, <2>2, <4>1, AgentOwn
        <4>2. CASE t # s
          BY <1>t, <2>2, <4>2, AgentFrame
        <4>3. QED
          BY <4>1, <4>2
      <3>2. inbox'[s] = inbox[s]
        BY <1>5, <3>1
      <3>3. QED
        BY <1>5, <3>2 DEF Seen
    <2>3. ASSUME NEW o \in Operator, NEW h \in Host, Connect(o, h)
          PROVE  Seen(c)
      <3>1. inbox'[s] = inbox[s] \/ inbox'[s] = LockRequest(plan[o].expected[h])
        BY <1>5, <1>t, <2>3, ConnectFrame
      <3>2. QED
        BY <1>5, <2>1, <3>1 DEF Seen, LockRequest
    <2>4. ASSUME NEW o \in Operator, NEW h \in Host,
                 ThreadStep(o, h) \/ ConnectFails(o, h) \/ ConnectionLost(o, h),
                 inbox'[s] # inbox[s]
          PROVE  Seen(c) \/ Published(c)
      <3>1. \/ c \in {plan[o].expected[h], None}
            \/ thread[o][h] = "pushing" /\ c = plan[o].commit
        <4>1. \A x, y : /\ ObjectsRequest(x).commit = x /\ ApplyReapply(x).commit = x
                        /\ ReceivePackRequest(x).commit = None
                        /\ ApplyDeploy(x, y).commit = x
          BY DEF ObjectsRequest, ReceivePackRequest, ApplyDeploy, ApplyReapply
        <4>2. QED
          BY <1>5, <1>t, <2>4, <4>1, ThreadSends
      <3>2. CASE thread[o][h] = "pushing" /\ c = plan[o].commit
        <4>1. cmd[o] = "deploy" /\ phase[o] = "applying"
          BY <1>t, <3>2 DEF CommandInv, PublishInv, Working
        <4>2. QED
          BY <3>2, <4>1 DEF Published
      <3>3. QED
        BY <1>t, <3>1, <3>2 DEF Seen
    <2>5. ASSUME NEW o \in Operator, OperatorStep(o) \/ CommandStep(o) \/ DriverCrash(o)
          PROVE  inbox' = inbox
      BY <1>t, <2>5, OperatorFrame
    <2>6. ASSUME NEW a \in Host, NEW b \in Host, Wipe(a) \/ Rename(a, b)
          PROVE  inbox' = inbox
      BY <2>6 DEF Wipe, Rename, pipeVars
    <2>7. QED
      BY <2>1, <2>2, <2>3, <2>4, <2>5, <2>6
         DEF Next, HostSide, DriverSide, DriverFault, vars, pipeVars
  <1>6. ASSUME NEW s \in Slot, outbox'[s] # None, outbox'[s].type = "LockStale",
               c = outbox'[s].commit
        PROVE  Seen(c)
    <2>1. CASE outbox'[s] \in {outbox[s], None}
      BY <1>6, <2>1 DEF Seen
    <2>2. ASSUME NEW t \in Slot, AgentStep(t) \/ AgentKilled(t)
          PROVE  Seen(c)
      <3>1. CASE t # s
        BY <1>t, <2>1, <2>2, <3>1, AgentFrame
      <3>2. CASE t = s
        <4>1. ahost[s] \in Host
          BY <1>t, <2>2, <3>2, AgentFrame DEF ProcessInv, TypeOK, ClusterTypeOK, ProcessTypeOK
        <4>2. outbox'[s] \in {outbox[s], None} \/ c = current[ahost[s]]
          BY <1>6, <1>t, <2>2, <3>2, AgentAnswers
        <4>3. QED
          BY <2>1, <4>1, <4>2 DEF Seen
      <3>3. QED
        BY <3>1, <3>2
    <2>3. CASE DriverSide
      BY <1>t, <2>1, <2>3, DriverReads
    <2>4. ASSUME NEW a \in Host, NEW b \in Host, Wipe(a) \/ Rename(a, b)
          PROVE  outbox' = outbox
      BY <2>4 DEF Wipe, Rename, pipeVars
    <2>5. QED
      BY <2>1, <2>2, <2>3, <2>4 DEF Next, HostSide, vars, pipeVars
  <1>7. QED
    BY <1>1, <1>2, <1>3, <1>4, <1>5, <1>6 DEF Seen

LEMMA NextPublish ==
    ASSUME LockInv, PublishInv, [Next]_vars
    PROVE  PublishInv'
  <1>t. /\ TypeOK /\ CommandInv /\ ThreadTypeOK /\ CommandTypeOK /\ None \notin Commit
        /\ Created \subseteq Commit
    BY ConstantsAssumption DEF LockInv, TypeOK, DriverTypeOK, Created
  <1>c. Created \subseteq Created'
    BY <1>t, CreatedStays
  <1>p. \A c \in Commit : Published(c) => c \in Created
    BY DEF Published, PublishInv
  \* How the commands go on.
  <1>o. \A o \in Operator :
           \/ StartsOver(o)
           \/ MovesOn(o)
           \/ /\ cmd'[o] = cmd[o] /\ phase'[o] = phase[o] /\ plan'[o] = plan[o]
              /\ \A h \in Host :
                   /\ thread'[o][h] \in Working => thread[o][h] \in Working
                   /\ thread'[o][h] \in Early => thread[o][h] \in Early
    <2> TAKE o \in Operator
    <2>1. ASSUME NEW p \in Operator, NEW h \in Host,
                 \/ Connect(p, h) \/ ThreadStep(p, h)
                 \/ ConnectFails(p, h) \/ ConnectionLost(p, h)
          PROVE  /\ UNCHANGED commandVars
                 /\ \A g \in Host :
                      /\ thread'[o][g] \in Working => thread[o][g] \in Working
                      /\ thread'[o][g] \in Early => thread[o][g] \in Early
      BY <1>t, <2>1, ThreadPhases
    <2>2. ASSUME NEW p \in Operator, OperatorStep(p) \/ CommandStep(p) \/ DriverCrash(p)
          PROVE  \/ StartsOver(o)
                 \/ MovesOn(o)
                 \/ /\ cmd'[o] = cmd[o] /\ phase'[o] = phase[o]
                    /\ plan'[o] = plan[o] /\ thread'[o] = thread[o]
      BY <1>t, <2>2, CommandMoves
    <2>3. CASE UNCHANGED driverVars
      BY <2>3 DEF driverVars, commandVars, threadVars
    <2>4. QED
      BY <2>1, <2>2, <2>3
         DEF Next, HostSide, DriverSide, DriverFault, vars, commandVars
  <1>0. \A s \in Slot : ~Applying(s)' => job'[s] = None
    BY <1>t, JobsStart DEF LockInv, PublishInv
  <1>1. \A c \in Commit : Seen(c)' => c \in Created'
    BY <1>c, <1>p, NextSeen DEF PublishInv
  <1>2. \A o \in Operator : IF cmd'[o] = "deploy" THEN plan'[o].commit \in Created'
                                                  ELSE plan'[o].commit = None
    BY <1>c, <1>o DEF PublishInv, StartsOver, MovesOn
  <1>3. \A o \in Operator : plan'[o].commit \in {plan[o].commit, None}
                              \/ plan'[o].commit \notin Created
    BY <1>o DEF StartsOver, MovesOn
  <1>4. ASSUME NEW o \in Operator, NEW p \in Operator, o # p,
               plan'[o].commit = plan'[p].commit
        PROVE  plan'[o].commit = None
    <2> SUFFICES ASSUME plan'[o].commit # None
                 PROVE  FALSE
      OBVIOUS
    <2>1. CASE plan'[o].commit = plan[o].commit /\ plan'[p].commit = plan[p].commit
      BY <1>4, <2>1 DEF PublishInv
    <2>2. \A q \in Operator : plan[q].commit \in Created \cup {None}
      BY DEF PublishInv
    <2>3. CASE plan'[o].commit # plan[o].commit /\ plan'[p].commit = plan[p].commit
      BY <1>3, <1>4, <2>2, <2>3
    <2>4. CASE plan'[o].commit = plan[o].commit /\ plan'[p].commit # plan[p].commit
      BY <1>3, <1>4, <2>2, <2>4
    <2>5. CASE plan'[o] # plan[o] /\ plan'[p] # plan[p]
      <3>1. ASSUME NEW q \in Operator, OperatorStep(q) \/ CommandStep(q) \/ DriverCrash(q)
            PROVE  plan'[o] = plan[o] \/ plan'[p] = plan[p]
        BY <1>4, <1>t, <3>1, CommandMoves
      <3>2. ASSUME NEW q \in Operator, NEW h \in Host,
                   \/ Connect(q, h) \/ ThreadStep(q, h)
                   \/ ConnectFails(q, h) \/ ConnectionLost(q, h)
            PROVE  plan' = plan
        BY <1>t, <3>2, ThreadPhases DEF commandVars
      <3>3. QED
        BY <2>5, <3>1, <3>2
           DEF Next, HostSide, DriverSide, DriverFault, vars, driverVars, commandVars
    <2>6. QED
      BY <2>1, <2>3, <2>4, <2>5
  <1>5. ASSUME NEW o \in Operator, cmd'[o] = "deploy", phase'[o] # "applying"
        PROVE  ~Seen(plan[o].commit)'
    <2>1. PICK c \in Commit : c = plan'[o].commit
      BY <1>2, <1>5, <1>t DEF Created
    <2> SUFFICES ASSUME Seen(c)'
                 PROVE  FALSE
      BY <2>1 DEF Seen
    <2>c. c # None
      BY <1>t
    <2>2. Seen(c) \/ Published(c)
      BY NextSeen
    <2>3. c \in Created
      BY <1>p, <2>2 DEF PublishInv
    <2>4. cmd[o] = "deploy" /\ phase[o] # "applying" /\ c = plan[o].commit
      BY <1>5, <1>o, <2>1, <2>3 DEF StartsOver, MovesOn
    <2>5. ~Seen(c)
      BY <2>4 DEF PublishInv
    <2>6. PICK p \in Operator : phase[p] = "applying" /\ c = plan[p].commit
      BY <2>2, <2>5 DEF Published
    <2>7. QED
      BY <2>4, <2>6, <2>c DEF PublishInv
  <1>6. ASSUME NEW o \in Operator, NEW h \in Host
        PROVE  /\ thread'[o][h] \in Working => phase'[o] = "applying"
               /\ phase'[o] = "applying" => thread'[o][h] \notin Early
    <2>1. CASE StartsOver(o)
      BY <2>1 DEF StartsOver, Working
    <2>2. CASE MovesOn(o)
      BY <2>2 DEF MovesOn, PublishInv, Early
    <2>3. CASE ~StartsOver(o) /\ ~MovesOn(o)
      BY <1>o, <2>3 DEF PublishInv
    <2>4. QED
      BY <2>1, <2>2, <2>3
  <1>7. QED
    BY <1>0, <1>1, <1>2, <1>4, <1>5, <1>6 DEF PublishInv
-----------------------------------------------------------------------------
(* A set of commits that exist, each with its whole history.               *)
Whole(S) == S \subseteq Created /\ Closed(anc, S)

(* The stores are whole and hold what the refs and the plans name.  What   *)
(* makes them stay so are the packs under way: each completes the store it *)
(* is sent to.                                                             *)
StoreInv ==
    /\ \A o \in Operator :
         /\ Whole(objects[o])
         /\ {main[o], plan[o].commit} \subseteq objects[o] \cup {None}
         /\ \A h \in Host :
              {tracking[o][h], plan[o].expected[h]} \subseteq objects[o] \cup {None}
    /\ \A h \in Host :
         /\ Whole(hobjects[h])
         /\ {current[h], target[h]} \subseteq hobjects[h] \cup {None}
    /\ \A s \in Slot : Live(s) /\ Asked(s, "ReceivePack") =>
         Whole(hobjects[ahost[s]] \cup inbox[s].pack)
    /\ \A o \in Operator, h \in Host : conn[o][h] # None =>
         /\ Asked(conn[o][h], "RequestObjects") =>
              inbox[conn[o][h]].commit = plan[o].expected[h]
         /\ HasMessage(o, h) /\ Got(o, h) = "SendPack" =>
              Whole(objects[o] \cup outbox[conn[o][h]].pack)

(* What was whole stays whole when commits are made.                       *)
LEMMA WholeStays ==
    ASSUME TypeOK, [Next]_vars
    PROVE  \A S : Whole(S) => S \subseteq Created' /\ Closed(anc', S)
  BY CreatedStays DEF Whole, Closed

LEMMA WholeUnion ==
    ASSUME NEW S, NEW T, NEW U, Whole(S \cup T), Whole(S \cup U)
    PROVE  Whole(S \cup T \cup U)
  BY DEF Whole, Closed

(* A pack for a store that has the commit it starts from completes it.     *)
LEMMA PackCompletes ==
    ASSUME GraphInv, NEW S, Whole(S), NEW want \in Created, NEW have \in S \cup {None}
    PROVE  Whole(S \cup Pack(anc, want, have))
  <1> DEFINE P == Pack(anc, want, have)
  <1>1. Created \subseteq Commit
    BY DEF Created
  <1>2. History(anc, want) \subseteq Created
    BY <1>1 DEF GraphInv, History
  <1>3. \A c \in History(anc, want) : anc[c] \subseteq History(anc, want)
    BY <1>1, <1>2 DEF GraphInv, Ordered, History
  <1>4. P \subseteq History(anc, want)
    BY DEF Pack
  <1>5. History(anc, want) \subseteq S \cup P
    <2>1. CASE have = None
      BY <2>1 DEF Pack
    <2>2. CASE have # None
      <3>1. History(anc, have) \subseteq S
        BY <2>2 DEF Whole, Closed, History
      <3>2. QED
        BY <2>2, <3>1 DEF Pack
    <2>3. QED
      BY <2>1, <2>2
  <1>6. S \cup P \subseteq Created
    BY <1>2, <1>4 DEF Whole
  <1>7. \A c \in S \cup P : anc[c] \subseteq S \cup P
    BY <1>3, <1>4, <1>5 DEF Whole, Closed
  <1>8. QED
    BY <1>6, <1>7 DEF Whole, Closed

(* What a step does to the store of a host.                                *)
LEMMA HostStoreSteps ==
    ASSUME TypeOK, ProcessInv, CommandInv, [Next]_vars, NEW h \in Host
    PROVE  \/ hobjects'[h] = hobjects[h]
           \/ \E s \in Slot : /\ Live(s) /\ ahost[s] = h /\ Asked(s, "ReceivePack")
                              /\ hobjects'[h] = hobjects[h] \cup inbox[s].pack
           \/ \E a, b \in Host : Wipe(a) \/ Rename(a, b)
  <1>t. HostTypeOK
    BY DEF TypeOK, AgentTypeOK
  <1>1. ASSUME NEW s \in Slot, AgentStep(s) \/ AgentKilled(s), ~HandleReceivePack(s)
        PROVE  hobjects' = hobjects
    BY <1>1 DEF AgentStep, AgentKilled, HandleLock, HandleRequestObjects, PreApplyError,
       PrepareDeploy, PrepareReapply, StartJob, PrepareUnresolved, AgentPanic, SetCurrent,
       RecordHostname, RecordFails, ApplyFails, EndJob, StartRollback, RollbackCompletes,
       RollbackFails, AgentExit, hostVars
  <1>2. ASSUME NEW s \in Slot, HandleReceivePack(s)
        PROVE  \/ hobjects'[h] = hobjects[h]
               \/ /\ Live(s) /\ ahost[s] = h /\ Asked(s, "ReceivePack")
                  /\ hobjects'[h] = hobjects[h] \cup inbox[s].pack
    BY <1>2, <1>t DEF HandleReceivePack, HostTypeOK
  <1>3. ASSUME NEW o \in Operator, NEW g \in Host,
               \/ Connect(o, g) \/ ThreadStep(o, g)
               \/ ConnectFails(o, g) \/ ConnectionLost(o, g)
        PROVE  hobjects' = hobjects
    BY <1>3, ConnectFrame, ThreadFrame DEF hostVars
  <1>4. ASSUME NEW o \in Operator, OperatorStep(o) \/ CommandStep(o) \/ DriverCrash(o)
        PROVE  hobjects' = hobjects
    BY <1>4, OperatorFrame DEF hostVars
  <1>5. QED
    BY <1>1, <1>2, <1>3, <1>4 DEF Next, HostSide, DriverSide, DriverFault, vars, hostVars

LEMMA NextHostStores ==
    ASSUME LockInv, ApplyInv, StoreInv, [Next]_vars, NEW h \in Host
    PROVE  /\ Whole(hobjects'[h])
           /\ {current'[h], target'[h]} \subseteq hobjects'[h] \cup {None}
  <1>t. TypeOK /\ ProcessInv /\ CommandInv /\ HostTypeOK
    BY DEF LockInv, TypeOK, AgentTypeOK
  <1>1. ASSUME NEW a \in Host, NEW b \in Host, Wipe(a) \/ Rename(a, b)
        PROVE  /\ Whole(hobjects'[h])
               /\ {current'[h], target'[h]} \subseteq hobjects'[h] \cup {None}
    <2>1. \/ hobjects'[h] = {} /\ current'[h] = None /\ target'[h] = None
          \/ \E g \in Host : /\ hobjects'[h] = hobjects[g]
                             /\ current'[h] = current[g] /\ target'[h] = target[g]
      BY <1>1, <1>t DEF Wipe, Rename, Swap, HostTypeOK
    <2>2. Whole({})
      BY DEF Whole, Closed
    <2>3. QED
      BY <2>1, <2>2 DEF StoreInv
  <1>2. CASE ~\E a, b \in Host : Wipe(a) \/ Rename(a, b)
    <2>1. Whole(hobjects'[h]) /\ hobjects[h] \subseteq hobjects'[h]
      BY <1>2, <1>t, HostStoreSteps DEF StoreInv
    <2>2. ASSUME NEW s \in Slot, AgentStep(s) \/ AgentKilled(s)
          PROVE  current'[h] \in {current[h], target[h]}
      <3>1. current'[h] # current[h] =>
               apc[s] = "modify" /\ ahost[s] = h /\ current'[h] = job[s].commit
        BY <1>t, <2>2, AgentFrame, AgentAnswers
      <3>2. QED
        BY <3>1 DEF ApplyInv
    <2>3. ASSUME NEW s \in Slot, AgentStep(s) \/ AgentKilled(s)
          PROVE  target'[h] \in {current[h], target[h], None} \cup hobjects[h]
      <3>1. CASE target'[h] = target[h]
        BY <3>1
      <3>2. CASE PrepareDeploy(s)
        <4>1. target'[h] \in {target[h], inbox[s].commit}
                /\ (target'[h] # target[h] => ahost[s] = h)
          BY <1>t, <3>2 DEF PrepareDeploy, HostTypeOK
        <4>2. inbox[s].commit \in {None} \cup hobjects[ahost[s]]
          BY <3>2 DEF PrepareDeploy, Resolves
        <4>3. QED
          BY <4>1, <4>2
      <3>3. CASE RollbackCompletes(s)
        BY <1>t, <3>3 DEF RollbackCompletes, ApplyInv, HostTypeOK
      <3>4. CASE ~PrepareDeploy(s) /\ ~RollbackCompletes(s)
        BY <2>3, <3>4 DEF AgentStep, AgentKilled, HandleLock, HandleReceivePack,
           HandleRequestObjects, PreApplyError, PrepareReapply, StartJob, PrepareUnresolved,
           AgentPanic, SetCurrent, RecordHostname, RecordFails, ApplyFails, EndJob,
           StartRollback, RollbackFails, AgentExit, hostVars, refVars
      <3>5. QED
        BY <3>2, <3>3, <3>4
    <2>4. CASE DriverSide \/ UNCHANGED vars
      <3>1. ASSUME NEW o \in Operator, NEW g \in Host,
                   \/ Connect(o, g) \/ ThreadStep(o, g)
                   \/ ConnectFails(o, g) \/ ConnectionLost(o, g)
            PROVE  UNCHANGED hostVars
        BY <1>t, <3>1, ConnectFrame, ThreadFrame
      <3>2. ASSUME NEW o \in Operator, OperatorStep(o) \/ CommandStep(o) \/ DriverCrash(o)
            PROVE  UNCHANGED hostVars
        BY <1>t, <3>2, OperatorFrame
      <3>3. UNCHANGED hostVars
        BY <2>4, <3>1, <3>2 DEF DriverSide, DriverFault, vars
      <3>4. QED
        BY <2>1, <3>3 DEF StoreInv, hostVars
    <2>5. QED
      BY <1>2, <2>1, <2>2, <2>3, <2>4 DEF StoreInv, Next, HostSide
  <1>3. QED
    BY <1>1, <1>2

(* What a step does to the store of an operator, and what it refers to.    *)
Fetches(o, h) ==
    /\ ReadObjects(o, h)
    /\ HasMessage(o, h) /\ Got(o, h) = "SendPack"
    /\ objects' = [objects EXCEPT ![o] = @ \cup outbox[conn[o][h]].pack]

Plans(o) ==
    \E g \in Config, c \in Commit :
        \E limit \in SUBSET DOMAIN TreeOf[g] : MakePlan(o, g, limit, c)

LEMMA OperatorStoreSteps ==
    ASSUME TypeOK, CommandInv, DriverSide, NEW o \in Operator
    PROVE  /\ \/ objects'[o] = objects[o]
              \/ Plans(o)
              \/ \E h \in Host : Fetches(o, h)
           /\ main'[o] \in {main[o], plan[o].commit}
           /\ plan'[o].commit \in {plan[o].commit, None} \cup objects'[o]
           /\ \A h \in Host :
                /\ plan'[o].expected[h] \in {plan[o].expected[h], Tracked(o, h), None}
                /\ tracking'[o][h] \in {tracking[o][h], plan[o].commit, None} \cup objects'[o]
  <1>t. StoreTypeOK /\ CommandTypeOK
    BY DEF TypeOK, DriverTypeOK
  <1> DEFINE Steps ==
        /\ \/ objects'[o] = objects[o]
           \/ Plans(o)
           \/ \E h \in Host : Fetches(o, h)
        /\ main'[o] \in {main[o], plan[o].commit}
        /\ plan'[o].commit \in {plan[o].commit, None} \cup objects'[o]
        /\ \A h \in Host :
             /\ plan'[o].expected[h] \in {plan[o].expected[h], Tracked(o, h), None}
             /\ tracking'[o][h] \in {tracking[o][h], plan[o].commit, None} \cup objects'[o]
  <1>1. ASSUME NEW p \in Operator, NEW g \in Config, NEW c \in Commit,
               NEW limit \in SUBSET DOMAIN TreeOf[g], MakePlan(p, g, limit, c)
        PROVE  Steps
    <2>1. UNCHANGED <<tracking, main>>
      BY <1>1 DEF MakePlan
    <2>2. CASE p = o
      <3>1. Plans(o)
        BY <1>1, <2>2 DEF Plans
      <3>2. plan'[o].commit = c /\ c \in objects'[o]
        BY <1>1, <1>t, <2>2 DEF MakePlan, CommandTypeOK, StoreTypeOK
      <3>3. \A h \in Host : plan'[o].expected[h] \in {Tracked(o, h), None}
        BY <1>1, <1>t, <2>2 DEF MakePlan, CommandTypeOK
      <3>4. QED
        BY <2>1, <3>1, <3>2, <3>3
    <2>3. CASE p # o
      BY <1>1, <1>t, <2>1, <2>3 DEF MakePlan, CommandTypeOK, StoreTypeOK
    <2>4. QED
      BY <2>2, <2>3
  <1>2. ASSUME NEW p \in Operator, NEW H \in SUBSET Host, StartReapply(p, H) \/ StartSync(p, H)
        PROVE  Steps
    BY <1>2, <1>t DEF StartReapply, StartSync, Select, NoPlan, storeVars, CommandTypeOK
  <1>3. ASSUME NEW p \in Operator, EndCommand(p)
        PROVE  Steps
    BY <1>3, <1>t DEF EndCommand, NoPlan, storeVars, CommandTypeOK
  <1>4. ASSUME NEW p \in Operator, \/ Confirm(p) \/ StartFetching(p)
                                   \/ ProceedDeploy(p) \/ ProceedReapply(p)
        PROVE  Steps
    BY <1>4, <1>t DEF Confirm, StartFetching, ProceedDeploy, ProceedReapply, StartApplying,
       storeVars, StoreTypeOK
  <1>5. ASSUME NEW p \in Operator,
               \/ Decline(p) \/ RefuseReapply(p) \/ Finish(p) \/ DriverCrash(p)
        PROVE  Steps
    BY <1>3, <1>5 DEF Decline, RefuseReapply, Finish, DriverCrash
  <1>6. ASSUME NEW p \in Operator, NEW h \in Host,
               \/ Connect(p, h) \/ ConnectFails(p, h) \/ ConnectionLost(p, h)
               \/ ReadLock(p, h) \/ SendPack(p, h) \/ ReadPackReceived(p, h)
               \/ SendReapply(p, h) \/ ReadApply(p, h) \/ ReadEOF(p, h)
        PROVE  Steps
    BY <1>6 DEF Connect, ConnectAndLock, ConnectForSync, ConnectFails, ConnectionLost, ReadLock,
       SendPack, ReadPackReceived, SendReapply, ReadApply, ReadEOF, storeVars, commandVars
  <1>7. ASSUME NEW p \in Operator, NEW h \in Host,
               FetchStale(p, h) \/ ReadObjects(p, h) \/ ReadApplied(p, h)
        PROVE  Steps
    <2>1. plan' = plan /\ main' = main
      BY <1>7 DEF FetchStale, ReadObjects, ReadApplied, commandVars
    <2>2. objects' = objects \/ Fetches(p, h)
      BY <1>7 DEF FetchStale, ReadObjects, ReadApplied, Fetches
    <2>3. objects'[o] = objects[o] \/ Fetches(o, h)
      BY <1>t, <2>2 DEF Fetches, StoreTypeOK
    <2>4. \/ tracking' = tracking
          \/ \E c : /\ tracking' = [tracking EXCEPT ![p][h] = c]
                    /\ c \in {plan[p].commit, None} \cup objects'[p]
      BY <1>7 DEF FetchStale, NothingToFetch, FetchedRef, ReadObjects, ReadApplied
    <2>5. \A g \in Host :
             tracking'[o][g] \in {tracking[o][g], plan[o].commit, None} \cup objects'[o]
      <3>1. CASE tracking' = tracking
        BY <3>1
      <3>2. CASE \E c : /\ tracking' = [tracking EXCEPT ![p][h] = c]
                        /\ c \in {plan[p].commit, None} \cup objects'[p]
        BY <1>t, <3>2 DEF StoreTypeOK
      <3>3. QED
        BY <2>4, <3>1, <3>2
    <2>6. QED
      BY <2>1, <2>3, <2>5
  <1>8. QED
    BY <1>1, <1>2, <1>4, <1>5, <1>6, <1>7
       DEF DriverSide, OperatorStep, CommandStep, DriverFault, ThreadStep

LEMMA NextOperatorStores ==
    ASSUME LockInv, GraphInv, StoreInv, [Next]_vars, NEW o \in Operator
    PROVE  /\ Whole(objects[o])'
           /\ objects[o] \subseteq objects'[o]
           /\ {main'[o], plan'[o].commit} \subseteq objects'[o] \cup {None}
           /\ \A h \in Host :
                {tracking'[o][h], plan'[o].expected[h]} \subseteq objects'[o] \cup {None}
  <1>t. TypeOK /\ CommandInv /\ StoreTypeOK /\ GraphTypeOK /\ None \notin Commit \cup Config
    BY ConstantsAssumption DEF LockInv, TypeOK, ClusterTypeOK, DriverTypeOK
  <1>s. Whole(objects[o])
    BY DEF StoreInv
  <1>1. CASE UNCHANGED driverVars
    <2>1. Whole(objects[o])'
      BY <1>1, <1>s, <1>t, WholeStays DEF Whole, driverVars, storeVars
    <2>2. QED
      BY <1>1, <2>1 DEF StoreInv, driverVars, storeVars, commandVars
  <1>2. CASE DriverSide
    <2>1. Whole(objects[o])' /\ objects[o] \subseteq objects'[o]
      <3>1. CASE objects'[o] = objects[o]
        BY <1>s, <1>t, <3>1, WholeStays DEF Whole
      <3>2. CASE Plans(o)
        <4>1. PICK g \in Config, c \in Commit :
                \E limit \in SUBSET DOMAIN TreeOf[g] : MakePlan(o, g, limit, c)
          BY <3>2 DEF Plans
        <4>2. PICK limit \in SUBSET DOMAIN TreeOf[g] : MakePlan(o, g, limit, c)
          BY <4>1
        <4> DEFINE H == Changed(o, g, limit)
        <4>3. /\ objects'[o] = objects[o] \cup {c}
              /\ c \in Created'
              /\ anc'[c] = Ancestry(anc, PlanParents(o, H))
          BY <1>t, <4>2 DEF MakePlan, StoreTypeOK, GraphTypeOK, Created
        <4>4. H \subseteq Host
          BY <4>2, ConstantsAssumption DEF Changed
        <4>5. PlanParents(o, H) \subseteq objects[o]
          BY <4>4 DEF PlanParents, Frontier, Tracked, StoreInv
        <4>6. anc'[c] \subseteq objects[o]
          BY <1>s, <4>3, <4>5 DEF Ancestry, History, Whole, Closed
        <4>7. objects[o] \subseteq Created' /\ Closed(anc', objects[o])
          BY <1>s, <1>t, WholeStays
        <4>8. QED
          BY <4>3, <4>6, <4>7 DEF Whole, Closed
      <3>3. ASSUME NEW h \in Host, Fetches(o, h)
            PROVE  Whole(objects[o])' /\ objects[o] \subseteq objects'[o]
        <4>1. objects'[o] = objects[o] \cup outbox[conn[o][h]].pack
          BY <1>t, <3>3 DEF Fetches, StoreTypeOK
        <4>2. Whole(objects[o] \cup outbox[conn[o][h]].pack)
          BY <3>3 DEF Fetches, StoreInv, HasMessage
        <4>3. QED
          BY <1>t, <4>1, <4>2, WholeStays DEF Whole
      <3>4. QED
        BY <1>2, <1>t, <3>1, <3>2, <3>3, OperatorStoreSteps
    <2>2. /\ main'[o] \in {main[o], plan[o].commit}
          /\ plan'[o].commit \in {plan[o].commit, None} \cup objects'[o]
          /\ \A h \in Host :
               /\ plan'[o].expected[h] \in {plan[o].expected[h], Tracked(o, h), None}
               /\ tracking'[o][h] \in {tracking[o][h], plan[o].commit, None} \cup objects'[o]
      BY <1>2, <1>t, OperatorStoreSteps
    <2>3. \A h \in Host : Tracked(o, h) \in objects[o] \cup {None}
      BY DEF StoreInv, Tracked
    <2>4. QED
      BY <2>1, <2>2, <2>3 DEF StoreInv
  <1>3. QED
    BY <1>1, <1>2 DEF Next, HostSide, vars

(* A command keeps its plan as long as it has connections.                 *)
LEMMA ConnSteps ==
    ASSUME TypeOK, CommandInv, ConnInv, [Next]_vars, NEW o \in Operator, NEW h \in Host,
           conn'[o][h] # None
    PROVE  \/ conn'[o][h] = conn[o][h] /\ plan'[o] = plan[o] /\ cmd'[o] = cmd[o]
           \/ Connect(o, h)
  <1>t. ThreadTypeOK /\ CommandTypeOK
    BY DEF TypeOK, DriverTypeOK
  <1>1. ASSUME NEW p \in Operator, NEW g \in Host, Connect(p, g), p # o \/ g # h
        PROVE  conn'[o][h] = conn[o][h] /\ plan'[o] = plan[o] /\ cmd'[o] = cmd[o]
    BY <1>1, <1>t DEF Connect, ConnectAndLock, ConnectForSync, commandVars, ThreadTypeOK
  <1>2. ASSUME NEW p \in Operator, NEW g \in Host,
               ThreadStep(p, g) \/ ConnectFails(p, g) \/ ConnectionLost(p, g)
        PROVE  conn'[o][h] = conn[o][h] /\ plan'[o] = plan[o] /\ cmd'[o] = cmd[o]
    <2>1. plan' = plan /\ cmd' = cmd
      BY <1>2, ThreadMoves DEF commandVars
    <2>2. conn' = conn \/ conn' = [conn EXCEPT ![p][g] = None]
      BY <1>2, ThreadConn DEF GoesOn, HangsUp
    <2>3. QED
      BY <1>t, <2>1, <2>2 DEF ThreadTypeOK
  <1>3. ASSUME NEW p \in Operator, EndCommand(p)
        PROVE  conn'[o][h] = conn[o][h] /\ plan'[o] = plan[o] /\ cmd'[o] = cmd[o]
    <2>1. p # o
      BY <1>3, <1>t DEF EndCommand, ThreadTypeOK
    <2>2. QED
      BY <1>3, <1>t, <2>1 DEF EndCommand, ThreadTypeOK, CommandTypeOK
  <1>4. ASSUME NEW p \in Operator, \/ Decline(p) \/ RefuseReapply(p) \/ Finish(p) \/ DriverCrash(p)
        PROVE  conn'[o][h] = conn[o][h] /\ plan'[o] = plan[o] /\ cmd'[o] = cmd[o]
    BY <1>3, <1>4 DEF Decline, RefuseReapply, Finish, DriverCrash
  <1>5. ASSUME NEW p \in Operator, \/ Confirm(p) \/ StartFetching(p)
                                   \/ ProceedDeploy(p) \/ ProceedReapply(p)
        PROVE  conn'[o][h] = conn[o][h] /\ plan'[o] = plan[o] /\ cmd'[o] = cmd[o]
    BY <1>5 DEF Confirm, StartFetching, ProceedDeploy, ProceedReapply, StartApplying, threadVars
  <1>6. ASSUME NEW p \in Operator,
               \/ Plans(p)
               \/ \E H \in SUBSET Host : StartReapply(p, H) \/ StartSync(p, H)
        PROVE  conn'[o][h] = conn[o][h] /\ plan'[o] = plan[o] /\ cmd'[o] = cmd[o]
    <2>1. phase[p] = "idle" /\ conn' = conn
      BY <1>6 DEF Plans, MakePlan, StartReapply, StartSync, Select
    <2>2. p # o
      <3>1. SUFFICES ASSUME p = o
                     PROVE  FALSE
        OBVIOUS
      <3>2. thread[o][h] \in {"none", "connect"}
        BY <2>1, <3>1 DEF CommandInv
      <3>3. QED
        BY <2>1, <3>2 DEF ConnInv, Connected
    <2>3. plan'[o] = plan[o] /\ cmd'[o] = cmd[o]
      BY <1>6, <1>t, <2>2 DEF Plans, MakePlan, StartReapply, StartSync, Select, CommandTypeOK
    <2>4. QED
      BY <2>1, <2>3
  <1>7. CASE UNCHANGED driverVars
    BY <1>7 DEF driverVars, commandVars, threadVars
  <1>8. QED
    BY <1>1, <1>2, <1>4, <1>5, <1>6, <1>7
       DEF Next, HostSide, DriverSide, DriverFault, OperatorStep, CommandStep, Plans, vars

(* A pack on its way to a host completes the host's store.                 *)
LEMMA NextPushed ==
    ASSUME LockInv, GraphInv, StoreInv, [Next]_vars,
           NEW s \in Slot, Live(s)', Asked(s, "ReceivePack")'
    PROVE  Whole(hobjects'[ahost'[s]] \cup inbox'[s].pack)
  <1>t. /\ TypeOK /\ ProcessInv /\ CommandInv
        /\ \A t \in Slot : Live(t) => ahost[t] \in Host
    BY DEF LockInv, TypeOK, ClusterTypeOK, ProcessInv, ProcessTypeOK
  <1>1. Live(s) /\ ahost'[s] = ahost[s] /\ ahost[s] \in Host
    BY <1>t, Lives DEF Asked
  <1> DEFINE h == ahost[s]
  <1>2. inbox'[s] # None /\ inbox'[s].type = "ReceivePack"
    BY DEF Asked
  <1>3. ASSUME inbox'[s] = inbox[s]
        PROVE  Whole(hobjects'[h] \cup inbox'[s].pack)
    <2>1. Whole(hobjects[h] \cup inbox[s].pack)
      BY <1>1, <1>2, <1>3 DEF StoreInv, Asked
    <2>2. ASSUME NEW t \in Slot, Live(t), ahost[t] = h, Asked(t, "ReceivePack"),
                 hobjects'[h] = hobjects[h] \cup inbox[t].pack
          PROVE  Whole(hobjects'[h] \cup inbox[s].pack)
      <3>1. Whole(hobjects[h] \cup inbox[t].pack)
        BY <2>2 DEF StoreInv
      <3>2. QED
        BY <2>1, <2>2, <3>1, WholeUnion
    <2>3. ASSUME NEW a \in Host, NEW b \in Host, Wipe(a) \/ Rename(a, b)
          PROVE  hobjects'[h] = hobjects[h]
      BY <1>1, <2>3, <1>t DEF Wipe, Rename, Quiet, Swap, TypeOK, AgentTypeOK, HostTypeOK
    <2>4. QED
      BY <1>1, <1>3, <1>t, <2>1, <2>2, <2>3, HostStoreSteps
  <1>4. ASSUME NEW p \in Operator, NEW g \in Host,
               ThreadStep(p, g) \/ ConnectFails(p, g) \/ ConnectionLost(p, g),
               inbox'[s] # inbox[s]
        PROVE  Whole(hobjects'[h] \cup inbox'[s].pack)
    <2>1. \A x, y : /\ ObjectsRequest(x).type # "ReceivePack"
                    /\ ApplyReapply(x).type # "ReceivePack"
                    /\ ApplyDeploy(x, y).type # "ReceivePack"
      BY DEF ObjectsRequest, ApplyDeploy, ApplyReapply
    <2>2. /\ s = conn[p][g] /\ SendPack(p, g)
          /\ inbox'[s] = ReceivePackRequest(Pack(anc, plan[p].commit, plan[p].expected[g]))
      BY <1>2, <1>4, <1>t, <2>1, ThreadSends
    <2>3. inbox'[s].pack = Pack(anc, plan[p].commit, plan[p].expected[g])
      BY <2>2 DEF ReceivePackRequest
    <2>4. thread[p][g] = "push" /\ cmd[p] = "deploy" /\ conn[p][g] # None
      BY <2>2 DEF SendPack, LockInv, ConnInv, Connected
    <2>5. h = g /\ current[g] = plan[p].expected[g]
      BY <1>1, <2>2, <2>4 DEF LockInv, ConnInv, HandshakeInv, Handshake, Pinned
    <2>6. plan[p].commit \in Created
      BY <2>4, <1>t, ConstantsAssumption DEF CommandInv, StoreInv, Whole
    <2>7. hobjects' = hobjects
      BY <1>4, <1>t, ThreadFrame DEF hostVars
    <2>8. Whole(hobjects[g]) /\ plan[p].expected[g] \in hobjects[g] \cup {None}
      BY <2>5 DEF StoreInv
    <2>9. QED
      BY <2>3, <2>5, <2>6, <2>7, <2>8, PackCompletes DEF LockInv
  <1>5. ASSUME NEW p \in Operator, NEW g \in Host, Connect(p, g)
        PROVE  inbox'[s] = inbox[s]
    <2>1. inbox'[s] = inbox[s] \/ inbox'[s] = LockRequest(plan[p].expected[g])
      BY <1>2, <1>5, <1>t, ConnectFrame
    <2>2. QED
      BY <1>2, <2>1 DEF LockRequest
  <1>6. ASSUME NEW t \in Slot, AgentStep(t) \/ AgentKilled(t)
        PROVE  inbox'[s] = inbox[s]
    <2>1. CASE t = s
      BY <1>2, <1>6, <1>t, <2>1, AgentOwn
    <2>2. CASE t # s
      BY <1>6, <1>t, <2>2, AgentFrame
    <2>3. QED
      BY <2>1, <2>2
  <1>7. ASSUME NEW p \in Operator, OperatorStep(p) \/ CommandStep(p) \/ DriverCrash(p)
        PROVE  inbox'[s] = inbox[s]
    BY <1>7, <1>t, OperatorFrame
  <1>8. ASSUME NEW a \in Host, NEW b \in Host, Wipe(a) \/ Rename(a, b)
        PROVE  inbox'[s] = inbox[s]
    BY <1>8 DEF Wipe, Rename, pipeVars
  <1>9. \/ inbox'[s] = inbox[s]
        \/ \E p \in Operator, g \in Host :
             ThreadStep(p, g) \/ ConnectFails(p, g) \/ ConnectionLost(p, g)
    BY <1>5, <1>6, <1>7, <1>8 DEF Next, HostSide, DriverSide, DriverFault, vars, pipeVars
  <1>10. Whole(hobjects'[h] \cup inbox'[s].pack)
    BY <1>3, <1>4, <1>9
  <1>11. QED
    BY <1>1, <1>10

(* Who says what.                                                          *)
LEMMA AgentTells ==
    ASSUME TypeOK, ProcessInv, NEW s \in Slot, AgentStep(s) \/ AgentKilled(s),
           outbox'[s] # outbox[s], outbox'[s] # None
    PROVE  /\ outbox'[s].type \in {"Locked", "LockStale"} => HandleLock(s)
           /\ outbox'[s].type = "SendPack" => HandleRequestObjects(s)
           /\ outbox'[s].type = "ApplyComplete" => RecordHostname(s)
  <1>1. ASSUME NEW m \in Message, Emit(s, m)
        PROVE  outbox'[s] = None \/ outbox'[s] = m
    BY <1>1 DEF Emit, TypeOK, ClusterTypeOK, PipeTypeOK
  <1>2. /\ \A t \in MessageType : Msg(t) \in Message /\ Msg(t).type = t
        /\ \A t \in MessageType, c \in OptCommit :
             MsgCommit(t, c) \in Message /\ MsgCommit(t, c).type = t
        /\ \A P \in SUBSET Commit : MsgPack(P) \in Message /\ MsgPack(P).type = "SendPack"
    BY Constructors DEF Msg, MsgCommit, MsgPack
  <1>3. CASE HandleLock(s)
    <2>1. current[ahost[s]] \in OptCommit
      BY <1>3 DEF HandleLock, Live, ProcessInv, TypeOK, ClusterTypeOK, ProcessTypeOK,
         AgentTypeOK, HostTypeOK
    <2>2. /\ LockAnswer(ahost[s], inbox[s].commit) \in Message
          /\ LockAnswer(ahost[s], inbox[s].commit).type \notin {"SendPack", "ApplyComplete"}
      BY <1>2, <2>1 DEF LockAnswer, MessageType
    <2>3. QED
      BY <1>1, <1>3, <2>2 DEF HandleLock, Answer
  <1>4. CASE HandleRequestObjects(s)
    <2>1. /\ current[ahost[s]] \in Commit /\ inbox[s].commit \in OptCommit
          /\ GraphTypeOK
      BY <1>4, Fields DEF HandleRequestObjects, Live, Asked, ProcessInv, TypeOK, ClusterTypeOK,
         ProcessTypeOK, PipeTypeOK, AgentTypeOK, HostTypeOK, OptCommit
    <2>2. Pack(anc, current[ahost[s]], inbox[s].commit) \in SUBSET Commit
      BY <2>1, PackType
    <2>3. QED
      BY <1>1, <1>2, <1>4, <2>2 DEF HandleRequestObjects, Answer, MessageType
  <1>5. CASE HandleReceivePack(s) \/ PreApplyError(s) \/ PrepareUnresolved(s)
    BY <1>1, <1>2, <1>5
       DEF HandleReceivePack, PreApplyError, PrepareUnresolved, Answer, MessageType
  <1>6. CASE RecordHostname(s)
    <2>1. job[s].commit \in OptCommit
      BY <1>6, Fields DEF RecordHostname, ProcessInv, OptCommit
    <2>2. QED
      BY <1>1, <1>2, <1>6, <2>1 DEF RecordHostname, EndJob, MessageType
  <1>7. CASE RecordFails(s) \/ ApplyFails(s) \/ RollbackCompletes(s) \/ RollbackFails(s)
    BY <1>1, <1>2, <1>7
       DEF RecordFails, ApplyFails, RollbackCompletes, RollbackFails, EndJob, MessageType
  <1>8. CASE \/ PrepareDeploy(s) \/ PrepareReapply(s) \/ AgentPanic(s) \/ SetCurrent(s)
             \/ StartRollback(s) \/ AgentExit(s) \/ AgentKilled(s)
    BY <1>8 DEF PrepareDeploy, PrepareReapply, StartJob, AgentPanic, Exit,
       SetCurrent, StartRollback, AgentExit, AgentKilled, pipeVars
  <1>9. QED
    BY <1>3, <1>4, <1>5, <1>6, <1>7, <1>8 DEF AgentStep

(* A pack on its way to an operator completes the operator's store.        *)
LEMMA NextFetched ==
    ASSUME LockInv, GraphInv, StoreInv, [Next]_vars,
           NEW o \in Operator, NEW h \in Host, conn'[o][h] # None
    PROVE  /\ Asked(conn[o][h], "RequestObjects")' =>
                inbox'[conn'[o][h]].commit = plan'[o].expected[h]
           /\ HasMessage(o, h)' /\ outbox'[conn'[o][h]].type = "SendPack" =>
                Whole(objects'[o] \cup outbox'[conn'[o][h]].pack)
  <1>t. /\ TypeOK /\ ProcessInv /\ CommandInv /\ ConnInv /\ StoreTypeOK
        /\ ThreadTypeOK /\ PipeTypeOK
    BY DEF LockInv, TypeOK, ClusterTypeOK, DriverTypeOK
  <1>n. CASE Connect(o, h)
    <2>1. PICK s \in Slot : ConnectAndLock(o, h, s) \/ ConnectForSync(o, h, s)
      BY <1>n DEF Connect
    <2>2. conn'[o][h] \in {s, None}
      BY <1>t, <2>1 DEF ConnectAndLock, ConnectForSync, ThreadTypeOK
    <2>3. /\ inbox'[s] \in {LockRequest(plan[o].expected[h]), None}
          /\ outbox'[s] = None
      BY <1>t, <2>1 DEF ConnectAndLock, ConnectForSync, Spawn, PipeTypeOK
    <2>4. QED
      BY <2>2, <2>3 DEF Asked, HasMessage, LockRequest
  <1>k. CASE ~Connect(o, h)
    <2> DEFINE s == conn[o][h]
    <2>1. conn'[o][h] = s /\ plan'[o] = plan[o] /\ s # None /\ s \in Slot
      BY <1>k, <1>t, ConnSteps DEF ThreadTypeOK
    <2>h. /\ inbox[s] # None /\ inbox[s].type = "RequestObjects" =>
               inbox[s].commit = plan[o].expected[h]
          /\ outbox[s] # None /\ outbox[s].type = "SendPack" =>
               Whole(objects[o] \cup outbox[s].pack)
      BY <2>1 DEF StoreInv, Asked, HasMessage, Got
    <2>r. reader[s] /\ (Live(s) => ahost[s] = h)
      BY <2>1 DEF LockInv, ConnInv
    \* The request.
    <2>2. inbox'[s] # None /\ inbox'[s].type = "RequestObjects" =>
            inbox'[s].commit = plan[o].expected[h]
      <3>1. ASSUME NEW t \in Slot, AgentStep(t) \/ AgentKilled(t)
            PROVE  inbox'[s] \in {inbox[s], None}
        <4>1. CASE t = s
          BY <1>t, <3>1, <4>1, AgentOwn
        <4>2. CASE t # s
          BY <1>t, <2>1, <3>1, <4>2, AgentFrame
        <4>3. QED
          BY <4>1, <4>2
      <3>2. ASSUME NEW p \in Operator, NEW g \in Host, Connect(p, g)
            PROVE  inbox'[s] = inbox[s]
        BY <1>t, <2>1, <2>r, <3>2, ConnectFrame DEF Free
      <3>3. ASSUME NEW p \in Operator, NEW g \in Host,
                   ThreadStep(p, g) \/ ConnectFails(p, g) \/ ConnectionLost(p, g),
                   inbox'[s] # inbox[s], inbox'[s] # None, inbox'[s].type = "RequestObjects"
            PROVE  inbox'[s].commit = plan[o].expected[h]
        <4>1. \A x, y : /\ ObjectsRequest(x).commit = x
                        /\ ReceivePackRequest(x).type # "RequestObjects"
                        /\ ApplyReapply(x).type # "RequestObjects"
                        /\ ApplyDeploy(x, y).type # "RequestObjects"
          BY DEF ObjectsRequest, ReceivePackRequest, ApplyDeploy, ApplyReapply
        <4>2. s = conn[p][g] /\ inbox'[s] = ObjectsRequest(plan[p].expected[g])
          BY <1>t, <2>1, <3>3, <4>1, ThreadSends
        <4>3. p = o /\ g = h
          BY <1>t, <2>1, <4>2 DEF ConnInv
        <4>4. QED
          BY <4>1, <4>2, <4>3
      <3>4. ASSUME NEW p \in Operator, OperatorStep(p) \/ CommandStep(p) \/ DriverCrash(p)
            PROVE  inbox' = inbox
        BY <1>t, <3>4, OperatorFrame
      <3>5. ASSUME NEW a \in Host, NEW b \in Host, Wipe(a) \/ Rename(a, b)
            PROVE  inbox' = inbox
        BY <3>5 DEF Wipe, Rename, pipeVars
      <3>6. QED
        BY <2>h, <3>1, <3>2, <3>3, <3>4, <3>5
           DEF Next, HostSide, DriverSide, DriverFault, vars, pipeVars
    \* The answer, which only the agent of this connection writes.
    <2>3. outbox'[s] # None /\ outbox'[s].type = "SendPack" =>
            Whole(objects[o] \cup outbox'[s].pack)
      <3>1. CASE outbox'[s] \in {outbox[s], None}
        BY <2>h, <3>1
      <3>2. CASE AgentStep(s) \/ AgentKilled(s)
        <4>1. CASE HandleRequestObjects(s) /\ outbox'[s].type = "SendPack"
          <5> DEFINE want == current[h]
                     have == inbox[s].commit
          <5>1. ahost[s] = h /\ want # None
            BY <2>r, <4>1 DEF HandleRequestObjects
          <5>2. outbox'[s] = IF CanPack(hobjects[h], want, have)
                               THEN MsgPack(Pack(anc, want, have)) ELSE Msg("ErrorPreApply")
            BY <1>t, <2>1, <2>r, <4>1, <5>1
               DEF HandleRequestObjects, Answer, Emit, PipeTypeOK
          <5>3. outbox'[s].pack = Pack(anc, want, have)
            BY <4>1, <5>2 DEF MsgPack, Msg
          <5>4. have \in objects[o] \cup {None}
            BY <2>h, <4>1 DEF HandleRequestObjects, Asked, StoreInv
          <5>5. want \in Created
            BY <5>1 DEF StoreInv, Whole
          <5>6. Whole(objects[o])
            BY DEF StoreInv
          <5>7. QED
            BY <5>3, <5>4, <5>5, <5>6, PackCompletes
        <4>2. CASE outbox'[s] # outbox[s] /\ outbox'[s] # None
          BY <1>t, <2>1, <3>2, <4>1, <4>2, AgentTells
        <4>3. QED
          BY <3>1, <4>2
      <3>3. ASSUME NEW t \in Slot, t # s, AgentStep(t) \/ AgentKilled(t)
            PROVE  outbox'[s] = outbox[s]
        BY <1>t, <2>1, <3>3, AgentFrame
      <3>4. CASE DriverSide
        BY <1>t, <2>1, <3>1, <3>4, DriverReads
      <3>5. ASSUME NEW a \in Host, NEW b \in Host, Wipe(a) \/ Rename(a, b)
            PROVE  outbox' = outbox
        BY <3>5 DEF Wipe, Rename, pipeVars
      <3>6. QED
        BY <3>1, <3>2, <3>3, <3>4, <3>5 DEF Next, HostSide, vars, pipeVars
    \* The operator's store, which may have grown meanwhile.
    <2>4. outbox'[s] # None /\ outbox'[s].type = "SendPack" =>
            Whole(objects'[o] \cup outbox'[s].pack)
      <3> SUFFICES ASSUME outbox'[s] # None, outbox'[s].type = "SendPack"
                   PROVE  Whole(objects'[o] \cup outbox'[s].pack)
        OBVIOUS
      <3>1. CASE objects'[o] = objects[o]
        BY <2>3, <3>1
      <3>2. CASE Plans(o)
        <4>1. phase[o] = "idle"
          BY <3>2 DEF Plans, MakePlan
        <4>2. thread[o][h] \in {"none", "connect"}
          BY <1>t, <4>1 DEF CommandInv
        <4>3. QED
          BY <1>t, <2>1, <4>2 DEF ConnInv, Connected
      <3>3. ASSUME NEW g \in Host, Fetches(o, g)
            PROVE  Whole(objects'[o] \cup outbox'[s].pack)
        <4>1. objects'[o] = objects[o] \cup outbox[conn[o][g]].pack
          BY <1>t, <3>3 DEF Fetches, StoreTypeOK
        <4>2. Whole(objects[o] \cup outbox[conn[o][g]].pack)
          BY <3>3 DEF Fetches, StoreInv, HasMessage
        <4>3. QED
          BY <2>3, <4>1, <4>2, WholeUnion
      <3>4. CASE UNCHANGED driverVars
        BY <3>1, <3>4 DEF driverVars, storeVars
      <3>5. QED
        BY <1>t, <3>1, <3>2, <3>3, <3>4, OperatorStoreSteps DEF Next, HostSide, vars
    <2>5. QED
      BY <2>1, <2>2, <2>4 DEF Asked, HasMessage
  <1>q. QED
    BY <1>n, <1>k

LEMMA NextStore ==
    ASSUME LockInv, ApplyInv, GraphInv, StoreInv, [Next]_vars
    PROVE  StoreInv'
  <1>w. \A S : Whole(S) => S \subseteq Created' /\ Closed(anc', S)
    BY WholeStays DEF LockInv
  <1>1. ASSUME NEW o \in Operator
        PROVE  /\ Whole(objects[o])'
               /\ {main'[o], plan'[o].commit} \subseteq objects'[o] \cup {None}
               /\ \A h \in Host :
                    {tracking'[o][h], plan'[o].expected[h]} \subseteq objects'[o] \cup {None}
    BY NextOperatorStores
  <1>2. ASSUME NEW h \in Host
        PROVE  /\ Whole(hobjects[h])'
               /\ {current'[h], target'[h]} \subseteq hobjects'[h] \cup {None}
    BY <1>w, NextHostStores DEF Whole
  <1>3. ASSUME NEW s \in Slot, Live(s)', Asked(s, "ReceivePack")'
        PROVE  Whole(hobjects[ahost[s]] \cup inbox[s].pack)'
    BY <1>3, <1>w, NextPushed DEF Whole
  <1>4. ASSUME NEW o \in Operator, NEW h \in Host, conn'[o][h] # None
        PROVE  /\ Asked(conn[o][h], "RequestObjects")' =>
                    inbox'[conn'[o][h]].commit = plan'[o].expected[h]
               /\ HasMessage(o, h)' /\ Got(o, h)' = "SendPack" =>
                    Whole(objects[o] \cup outbox[conn[o][h]].pack)'
    BY <1>4, <1>w, NextFetched DEF Whole, Got
  <1>5. QED
    BY <1>1, <1>2, <1>3, <1>4 DEF StoreInv
-----------------------------------------------------------------------------
(* All of it together is inductive.                                        *)
PromiseInv == AssertInv /\ RecordInv /\ NameInv /\ PublishInv /\ StoreInv

LEMMA InitPromiseInv == Init => PromiseInv
  <1> SUFFICES ASSUME Init
               PROVE  PromiseInv
    OBVIOUS
  <1>1. AssertInv
    BY InitAssertInv
  <1>2. /\ \A s \in Slot : apc[s] = "gone" /\ inbox[s] = None /\ outbox[s] = None /\ job[s] = None
        /\ \A h \in Host : /\ current[h] = None /\ target[h] = None
                           /\ hobjects[h] = {} /\ deployedAs[h] = None
        /\ \A o \in Operator : /\ objects[o] = {} /\ main[o] = None
                               /\ cmd[o] = "none" /\ plan[o] = NoPlan
        /\ \A o \in Operator, h \in Host : /\ tracking[o][h] = None /\ actual[o][h] = None
                                           /\ thread[o][h] = "none" /\ conn[o][h] = None
        /\ \A o \in Operator : phase[o] = "idle"
    BY DEF Init, ClusterInit, AgentInit, DriverInit
  <1>3. RecordInv
    BY <1>2 DEF RecordInv
  <1>4. NameInv
    BY <1>2 DEF NameInv, LockedUnderOwnName, LockedBy, Holding
  <1>5. PublishInv
    <2>1. \A o \in Operator : /\ plan[o].commit = None
                              /\ \A h \in Host : plan[o].expected[h] = None
      BY <1>2 DEF NoPlan
    <2>2. \A c : Seen(c) => c = None
      BY <1>2, <2>1 DEF Seen, Applying
    <2>3. QED
      BY <1>2, <2>1, <2>2, ConstantsAssumption DEF PublishInv, Working
  <1>6. StoreInv
    <2>1. Whole({})
      BY DEF Whole, Closed
    <2>2. \A o \in Operator : /\ plan[o].commit = None
                              /\ \A h \in Host : plan[o].expected[h] = None
      BY <1>2 DEF NoPlan
    <2>3. \A o \in Operator : Whole(objects[o])
      BY <1>2, <2>1
    <2>4. \A h \in Host : Whole(hobjects[h])
      BY <1>2, <2>1
    <2>5. QED
      BY <1>2, <2>2, <2>3, <2>4 DEF StoreInv, Live
  <1>7. QED
    BY <1>1, <1>3, <1>4, <1>5, <1>6 DEF PromiseInv

LEMMA NextPromiseInv == PromiseInv /\ [Next]_vars => PromiseInv'
  <1> SUFFICES ASSUME PromiseInv, [Next]_vars
               PROVE  PromiseInv'
    OBVIOUS
  <1>1. LockInv /\ ApplyInv /\ GraphInv
    BY DEF PromiseInv, AssertInv, RefineInv
  <1>2. QED
    BY <1>1, NextAssertInv, NextRecord, NextName, NextPublish, NextStore DEF PromiseInv

THEOREM PromiseInvariant == Spec => []PromiseInv
  BY InitPromiseInv, NextPromiseInv, PTL DEF Spec

(* What the hostname check in front of the lock is for: no apply is diffed *)
(* against another host's tree, whatever is renamed or interrupted.        *)
THEOREM OwnName == Spec => []LockedUnderOwnName
  <1>1. PromiseInv => LockedUnderOwnName
    BY DEF PromiseInv, NameInv
  <1>2. QED
    BY <1>1, PromiseInvariant, PTL

(* All or nothing: the commit of a plan reaches no agent's job before all  *)
(* hosts of the plan are locked.                                           *)
THEOREM LocksBeforeApplies == Spec => []AllOrNothing
  <1>1. PromiseInv => AllOrNothing
    <2> SUFFICES ASSUME PromiseInv, NEW o \in Operator, NEW s \in Slot,
                        job[s] # None, job[s].commit = plan[o].commit, NEW h \in Host
                 PROVE  thread[o][h] \notin {"connect", "lock", "refused", "stale"}
      BY DEF AllOrNothing
    <2>1. Applying(s) /\ job[s].commit \in Commit
      BY Fields DEF PromiseInv, PublishInv, AssertInv, RefineInv, LockInv, ProcessInv, Applying
    <2>2. Seen(plan[o].commit) /\ plan[o].commit # None
      BY <2>1, ConstantsAssumption DEF Seen
    <2>3. cmd[o] = "deploy" /\ phase[o] = "applying"
      BY <2>2 DEF PromiseInv, PublishInv
    <2>4. QED
      BY <2>3 DEF PromiseInv, PublishInv, Early
  <1>2. QED
    BY <1>1, PromiseInvariant, PTL

(* Every store has the whole history of what it has, and what its refs     *)
(* name, although only differences are sent.                               *)
THEOREM HistoriesComplete == Spec => []StoresComplete
  <1>1. PromiseInv => StoresComplete
    BY DEF PromiseInv, StoreInv, StoresComplete, Whole
  <1>2. QED
    BY <1>1, PromiseInvariant, PTL
-----------------------------------------------------------------------------
(* As long as no machine is wiped or renamed, an operator is never ahead   *)
(* of a host: the commit it takes a host to be at is one the host runs, or *)
(* ran before.                                                             *)
Behind(c, h) == c # None => current[h] # None /\ c \in History(anc, current[h])

Ahead(c, o, h) == tracking[o][h] # None => c # None /\ tracking[o][h] \in History(anc, c)

Told(o, h, type) == HasMessage(o, h) /\ Got(o, h) = type

(* What an operator knows of a host, and what it has asked of the agent.   *)
TrackInv ==
    \A o \in Operator, h \in Host :
        /\ Behind(tracking[o][h], h)
        /\ Behind(actual[o][h], h)
        /\ thread[o][h] \in {"stale", "fetch"} => Ahead(actual[o][h], o, h)
        /\ Told(o, h, "LockStale") => /\ Behind(outbox[conn[o][h]].commit, h)
                                      /\ Ahead(outbox[conn[o][h]].commit, o, h)
        /\ cmd[o] = "deploy" =>
             /\ \/ Told(o, h, "ApplyComplete")
                \/ thread[o][h] \in {"applied", "done"}
                => Behind(plan[o].commit, h)
             /\ \/ thread[o][h] = "lock" /\ Told(o, h, "Locked")
                \/ thread[o][h] \in {"locked", "push", "pushing", "applying", "applied"}
                => Ahead(plan[o].commit, o, h)
        /\ conn[o][h] # None =>
             /\ Asked(conn[o][h], "Deploy") => inbox[conn[o][h]].commit = plan[o].commit
             /\ cmd[o] = "deploy" =>
                  /\ ~Asked(conn[o][h], "Reapply")
                  /\ Applying(conn[o][h]) => job[conn[o][h]].commit = plan[o].commit

(* How a thread gets where it is.                                          *)
LEMMA ThreadGoes ==
    ASSUME TypeOK, CommandInv, DriverSide, NEW o \in Operator, NEW h \in Host
    PROVE  /\ thread'[o][h] \notin {"none", "connect"} => cmd'[o] = cmd[o] /\ plan'[o] = plan[o]
           /\ \/ /\ thread'[o][h] = thread[o][h]
                 /\ thread[o][h] \in {"stale", "fetch"} => actual'[o][h] = actual[o][h]
              \/ thread'[o][h] \in {"none", "connect", "refused", "uptodate", "fetched",
                                    "rolledback", "failed"}
              \/ thread'[o][h] = "lock" /\ Connect(o, h)
              \/ thread'[o][h] = "locked" /\ thread[o][h] = "lock" /\ Told(o, h, "Locked")
              \/ /\ thread'[o][h] = "stale"
                 /\ \/ actual'[o][h] = current[h]
                    \/ Told(o, h, "LockStale") /\ actual'[o][h] = outbox[conn[o][h]].commit
              \/ /\ thread'[o][h] = "fetch" /\ thread[o][h] = "stale"
                 /\ actual'[o][h] = actual[o][h]
              \/ thread'[o][h] = "push" /\ thread[o][h] = "locked"
              \/ thread'[o][h] = "pushing" /\ thread[o][h] = "push"
              \/ thread'[o][h] = "applying" /\ thread[o][h] \in {"push", "pushing"}
              \/ thread'[o][h] = "applied" /\ thread[o][h] = "applying" /\ Told(o, h, "ApplyComplete")
              \/ thread'[o][h] = "done" /\ thread[o][h] = "applied"
  <1>t. ThreadTypeOK
    BY DEF TypeOK, DriverTypeOK
  <1> DEFINE Keeps == cmd'[o] = cmd[o] /\ plan'[o] = plan[o]
             Stays == /\ thread'[o][h] = thread[o][h]
                      /\ thread[o][h] \in {"stale", "fetch"} => actual'[o][h] = actual[o][h]
             Ends == thread'[o][h] \in {"none", "connect", "refused", "uptodate", "fetched",
                                        "rolledback", "failed"}
             Locks == \/ thread'[o][h] = "lock" /\ Connect(o, h)
                      \/ thread'[o][h] = "locked" /\ thread[o][h] = "lock" /\ Told(o, h, "Locked")
             Stale == \/ /\ thread'[o][h] = "stale"
                         /\ \/ actual'[o][h] = current[h]
                            \/ /\ Told(o, h, "LockStale")
                               /\ actual'[o][h] = outbox[conn[o][h]].commit
                      \/ /\ thread'[o][h] = "fetch" /\ thread[o][h] = "stale"
                         /\ actual'[o][h] = actual[o][h]
             Works == \/ thread'[o][h] = "push" /\ thread[o][h] = "locked"
                      \/ thread'[o][h] = "pushing" /\ thread[o][h] = "push"
                      \/ thread'[o][h] = "applying" /\ thread[o][h] \in {"push", "pushing"}
                      \/ /\ thread'[o][h] = "applied" /\ thread[o][h] = "applying"
                         /\ Told(o, h, "ApplyComplete")
                      \/ thread'[o][h] = "done" /\ thread[o][h] = "applied"
             Goes == Stays \/ Ends \/ Locks \/ Stale \/ Works
  <1>1. ASSUME NEW p \in Operator, OperatorStep(p) \/ CommandStep(p) \/ DriverCrash(p)
        PROVE  (thread'[o][h] \notin {"none", "connect"} => Keeps) /\ Goes
    <2>1. CASE p # o
      <3>1. Keeps /\ thread'[o] = thread[o]
        BY <1>1, <2>1, CommandMoves
      <3>2. thread[o][h] \in {"stale", "fetch"} => actual'[o][h] = actual[o][h]
        <4>1. actual' = actual \/ actual' = [actual EXCEPT ![p] = [g \in Host |-> None]]
          BY <1>1 DEF OperatorStep, CommandStep, DriverCrash, MakePlan, StartReapply, StartSync,
             Select, Confirm, Decline, EndCommand, ProceedDeploy, ProceedReapply, StartApplying,
             RefuseReapply, StartFetching, Finish, threadVars
        <4>2. QED
          BY <1>t, <2>1, <4>1 DEF ThreadTypeOK
      <3>3. QED
        BY <3>1, <3>2
    <2>2. CASE p = o
      <3>1. CASE StartsOver(o)
        BY <3>1 DEF StartsOver
      <3>2. CASE MovesOn(o) /\ ~StartsOver(o)
        <4>1. Keeps
          BY <3>2 DEF MovesOn
        <4>2. CASE ProceedDeploy(o) \/ ProceedReapply(o)
          <5>1. actual' = actual
            BY <4>2 DEF ProceedDeploy, ProceedReapply, StartApplying
          <5>2. thread'[o][h] = IF thread[o][h] = "locked" THEN "push" ELSE thread[o][h]
            BY <1>t, <4>2 DEF ProceedDeploy, ProceedReapply, StartApplying, ThreadTypeOK
          <5>3. QED
            BY <4>1, <5>1, <5>2
        <4>3. CASE Confirm(o) \/ StartFetching(o)
          BY <4>1, <4>3 DEF Confirm, StartFetching, threadVars
        <4>4. ~EndCommand(o)
          <5> SUFFICES ASSUME EndCommand(o)
                       PROVE  FALSE
            OBVIOUS
          <5>1. /\ thread'[o] = [g \in Host |-> "none"] /\ phase'[o] = "idle"
                /\ plan'[o] = NoPlan /\ cmd'[o] = "none"
            BY <1>t DEF EndCommand, StartThreads, TypeOK, DriverTypeOK, CommandTypeOK, ThreadTypeOK
          <5>2. StartsOver(o)
            BY <5>1 DEF StartsOver, NoPlan
          <5>3. QED
            BY <3>2, <5>2
        <4>5. ASSUME Plans(o) \/ \E H \in SUBSET Host : StartReapply(o, H) \/ StartSync(o, H)
              PROVE  Ends
          <5>1. \E H : StartThreads(o, H)
            BY <4>5 DEF Plans, MakePlan, StartReapply, StartSync, Select
          <5>2. QED
            BY <1>t, <5>1 DEF StartThreads, ThreadTypeOK
        <4>6. QED
          BY <1>1, <2>2, <4>1, <4>2, <4>3, <4>4, <4>5
             DEF OperatorStep, CommandStep, DriverCrash, Plans, Decline, RefuseReapply, Finish
      <3>3. QED
        BY <1>1, <2>2, <3>1, <3>2, CommandMoves
    <2>3. QED
      BY <2>1, <2>2
  <1>2. ASSUME NEW p \in Operator, NEW g \in Host, p # o \/ g # h,
               \/ Connect(p, g) \/ ThreadStep(p, g)
               \/ ConnectFails(p, g) \/ ConnectionLost(p, g)
        PROVE  Keeps /\ Goes
    <2>1. Keeps /\ thread'[o][h] = thread[o][h]
      BY <1>2, ThreadMoves DEF Moves, commandVars
    <2>2. actual'[o][h] = actual[o][h]
      BY <1>2, <1>t DEF Connect, ConnectAndLock, ConnectForSync, ConnectFails, ConnectionLost,
         ThreadStep, ReadLock, FetchStale, ReadObjects, SendPack, ReadPackReceived,
         SendReapply, ReadApply, ReadApplied, ReadEOF, Receive, Hangup, ThreadTypeOK
    <2>3. QED
      BY <2>1, <2>2
  <1>3. ASSUME \/ Connect(o, h) \/ ThreadStep(o, h)
               \/ ConnectFails(o, h) \/ ConnectionLost(o, h)
        PROVE  Keeps /\ Goes
    <2>0. Keeps
      BY <1>3, ThreadMoves DEF commandVars
    <2>1. ASSUME NEW state, thread' = [thread EXCEPT ![o][h] = state]
          PROVE  thread'[o][h] = state
      BY <1>t, <2>1 DEF ThreadTypeOK
    <2>2. ASSUME NEW c, actual' = [actual EXCEPT ![o][h] = c]
          PROVE  actual'[o][h] = c
      BY <1>t, <2>2 DEF ThreadTypeOK
    <2>3. CASE Connect(o, h)
      <3>1. \/ thread'[o][h] \in {"lock", "uptodate"}
            \/ thread'[o][h] = "stale" /\ actual'[o][h] = current[h]
        BY <2>1, <2>2, <2>3 DEF Connect, ConnectAndLock, ConnectForSync
      <3>2. QED
        BY <2>0, <2>3, <3>1
    <2>4. CASE ConnectFails(o, h) \/ ConnectionLost(o, h) \/ ReadEOF(o, h)
      <3>1. thread'[o][h] \in {"refused", "failed"}
        BY <1>t, <2>1, <2>4 DEF ConnectFails, ConnectionLost, ReadEOF, Hangup, LostState, ThreadTypeOK
      <3>2. QED
        BY <2>0, <3>1
    <2>5. CASE ReadLock(o, h)
      <3>1. \/ thread'[o][h] = "locked" /\ thread[o][h] = "lock" /\ Told(o, h, "Locked")
            \/ /\ thread'[o][h] = "stale" /\ Told(o, h, "LockStale")
               /\ actual'[o][h] = outbox[conn[o][h]].commit
            \/ thread'[o][h] = "refused"
        BY <2>1, <2>2, <2>5 DEF ReadLock, Receive, Hangup, Told
      <3>2. QED
        BY <2>0, <3>1
    <2>6. CASE FetchStale(o, h)
      <3>1. \/ thread'[o][h] = "fetched"
            \/ thread'[o][h] = "fetch" /\ thread[o][h] = "stale" /\ actual' = actual
        BY <2>1, <2>6 DEF FetchStale, Hangup
      <3>2. QED
        BY <2>0, <3>1
    <2>7. CASE ReadObjects(o, h)
      <3>1. thread'[o][h] \in {"fetched", "failed"}
        BY <2>1, <2>7 DEF ReadObjects, Hangup
      <3>2. QED
        BY <2>0, <3>1
    <2>8. CASE SendPack(o, h) \/ ReadPackReceived(o, h) \/ SendReapply(o, h)
      <3>1. \/ thread'[o][h] = "pushing" /\ thread[o][h] = "push"
            \/ thread'[o][h] = "applying" /\ thread[o][h] \in {"push", "pushing"}
            \/ thread'[o][h] = "failed"
        BY <2>1, <2>8 DEF SendPack, ReadPackReceived, SendReapply, Hangup
      <3>2. QED
        BY <2>0, <3>1
    <2>9. CASE ReadApply(o, h) \/ ReadApplied(o, h)
      <3>1. \/ thread'[o][h] = "applied" /\ thread[o][h] = "applying" /\ Told(o, h, "ApplyComplete")
            \/ thread'[o][h] = "done" /\ thread[o][h] = "applied"
            \/ thread'[o][h] \in {"rolledback", "failed"}
        BY <2>1, <2>9 DEF ReadApply, ReadApplied, Receive, Hangup, Told
      <3>2. QED
        BY <2>0, <3>1
    <2>10. QED
      BY <1>3, <2>3, <2>4, <2>5, <2>6, <2>7, <2>8, <2>9 DEF ThreadStep
  <1>4. QED
    BY <1>1, <1>2, <1>3 DEF DriverSide, DriverFault

(* Where a message that is on the pipe after a step comes from.            *)
LEMMA MessageSteps ==
    ASSUME TypeOK, ProcessInv, CommandInv, ConnInv, [Next]_vars,
           NEW o \in Operator, NEW h \in Host, HasMessage(o, h)'
    PROVE  /\ conn'[o][h] = conn[o][h] /\ conn[o][h] # None
           /\ plan'[o] = plan[o] /\ cmd'[o] = cmd[o]
           /\ \/ HasMessage(o, h) /\ outbox'[conn[o][h]] = outbox[conn[o][h]]
              \/ /\ AgentStep(conn[o][h]) \/ AgentKilled(conn[o][h])
                 /\ outbox'[conn[o][h]] # outbox[conn[o][h]]
                 /\ UNCHANGED driverVars
  <1>t. ThreadTypeOK /\ PipeTypeOK
    BY DEF TypeOK, ClusterTypeOK, DriverTypeOK
  <1>0. conn'[o][h] # None /\ outbox'[conn'[o][h]] # None
    BY DEF HasMessage
  <1>1. ~Connect(o, h)
    <2>1. ASSUME NEW s \in Slot, ConnectAndLock(o, h, s) \/ ConnectForSync(o, h, s)
          PROVE  FALSE
      <3>1. conn'[o][h] \in {s, None}
        BY <1>t, <2>1 DEF ConnectAndLock, ConnectForSync, ThreadTypeOK
      <3>2. outbox'[s] = None
        BY <1>t, <2>1 DEF ConnectAndLock, ConnectForSync, Spawn, PipeTypeOK
      <3>3. QED
        BY <1>0, <3>1, <3>2
    <2>2. QED
      BY <2>1 DEF Connect
  <1>2. /\ conn'[o][h] = conn[o][h] /\ conn[o][h] # None
        /\ plan'[o] = plan[o] /\ cmd'[o] = cmd[o]
    BY <1>0, <1>1, ConnSteps
  <1> DEFINE s == conn[o][h]
  <1>3. s \in Slot
    BY <1>2, <1>t DEF ThreadTypeOK
  <1>4. CASE DriverSide
    BY <1>0, <1>2, <1>3, <1>4, DriverReads DEF HasMessage
  <1>5. CASE UNCHANGED pipeVars
    BY <1>0, <1>2, <1>5 DEF HasMessage, pipeVars
  <1>6. ASSUME NEW t \in Slot, t # s, AgentStep(t) \/ AgentKilled(t)
        PROVE  outbox'[s] = outbox[s]
    BY <1>3, <1>6, AgentFrame
  <1>7. ASSUME NEW a \in Host, NEW b \in Host, Wipe(a) \/ Rename(a, b)
        PROVE  UNCHANGED pipeVars
    BY <1>7 DEF Wipe, Rename
  <1>8. QED
    BY <1>0, <1>2, <1>4, <1>5, <1>6, <1>7 DEF Next, HostSide, HasMessage, vars, pipeVars

(* What is asked of an agent after a step.                                 *)
LEMMA RequestSteps ==
    ASSUME TypeOK, ProcessInv, CommandInv, ConnInv, [Next]_vars,
           NEW o \in Operator, NEW h \in Host, conn'[o][h] # None,
           inbox'[conn'[o][h]] # None
    PROVE  \/ inbox'[conn'[o][h]].type = "Lock"
           \/ /\ conn'[o][h] = conn[o][h] /\ plan'[o] = plan[o] /\ cmd'[o] = cmd[o]
              /\ \/ inbox'[conn[o][h]] = inbox[conn[o][h]]
                 \/ inbox'[conn[o][h]] = ObjectsRequest(plan[o].expected[h])
                 \/ inbox'[conn[o][h]] = ReceivePackRequest(
                      Pack(anc, plan[o].commit, plan[o].expected[h]))
                 \/ inbox'[conn[o][h]] = ApplyDeploy(plan[o].commit, plan[o].safe[h])
                 \/ cmd[o] = "reapply" /\ inbox'[conn[o][h]] = ApplyReapply(plan[o].expected[h])
  <1>t. ThreadTypeOK /\ PipeTypeOK
    BY DEF TypeOK, ClusterTypeOK, DriverTypeOK
  <1>1. CASE Connect(o, h)
    <2>1. PICK s \in Slot : ConnectAndLock(o, h, s) \/ ConnectForSync(o, h, s)
      BY <1>1 DEF Connect
    <2>2. conn'[o][h] = s
      BY <1>t, <2>1 DEF ConnectAndLock, ConnectForSync, ThreadTypeOK
    <2>3. inbox'[s] \in {LockRequest(plan[o].expected[h]), None}
      BY <1>t, <2>1 DEF ConnectAndLock, ConnectForSync, PipeTypeOK
    <2>4. QED
      BY <2>2, <2>3 DEF LockRequest
  <1>2. CASE ~Connect(o, h)
    <2> DEFINE s == conn[o][h]
    <2>1. /\ conn'[o][h] = s /\ s # None /\ s \in Slot
          /\ plan'[o] = plan[o] /\ cmd'[o] = cmd[o]
      BY <1>2, <1>t, ConnSteps DEF ThreadTypeOK
    <2>2. ASSUME NEW t \in Slot, AgentStep(t) \/ AgentKilled(t)
          PROVE  inbox'[s] = inbox[s]
      <3>1. CASE t = s
        BY <2>1, <2>2, <3>1, AgentOwn
      <3>2. CASE t # s
        BY <2>1, <2>2, <3>2, AgentFrame
      <3>3. QED
        BY <3>1, <3>2
    <2>3. ASSUME NEW p \in Operator, NEW g \in Host, Connect(p, g)
          PROVE  inbox'[s] = inbox[s]
      BY <2>1, <2>3, ConnectFrame DEF ConnInv, Free
    <2>4. ASSUME NEW p \in Operator, NEW g \in Host,
                 ThreadStep(p, g) \/ ConnectFails(p, g) \/ ConnectionLost(p, g),
                 inbox'[s] # inbox[s]
          PROVE  \/ inbox'[s] = ObjectsRequest(plan[o].expected[h])
                 \/ inbox'[s] = ReceivePackRequest(Pack(anc, plan[o].commit, plan[o].expected[h]))
                 \/ inbox'[s] = ApplyDeploy(plan[o].commit, plan[o].safe[h])
                 \/ cmd[o] = "reapply" /\ inbox'[s] = ApplyReapply(plan[o].expected[h])
      <3>1. s = conn[p][g]
        BY <2>1, <2>4, ThreadSends
      <3>2. p = o /\ g = h
        BY <2>1, <3>1 DEF ConnInv
      <3>3. QED
        BY <2>1, <2>4, <3>2, ThreadSends
    <2>5. ASSUME NEW p \in Operator, OperatorStep(p) \/ CommandStep(p) \/ DriverCrash(p)
          PROVE  inbox' = inbox
      BY <2>5, OperatorFrame
    <2>6. ASSUME NEW a \in Host, NEW b \in Host, Wipe(a) \/ Rename(a, b)
          PROVE  inbox' = inbox
      BY <2>6 DEF Wipe, Rename, pipeVars
    <2>7. \/ inbox'[s] = inbox[s]
          \/ inbox'[s] = ObjectsRequest(plan[o].expected[h])
          \/ inbox'[s] = ReceivePackRequest(Pack(anc, plan[o].commit, plan[o].expected[h]))
          \/ inbox'[s] = ApplyDeploy(plan[o].commit, plan[o].safe[h])
          \/ cmd[o] = "reapply" /\ inbox'[s] = ApplyReapply(plan[o].expected[h])
      BY <2>2, <2>3, <2>4, <2>5, <2>6
         DEF Next, HostSide, DriverSide, DriverFault, vars, pipeVars
    <2>8. QED
      BY <2>1, <2>7
  <1>3. QED
    BY <1>1, <1>2

(* A host that is neither wiped nor renamed only moves on.                 *)
LEMMA CurrentAdvances ==
    ASSUME "wipe" \notin Faults, "rename" \notin Faults, AssertInv, TargetAhead, [Next]_vars,
           NEW h \in Host, current[h] # None
    PROVE  current'[h] # None /\ current[h] \in History(anc', current'[h])
  <1>t. TypeOK /\ ProcessInv /\ CommandInv /\ HostTypeOK /\ None \notin Commit
    BY ConstantsAssumption DEF AssertInv, RefineInv, LockInv, TypeOK, AgentTypeOK
  <1>1. CASE current'[h] = current[h]
    BY <1>1 DEF History
  <1>2. CASE current'[h] # current[h]
    <2>1. ASSUME NEW a \in Host, NEW b \in Host, Wipe(a) \/ Rename(a, b)
          PROVE  FALSE
      BY <2>1 DEF Wipe, Rename
    <2>2. PICK s \in Slot : ahost[s] = h /\ (SetCurrent(s) \/ RecordHostname(s))
      BY <1>2, <1>t, <2>1, HostMoves
    <2>3. SetCurrent(s)
      BY <1>2, <2>2 DEF RecordHostname, refVars
    <2>4. current'[h] = job[s].commit /\ job[s].commit \in Commit /\ anc' = anc
      BY <1>t, <2>2, <2>3, Fields DEF SetCurrent, HostTypeOK, ProcessInv, graphVars
    <2>5. job[s].commit = target[h]
      BY <1>2, <2>2, <2>3, <2>4 DEF SetCurrent, AssertInv, RefineInv, ApplyInv
    <2>6. QED
      BY <1>t, <2>4, <2>5 DEF TargetAhead
  <1>3. QED
    BY <1>1, <1>2

LEMMA BehindStays ==
    ASSUME "wipe" \notin Faults, "rename" \notin Faults, AssertInv, TargetAhead, [Next]_vars,
           NEW h \in Host, NEW c, Behind(c, h), c # None
    PROVE  current'[h] # None /\ c \in History(anc', current'[h])
  <1>1. /\ current[h] # None /\ c \in History(anc, current[h])
        /\ current'[h] # None /\ current[h] \in History(anc', current'[h])
    BY CurrentAdvances DEF Behind
  <1>2. TypeOK /\ GraphInv /\ KnownInv
    BY DEF AssertInv, RefineInv, LockInv
  <1>3. current[h] \in Created /\ Created \subseteq Commit
    BY <1>1, <1>2 DEF KnownInv, Known, Created
  <1>4. History(anc', current[h]) = History(anc, current[h])
    BY <1>2, <1>3, CreatedStays DEF History
  <1>5. GraphInv'
    BY <1>2, NextGraph
  <1>6. current'[h] \in Commit
    <2>1. TypeOK'
      BY NextType DEF AssertInv, RefineInv, LockInv
    <2>2. QED
      BY <1>1, <2>1 DEF TypeOK, AgentTypeOK, HostTypeOK, OptCommit
  <1>7. QED
    BY <1>1, <1>3, <1>4, <1>5, <1>6 DEF GraphInv, Ordered, History

(* What is ahead of a tracking ref stays so while the ref stays.           *)
LEMMA AheadStays ==
    ASSUME AssertInv, [Next]_vars, NEW o \in Operator, NEW h \in Host,
           NEW c \in Created \cup {None}, Ahead(c, o, h),
           tracking'[o][h] = tracking[o][h], tracking[o][h] # None
    PROVE  c # None /\ tracking'[o][h] \in History(anc', c)
  BY CreatedStays DEF Ahead, History, AssertInv, RefineInv, LockInv

LEMMA NextTrack ==
    ASSUME "wipe" \notin Faults, "rename" \notin Faults,
           PromiseInv, TargetAhead, TrackInv, [Next]_vars
    PROVE  TrackInv'
  <1>t. /\ AssertInv /\ TypeOK /\ ProcessInv /\ CommandInv /\ ConnInv
        /\ GraphInv /\ GraphTypeOK
        /\ ThreadTypeOK /\ PipeTypeOK /\ ProcessTypeOK /\ None \notin Commit
    BY ConstantsAssumption DEF PromiseInv, AssertInv, RefineInv, LockInv, TypeOK,
       ClusterTypeOK, DriverTypeOK
  <1>c. ConnInv'
    BY <1>t, NextConn
  <1> SUFFICES ASSUME NEW o \in Operator, NEW h \in Host
               PROVE  TrackInv!(o, h)'
    BY DEF TrackInv
  <1> DEFINE s == conn[o][h]
             goal == plan[o].commit
             BehindNow(c) == c # None => current'[h] # None /\ c \in History(anc', current'[h])
             AheadNow(c) == tracking'[o][h] # None =>
                              c # None /\ tracking'[o][h] \in History(anc', c)
  \* What was behind the host or ahead of the tracking ref stays there.
  <1>b. \A c : Behind(c, h) => BehindNow(c)
    BY <1>t, BehindStays
  <1>a. ASSUME NEW c \in Created \cup {None}, Ahead(c, o, h), tracking'[o][h] = tracking[o][h]
        PROVE  AheadNow(c)
    BY <1>a, <1>t, AheadStays
  <1>k. /\ Known(tracking[o][h]) /\ Known(actual[o][h]) /\ Known(current[h])
        /\ cmd[o] = "deploy" => goal \in Created
    BY DEF PromiseInv, AssertInv, KnownInv, PublishInv
  \* The host itself is both.
  <1>h. Behind(current[h], h) /\ Ahead(current[h], o, h)
    BY DEF Behind, Ahead, History, TrackInv
  <1>l. Told(o, h, "LockStale") =>
          /\ outbox[s].commit \in Created \cup {None}
          /\ Behind(outbox[s].commit, h) /\ Ahead(outbox[s].commit, o, h)
    <2>1. Told(o, h, "LockStale") => s \in Slot
      BY <1>t DEF Told, HasMessage, ThreadTypeOK
    <2>2. QED
      BY <2>1 DEF TrackInv, Told, HasMessage, Got, PromiseInv, AssertInv, KnownInv, Known
  <1>d. DriverSide \/ UNCHANGED driverVars
    BY DEF Next, HostSide, vars
  <1>f. \/ tracking'[o][h] = tracking[o][h]
        \/ /\ thread[o][h] \in {"stale", "fetch"} /\ thread'[o][h] = "fetched"
           /\ tracking'[o][h] = actual[o][h]
        \/ /\ cmd[o] = "deploy" /\ thread[o][h] = "applied" /\ thread'[o][h] = "done"
           /\ tracking'[o][h] = goal
    BY <1>d, <1>t, DriverLearns DEF driverVars, storeVars
  \* A new message of this connection's agent.
  <1>m. /\ HasMessage(o, h)' =>
             /\ conn'[o][h] = s /\ s \in Slot /\ plan'[o] = plan[o] /\ cmd'[o] = cmd[o]
             /\ thread'[o][h] \in Connected
        /\ HasMessage(o, h)' /\ ~(HasMessage(o, h) /\ outbox'[s] = outbox[s]) =>
             /\ AgentStep(s) \/ AgentKilled(s)
             /\ outbox'[s] # outbox[s] /\ outbox'[s] # None
             /\ Live(s) /\ ahost[s] = h
             /\ UNCHANGED driverVars
    <2> SUFFICES ASSUME HasMessage(o, h)'
                 PROVE  /\ conn'[o][h] = s /\ s \in Slot /\ plan'[o] = plan[o] /\ cmd'[o] = cmd[o]
                        /\ thread'[o][h] \in Connected
                        /\ ~(HasMessage(o, h) /\ outbox'[s] = outbox[s]) =>
                             /\ AgentStep(s) \/ AgentKilled(s)
                             /\ outbox'[s] # outbox[s] /\ outbox'[s] # None
                             /\ Live(s) /\ ahost[s] = h
                             /\ UNCHANGED driverVars
      OBVIOUS
    <2>1. /\ conn'[o][h] = s /\ s # None /\ plan'[o] = plan[o] /\ cmd'[o] = cmd[o]
          /\ \/ HasMessage(o, h) /\ outbox'[s] = outbox[s]
             \/ /\ AgentStep(s) \/ AgentKilled(s)
                /\ outbox'[s] # outbox[s]
                /\ UNCHANGED driverVars
      BY <1>t, MessageSteps
    <2>2. s \in Slot /\ thread'[o][h] \in Connected
      BY <1>c, <1>t, <2>1 DEF ConnInv, ThreadTypeOK
    <2>3. outbox'[s] # None
      BY <2>1 DEF HasMessage
    <2>4. (AgentStep(s) \/ AgentKilled(s)) => Live(s) /\ ahost[s] = h
      BY <1>t, <2>1, <2>2, AgentFrame DEF ConnInv
    <2>5. QED
      BY <2>1, <2>2, <2>3, <2>4
  <1>1. BehindNow(tracking'[o][h])
    <2>1. Behind(tracking'[o][h], h)
      BY <1>f DEF TrackInv
    <2>2. QED
      BY <1>b, <2>1
  <1>2. BehindNow(actual'[o][h])
    <2>1. \/ actual'[o][h] \in {actual[o][h], current[h], None}
          \/ /\ HasMessage(o, h) /\ Got(o, h) = "LockStale"
             /\ actual'[o][h] = outbox[s].commit
      BY <1>d, <1>t, DriverLearns DEF driverVars, threadVars
    <2>2. Behind(actual'[o][h], h)
      BY <1>h, <1>l, <2>1 DEF TrackInv, Told, Behind
    <2>3. QED
      BY <1>b, <2>2
  <1>g. \/ /\ thread'[o][h] = thread[o][h]
           /\ thread[o][h] \in {"stale", "fetch"} => actual'[o][h] = actual[o][h]
        \/ thread'[o][h] \in {"none", "connect", "refused", "uptodate", "fetched",
                              "rolledback", "failed"}
        \/ thread'[o][h] = "lock" /\ Connect(o, h)
        \/ thread'[o][h] = "locked" /\ thread[o][h] = "lock" /\ Told(o, h, "Locked")
        \/ /\ thread'[o][h] = "stale"
           /\ \/ actual'[o][h] = current[h]
              \/ Told(o, h, "LockStale") /\ actual'[o][h] = outbox[s].commit
        \/ /\ thread'[o][h] = "fetch" /\ thread[o][h] = "stale"
           /\ actual'[o][h] = actual[o][h]
        \/ thread'[o][h] = "push" /\ thread[o][h] = "locked"
        \/ thread'[o][h] = "pushing" /\ thread[o][h] = "push"
        \/ thread'[o][h] = "applying" /\ thread[o][h] \in {"push", "pushing"}
        \/ thread'[o][h] = "applied" /\ thread[o][h] = "applying" /\ Told(o, h, "ApplyComplete")
        \/ thread'[o][h] = "done" /\ thread[o][h] = "applied"
    BY <1>d, <1>t, ThreadGoes DEF driverVars, threadVars
  <1>p. thread'[o][h] \notin {"none", "connect"} => cmd'[o] = cmd[o] /\ plan'[o] = plan[o]
    BY <1>d, <1>t, ThreadGoes DEF driverVars, commandVars
  <1>3. thread'[o][h] \in {"stale", "fetch"} => AheadNow(actual'[o][h])
    <2> SUFFICES ASSUME thread'[o][h] \in {"stale", "fetch"}
                 PROVE  AheadNow(actual'[o][h])
      OBVIOUS
    <2>1. tracking'[o][h] = tracking[o][h]
      BY <1>f
    <2>2. actual'[o][h] \in Created \cup {None} /\ Ahead(actual'[o][h], o, h)
      BY <1>g, <1>h, <1>k, <1>l DEF TrackInv, Known
    <2>3. QED
      BY <1>a, <2>1, <2>2
  <1>4. Told(o, h, "LockStale")' =>
           BehindNow(outbox'[conn'[o][h]].commit) /\ AheadNow(outbox'[conn'[o][h]].commit)
    <2> SUFFICES ASSUME Told(o, h, "LockStale")'
                 PROVE  BehindNow(outbox'[conn'[o][h]].commit) /\ AheadNow(outbox'[conn'[o][h]].commit)
      OBVIOUS
    <2>1. /\ conn'[o][h] = s /\ s \in Slot /\ outbox'[s].type = "LockStale"
          /\ tracking'[o][h] = tracking[o][h]
      BY <1>f, <1>m DEF Told, Got, Connected
    <2>2. /\ outbox'[s].commit \in Created \cup {None}
          /\ Behind(outbox'[s].commit, h) /\ Ahead(outbox'[s].commit, o, h)
      <3>1. CASE HasMessage(o, h) /\ outbox'[s] = outbox[s]
        BY <1>l, <2>1, <3>1 DEF Told, Got
      <3>2. CASE ~(HasMessage(o, h) /\ outbox'[s] = outbox[s])
        <4>1. outbox'[s].commit = current[h]
          BY <1>m, <1>t, <2>1, <3>2, AgentAnswers DEF Told
        <4>2. QED
          BY <1>h, <1>k, <4>1 DEF Known
      <3>3. QED
        BY <3>1, <3>2
    <2>3. QED
      BY <1>a, <1>b, <2>1, <2>2
  <1>5. cmd'[o] = "deploy" /\ (\/ Told(o, h, "ApplyComplete")'
                               \/ thread'[o][h] \in {"applied", "done"})
           => BehindNow(plan'[o].commit)
    <2> SUFFICES ASSUME cmd'[o] = "deploy",
                        \/ Told(o, h, "ApplyComplete")'
                        \/ thread'[o][h] \in {"applied", "done"}
                 PROVE  BehindNow(plan'[o].commit)
      OBVIOUS
    <2>1. cmd[o] = "deploy" /\ plan'[o] = plan[o]
      BY <1>m, <1>p DEF Told
    <2>2. CASE Told(o, h, "ApplyComplete") \/ thread[o][h] \in {"applied", "done"}
      BY <1>b, <2>1, <2>2 DEF TrackInv
    <2>3. CASE ~(Told(o, h, "ApplyComplete") \/ thread[o][h] \in {"applied", "done"})
      <3>1. Told(o, h, "ApplyComplete")'
        BY <1>g, <2>3
      <3>2. /\ HasMessage(o, h)' /\ outbox'[s].type = "ApplyComplete"
            /\ ~(HasMessage(o, h) /\ outbox'[s] = outbox[s])
        BY <1>m, <2>3, <3>1 DEF Told, Got
      <3>3. RecordHostname(s) /\ s \in Slot /\ ahost[s] = h /\ s # None
        BY <1>m, <1>t, <3>2, AgentTells, ConstantsAssumption
      <3>4. job[s].commit = goal
        BY <2>1, <3>3 DEF TrackInv, RecordHostname, Applying
      <3>5. current[h] = goal
        BY <3>3, <3>4 DEF PromiseInv, RecordInv, RecordHostname
      <3>6. QED
        BY <1>b, <1>h, <2>1, <3>5
    <2>4. QED
      BY <2>2, <2>3
  <1>6. cmd'[o] = "deploy" /\ (\/ thread'[o][h] = "lock" /\ Told(o, h, "Locked")'
                               \/ thread'[o][h] \in {"locked", "push", "pushing", "applying",
                                                     "applied"})
           => AheadNow(plan'[o].commit)
    <2> SUFFICES ASSUME cmd'[o] = "deploy",
                        \/ thread'[o][h] = "lock" /\ Told(o, h, "Locked")'
                        \/ thread'[o][h] \in {"locked", "push", "pushing", "applying", "applied"}
                 PROVE  AheadNow(plan'[o].commit)
      OBVIOUS
    <2>1. /\ cmd[o] = "deploy" /\ plan'[o] = plan[o] /\ goal \in Created
          /\ tracking'[o][h] = tracking[o][h]
      BY <1>f, <1>k, <1>p
    <2>2. CASE \/ thread[o][h] = "lock" /\ Told(o, h, "Locked")
               \/ thread[o][h] \in {"locked", "push", "pushing", "applying", "applied"}
      BY <1>a, <2>1, <2>2 DEF TrackInv
    <2>3. CASE ~(\/ thread[o][h] = "lock" /\ Told(o, h, "Locked")
                 \/ thread[o][h] \in {"locked", "push", "pushing", "applying", "applied"})
      <3>1. thread'[o][h] = "lock" /\ Told(o, h, "Locked")'
        BY <1>g, <2>3
      <3>2. HasMessage(o, h)' /\ conn'[o][h] = s /\ s \in Slot /\ outbox'[s].type = "Locked"
        BY <1>m, <3>1 DEF Told, Got
      <3>3. ~(HasMessage(o, h) /\ outbox'[s] = outbox[s] /\ thread[o][h] = "lock")
        BY <2>3, <3>2 DEF Told, Got
      <3>4. thread[o][h] = "lock"
        <4>1. CASE UNCHANGED driverVars
          BY <3>1, <4>1 DEF driverVars, threadVars
        <4>2. CASE Connect(o, h)
          <5>1. thread[o][h] = "connect"
            BY <4>2 DEF Connect, ConnectAndLock, ConnectForSync
          <5>2. s = None
            BY <1>t, <5>1 DEF ConnInv, Connected
          <5>3. QED
            BY <3>2, <5>2, ConstantsAssumption
        <4>3. QED
          BY <1>g, <3>1, <4>2
      <3>5. HandleLock(s) /\ Live(s) /\ ahost[s] = h /\ outbox'[s] # None
        BY <1>m, <1>t, <3>2, <3>3, <3>4, AgentTells
      <3>6. outbox'[s] = LockAnswer(h, inbox[s].commit) /\ inbox[s] # None
        BY <1>t, <3>2, <3>5 DEF HandleLock, Answer, Emit, Asked, PipeTypeOK
      <3>7. current[h] = inbox[s].commit
        BY <3>2, <3>6 DEF LockAnswer, Msg, MsgCommit
      <3>8. inbox[s].commit = plan[o].expected[h]
        BY <3>2, <3>4, <3>5, <3>6, ConstantsAssumption
           DEF PromiseInv, AssertInv, RefineInv, LockInv, HandshakeInv, Handshake
      <3>9. current[h] # None => current[h] \in anc[goal]
        BY <2>1, <3>4, <3>7, <3>8 DEF PromiseInv, AssertInv, PlanInv, Fits, DescendsFrom
      <3>10. Ahead(goal, o, h)
        <4> SUFFICES ASSUME tracking[o][h] # None
                     PROVE  goal # None /\ tracking[o][h] \in History(anc, goal)
          BY DEF Ahead
        <4>1. current[h] # None /\ tracking[o][h] \in History(anc, current[h])
          BY DEF TrackInv, Behind
        <4>2. goal \in Commit /\ current[h] \in Commit
          BY <1>k, <2>1, <4>1 DEF Known, Created
        <4>3. QED
          BY <1>t, <3>9, <4>1, <4>2 DEF GraphInv, Ordered, History
      <3>11. QED
        BY <1>a, <2>1, <3>10
    <2>4. QED
      BY <2>2, <2>3
  <1>7. conn'[o][h] # None =>
          /\ Asked(conn[o][h], "Deploy")' => inbox'[conn'[o][h]].commit = plan'[o].commit
          /\ cmd'[o] = "deploy" => ~Asked(conn[o][h], "Reapply")'
    <2> SUFFICES ASSUME conn'[o][h] # None, inbox'[conn'[o][h]] # None
                 PROVE  /\ inbox'[conn'[o][h]].type = "Deploy" =>
                             inbox'[conn'[o][h]].commit = plan'[o].commit
                        /\ cmd'[o] = "deploy" => inbox'[conn'[o][h]].type # "Reapply"
      BY DEF Asked
    <2>1. \/ inbox'[conn'[o][h]].type = "Lock"
          \/ /\ conn'[o][h] = s /\ plan'[o] = plan[o] /\ cmd'[o] = cmd[o]
             /\ \/ inbox'[s] = inbox[s]
                \/ inbox'[s] = ObjectsRequest(plan[o].expected[h])
                \/ inbox'[s] = ReceivePackRequest(Pack(anc, goal, plan[o].expected[h]))
                \/ inbox'[s] = ApplyDeploy(goal, plan[o].safe[h])
                \/ cmd[o] = "reapply" /\ inbox'[s] = ApplyReapply(plan[o].expected[h])
      BY <1>t, RequestSteps
    <2>2. \A x, y : /\ ObjectsRequest(x).type \notin {"Deploy", "Reapply"}
                    /\ ReceivePackRequest(x).type \notin {"Deploy", "Reapply"}
                    /\ ApplyDeploy(x, y).type # "Reapply" /\ ApplyDeploy(x, y).commit = x
                    /\ ApplyReapply(x).type # "Deploy"
      BY DEF ObjectsRequest, ReceivePackRequest, ApplyDeploy, ApplyReapply
    <2>3. s # None /\ inbox[s] # None =>
            /\ inbox[s].type = "Deploy" => inbox[s].commit = goal
            /\ cmd[o] = "deploy" => inbox[s].type # "Reapply"
      BY DEF TrackInv, Asked
    <2>4. QED
      BY <2>1, <2>2, <2>3
  <1>8. conn'[o][h] # None /\ cmd'[o] = "deploy" /\ Applying(conn[o][h])' =>
          job'[conn'[o][h]].commit = plan'[o].commit
    <2> SUFFICES ASSUME conn'[o][h] # None, cmd'[o] = "deploy", Applying(conn[o][h])'
                 PROVE  job'[conn'[o][h]].commit = plan'[o].commit
      OBVIOUS
    <2>1. ~Connect(o, h)
      <3>1. ASSUME NEW t \in Slot, ConnectAndLock(o, h, t) \/ ConnectForSync(o, h, t)
            PROVE  FALSE
        <4>1. conn'[o][h] = t
          BY <1>t, <3>1 DEF ConnectAndLock, ConnectForSync, ThreadTypeOK
        <4>2. apc'[t] = "idle"
          BY <1>t, <3>1 DEF ConnectAndLock, ConnectForSync, Spawn, ProcessTypeOK
        <4>3. QED
          BY <4>1, <4>2 DEF Applying
      <3>2. QED
        BY <3>1 DEF Connect
    <2>2. /\ conn'[o][h] = s /\ s # None /\ s \in Slot
          /\ plan'[o] = plan[o] /\ cmd[o] = "deploy"
      BY <1>t, <2>1, ConnSteps DEF ThreadTypeOK
    <2>3. Applying(s)'
      BY <2>2 DEF Applying
    <2>4. CASE Applying(s) /\ job'[s] = job[s]
      BY <2>2, <2>4 DEF TrackInv
    <2>5. CASE PrepareReapply(s)
      BY <2>2, <2>5 DEF TrackInv, PrepareReapply
    <2>6. CASE PrepareDeploy(s) /\ job'[s].commit = inbox[s].commit
      BY <2>2, <2>6 DEF TrackInv, PrepareDeploy
    <2>7. QED
      BY <1>t, <2>2, <2>3, <2>4, <2>5, <2>6, JobsStart
  <1>9. QED
    BY <1>1, <1>2, <1>3, <1>4, <1>5, <1>6, <1>7, <1>8 DEF Behind, Ahead

LEMMA InitTrack == Init => TrackInv
  <1> SUFFICES ASSUME Init
               PROVE  TrackInv
    OBVIOUS
  <1>1. \A o \in Operator, h \in Host : /\ tracking[o][h] = None /\ actual[o][h] = None
                                        /\ thread[o][h] = "none" /\ conn[o][h] = None
    BY DEF Init, DriverInit
  <1>2. QED
    BY <1>1 DEF TrackInv, Behind, Ahead, Told, HasMessage

THEOREM TrackInvariant ==
    ASSUME "wipe" \notin Faults, "rename" \notin Faults
    PROVE  Spec => []TrackInv
  <1>1. PromiseInv /\ TargetAhead /\ TrackInv /\ [Next]_vars => TrackInv'
    BY NextTrack
  <1>2. QED
    BY <1>1, InitTrack, PromiseInvariant, TargetStaysAhead, PTL DEF Spec

(* What an operator believes is deployed is deployed, or was: no stale     *)
(* answer, no late message and no crash puts a tracking ref ahead.         *)
THEOREM TrackingStaysBehind ==
    ASSUME "wipe" \notin Faults, "rename" \notin Faults
    PROVE  Spec => []TrackingBehind
  <1>1. TrackInv => TrackingBehind
    BY DEF TrackInv, TrackingBehind, Behind
  <1>2. QED
    BY <1>1, TrackInvariant, PTL

(* A host that is reported as done runs the commit, or one on top of it.   *)
THEOREM DoneIsTrue ==
    ASSUME "wipe" \notin Faults, "rename" \notin Faults
    PROVE  Spec => []DoneIsDeployed
  <1>1. PromiseInv /\ TrackInv => DoneIsDeployed
    <2> SUFFICES ASSUME PromiseInv, TrackInv, NEW o \in Operator, NEW h \in Host,
                        cmd[o] = "deploy", thread[o][h] \in {"applied", "done"}
                 PROVE  current[h] # None /\ plan[o].commit \in History(anc, current[h])
      BY DEF DoneIsDeployed
    <2>1. plan[o].commit # None
      BY ConstantsAssumption DEF PromiseInv, PublishInv, Created
    <2>2. QED
      BY <2>1 DEF TrackInv, Behind
  <1>2. QED
    BY <1>1, PromiseInvariant, TrackInvariant, PTL

(* ... and what an operator has learnt is never forgotten: a fetch that is *)
(* overtaken by another deploy does not put a tracking ref back.           *)
THEOREM TrackingOnlyAdvances ==
    ASSUME "wipe" \notin Faults, "rename" \notin Faults
    PROVE  Spec => TrackingAdvances
  <1>1. PromiseInv /\ TrackInv /\ [Next]_vars
          => [\A o \in Operator, h \in Host :
                tracking[o][h] # None =>
                  /\ tracking'[o][h] # None
                  /\ tracking[o][h] \in History(anc', tracking'[o][h])]_vars
    <2> SUFFICES ASSUME PromiseInv, TrackInv, [Next]_vars,
                        NEW o \in Operator, NEW h \in Host, tracking[o][h] # None
                 PROVE  /\ tracking'[o][h] # None
                        /\ tracking[o][h] \in History(anc', tracking'[o][h])
      OBVIOUS
    <2>t. TypeOK /\ CommandInv
      BY DEF PromiseInv, AssertInv, RefineInv, LockInv
    <2>1. CASE tracking'[o][h] = tracking[o][h]
      BY <2>1 DEF History
    <2>2. CASE tracking'[o][h] # tracking[o][h]
      <3>1. tracking'[o][h] \in Created \cup {None} /\ Ahead(tracking'[o][h], o, h)
        <4>1. DriverSide
          BY <2>2 DEF Next, HostSide, vars, driverVars, storeVars
        <4>2. \/ /\ thread[o][h] \in {"stale", "fetch"}
                 /\ tracking'[o][h] = actual[o][h]
              \/ /\ cmd[o] = "deploy" /\ thread[o][h] = "applied"
                 /\ tracking'[o][h] = plan[o].commit
          BY <2>2, <2>t, <4>1, DriverLearns
        <4>3. QED
          BY <4>2 DEF TrackInv, PromiseInv, PublishInv, AssertInv, KnownInv, Known
      <3>2. QED
        BY <2>t, <3>1, CreatedStays DEF Ahead, History
    <2>3. QED
      BY <2>1, <2>2
  <1>2. QED
    BY <1>1, PromiseInvariant, TrackInvariant, PTL DEF Spec, TrackingAdvances
=============================================================================
