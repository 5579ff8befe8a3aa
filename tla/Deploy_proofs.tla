---------------------------- MODULE Deploy_proofs ----------------------------
(***************************************************************************)
(* Proofs about Deploy, for any number of operators, hosts, commits and    *)
(* agent processes, and under every fault the model has.                   *)
(***************************************************************************)
EXTENDS Deploy, TLAPS

-----------------------------------------------------------------------------
(* The states of a thread that has a connection. *)
Connected == {"lock", "locked", "stale", "fetch", "push", "pushing", "applying", "applied"}

(* What a process is, is consistent: it has a host while it lives, a job   *)
(* while it applies, and nothing on stdin once it is gone.                 *)
ProcessInv ==
    \A s \in Slot :
        /\ Live(s) <=> ahost[s] # None
        /\ apc[s] \in {"modify", "record", "rollback"} => job[s] \in Job
        /\ Asked(s, "Deploy") \/ Asked(s, "Reapply") => inbox[s].commit \in Commit

(* The commits a command will send with Apply are there. *)
CommandInv ==
    \A o \in Operator, h \in Host :
        /\ cmd[o] = "deploy" => plan[o].commit \in Commit
        /\ thread[o][h] = "pushing" => cmd[o] = "deploy"
        /\ cmd[o] = "reapply" /\ thread[o][h] # "none" => plan[o].expected[h] \in Commit
        /\ phase[o] \in {"idle", "confirm"} => thread[o][h] \in {"none", "connect"}

(* A connection belongs to one thread, and its process, until it exits,    *)
(* runs on that thread's host.                                             *)
ConnInv ==
    \A o \in Operator, h \in Host :
        /\ thread[o][h] \in Connected <=> conn[o][h] # None
        /\ conn[o][h] # None =>
             /\ reader[conn[o][h]]
             /\ Live(conn[o][h]) => ahost[conn[o][h]] = h
             /\ \A p \in Operator, g \in Host :
                  conn[p][g] = conn[o][h] => p = o /\ g = h

(* The handshake: the lock request carries the plan's commit, a Locked     *)
(* answer on the way means that the host is pinned already.                *)
Pinned(o, h) ==
    /\ apc[conn[o][h]] = "locked"
    /\ current[h] = plan[o].expected[h]

Handshake(o, h) ==
    conn[o][h] # None /\ Live(conn[o][h]) =>
        /\ thread[o][h] = "lock" /\ inbox[conn[o][h]] # None =>
             /\ inbox[conn[o][h]].type = "Lock"
             /\ inbox[conn[o][h]].commit = plan[o].expected[h]
             /\ outbox[conn[o][h]] = None
             /\ apc[conn[o][h]] = "idle"
        /\ thread[o][h] = "lock" /\ HasMessage(o, h) /\ Got(o, h) = "Locked" =>
             /\ inbox[conn[o][h]] = None
             /\ Pinned(o, h)
        /\ thread[o][h] \in {"locked", "push", "pushing"} =>
             /\ inbox[conn[o][h]] # None => inbox[conn[o][h]].type = "ReceivePack"
             /\ Pinned(o, h)

HandshakeInv == \A o \in Operator, h \in Host : Handshake(o, h)

(* The inductive invariant behind the lock. *)
LockInv ==
    /\ TypeOK
    /\ ProcessInv
    /\ CommandInv
    /\ ConnInv
    /\ LockExclusive
    /\ HandshakeInv
-----------------------------------------------------------------------------
(* The constructors build well-typed requests and messages. *)
LEMMA Constructors ==
    /\ \A c \in OptCommit : /\ LockRequest(c) \in Request
                            /\ ObjectsRequest(c) \in Request
                            /\ ApplyReapply(c) \in Request
    /\ \A c \in OptCommit, b \in BOOLEAN : ApplyDeploy(c, b) \in Request
    /\ \A P \in SUBSET Commit : ReceivePackRequest(P) \in Request
    /\ \A t \in MessageType : Msg(t) \in Message
    /\ \A t \in MessageType, c \in OptCommit : MsgCommit(t, c) \in Message
    /\ \A P \in SUBSET Commit : MsgPack(P) \in Message
  BY DEF LockRequest, ObjectsRequest, ApplyReapply, ApplyDeploy, ReceivePackRequest,
         Request, RequestType, OptCommit, Msg, MsgCommit, MsgPack, Message, MessageType

(* ... and their fields can be read back. *)
LEMMA Fields ==
    /\ \A r \in Request : r.commit \in OptCommit /\ r.pack \in SUBSET Commit
    /\ \A m \in Message : m.commit \in OptCommit /\ m.pack \in SUBSET Commit
    /\ \A p \in Plan : /\ p.commit \in OptCommit
                       /\ \A h \in Host : p.expected[h] \in OptCommit /\ p.safe[h] \in BOOLEAN
    /\ \A j \in Job : j.base \in OptCommit /\ j.commit \in Commit
  BY DEF Request, Message, Plan, Job

(* A pack consists of commits. *)
LEMMA PackType ==
    ASSUME GraphTypeOK, NEW c \in Commit, NEW d \in OptCommit
    PROVE  Pack(anc, c, d) \in SUBSET Commit
  BY DEF GraphTypeOK, Pack, History

(* Updating one entry of a table that is indexed by operator and host. *)
LEMMA Update ==
    ASSUME NEW S, NEW f \in [Operator -> [Host -> S]], NEW o, NEW h, NEW v \in S
    PROVE  [f EXCEPT ![o][h] = v] \in [Operator -> [Host -> S]]
  OBVIOUS

(* Updating the row of one operator. *)
LEMMA UpdateRow ==
    ASSUME NEW S, NEW f \in [Operator -> [Host -> S]], NEW o, NEW r \in [Host -> S]
    PROVE  [f EXCEPT ![o] = r] \in [Operator -> [Host -> S]]
  OBVIOUS

(* Every initial state is well typed. *)
LEMMA InitType == Init => TypeOK
  <1> SUFFICES ASSUME Init PROVE TypeOK
    OBVIOUS
  <1>1. ClusterTypeOK
    BY DEF Init, ClusterInit, ClusterTypeOK, GraphTypeOK, ProcessTypeOK, PipeTypeOK
  <1>2. AgentTypeOK
    BY DEF Init, AgentInit, AgentTypeOK, HostTypeOK, JobTypeOK, OptCommit
  <1>3. DriverTypeOK
    <2>1. NoPlan \in Plan
      BY DEF NoPlan, Plan, OptCommit
    <2>2. QED
      BY <2>1 DEF Init, DriverInit, DriverTypeOK, StoreTypeOK, CommandTypeOK, ThreadTypeOK,
                  OptCommit, ThreadState, CommandKind
  <1>4. QED
    BY <1>1, <1>2, <1>3 DEF TypeOK
-----------------------------------------------------------------------------
(* The parts of the actions, and the types they preserve. *)

(* Emit keeps the messages' type. *)
LEMMA EmitType ==
    ASSUME PipeTypeOK, NEW s \in Slot, NEW m \in Message, Emit(s, m)
    PROVE  outbox' \in [Slot -> Message \cup {None}]
  BY DEF PipeTypeOK, Emit

(* Answering a request keeps the pipes' types. *)
LEMMA AnswerType ==
    ASSUME PipeTypeOK, NEW s \in Slot, NEW m \in Message, Answer(s, m)
    PROVE  PipeTypeOK'
  BY EmitType DEF PipeTypeOK, Answer

(* A process that ends keeps the types. *)
LEMMA ExitType ==
    ASSUME TypeOK, NEW s \in Slot, Exit(s)
    PROVE  ProcessTypeOK' /\ PipeTypeOK' /\ JobTypeOK'
  BY DEF TypeOK, ClusterTypeOK, AgentTypeOK, ProcessTypeOK, PipeTypeOK, JobTypeOK, Exit

(* Ending an apply keeps the types. *)
LEMMA EndJobType ==
    ASSUME TypeOK, NEW s \in Slot, NEW m \in Message, EndJob(s, m)
    PROVE  GraphTypeOK' /\ ProcessTypeOK' /\ PipeTypeOK' /\ JobTypeOK' /\ hobjects' = hobjects
  BY EmitType DEF TypeOK, ClusterTypeOK, AgentTypeOK, GraphTypeOK, ProcessTypeOK, PipeTypeOK,
                  JobTypeOK, EndJob, graphVars

(* Starting an apply keeps the types, given a target commit and a host. *)
LEMMA StartJobType ==
    ASSUME TypeOK, NEW s \in Slot, inbox[s].commit \in Commit, ahost[s] \in Host,
           NEW mode \in {"Deploy", "Reapply"}, StartJob(s, mode)
    PROVE  GraphTypeOK' /\ ProcessTypeOK' /\ PipeTypeOK' /\ JobTypeOK'
  <1>1. [mode |-> mode, base |-> current[ahost[s]], commit |-> inbox[s].commit] \in Job
    BY DEF TypeOK, AgentTypeOK, HostTypeOK, Job
  <1>2. QED
    BY <1>1 DEF TypeOK, ClusterTypeOK, AgentTypeOK, GraphTypeOK, ProcessTypeOK, PipeTypeOK,
                JobTypeOK, StartJob, graphVars

(* Dropping connections keeps the pipes' types. *)
LEMMA DropPipesType ==
    ASSUME PipeTypeOK, NEW S, DropPipes(S)
    PROVE  /\ stdin' \in [Slot -> BOOLEAN]
           /\ reader' \in [Slot -> BOOLEAN]
           /\ outbox' \in [Slot -> Message \cup {None}]
  BY DEF PipeTypeOK, DropPipes

(* Sending a request keeps the requests' type. *)
LEMMA SendToType ==
    ASSUME PipeTypeOK, NEW s, NEW r \in Request, SendTo(s, r)
    PROVE  inbox' \in [Slot -> Request \cup {None}]
  BY DEF PipeTypeOK, SendTo

(* Starting the threads of a command keeps their type. *)
LEMMA StartThreadsType ==
    ASSUME ThreadTypeOK, NEW o, NEW H, StartThreads(o, H)
    PROVE  thread' \in [Operator -> [Host -> ThreadState]]
  <1>1. [h \in Host |-> IF h \in H THEN "connect" ELSE "none"] \in [Host -> ThreadState]
    BY DEF ThreadState
  <1>2. QED
    BY <1>1, UpdateRow, Zenon DEF ThreadTypeOK, StartThreads

(* A thread that drops its connection keeps the types. *)
LEMMA HangupType ==
    ASSUME PipeTypeOK, ThreadTypeOK, NEW o, NEW h, NEW state \in ThreadState,
           Hangup(o, h, state)
    PROVE  PipeTypeOK' /\ ThreadTypeOK'
  <1>1. PipeTypeOK'
    BY DropPipesType DEF PipeTypeOK, Hangup
  <1>2. thread' \in [Operator -> [Host -> ThreadState]]
    BY Update, Zenon DEF ThreadTypeOK, Hangup
  <1>3. conn' \in [Operator -> [Host -> Slot \cup {None}]]
    <2>1. None \in Slot \cup {None}
      OBVIOUS
    <2>2. QED
      BY <2>1, Update, Zenon DEF ThreadTypeOK, Hangup
  <1>4. QED
    BY <1>1, <1>2, <1>3 DEF ThreadTypeOK, Hangup

(* A thread that reads a message keeps the types. *)
LEMMA ReceiveType ==
    ASSUME PipeTypeOK, ThreadTypeOK, NEW o, NEW h, NEW state \in ThreadState,
           Receive(o, h, state)
    PROVE  /\ PipeTypeOK'
           /\ thread' \in [Operator -> [Host -> ThreadState]]
           /\ conn' = conn /\ diverged' = diverged
  <1>1. PipeTypeOK'
    BY DEF PipeTypeOK, Receive
  <1>2. thread' \in [Operator -> [Host -> ThreadState]]
    BY Update, Zenon DEF ThreadTypeOK, Receive
  <1>3. QED
    BY <1>1, <1>2 DEF Receive

(* A command that ends keeps the types. *)
LEMMA EndCommandType ==
    ASSUME TypeOK, NEW o \in Operator, EndCommand(o)
    PROVE  TypeOK'
  <1>1. ClusterTypeOK' /\ AgentTypeOK' /\ StoreTypeOK'
    BY DropPipesType DEF TypeOK, ClusterTypeOK, AgentTypeOK, DriverTypeOK, GraphTypeOK,
         ProcessTypeOK, PipeTypeOK, HostTypeOK, JobTypeOK, StoreTypeOK, EndCommand,
         graphVars, processVars, hostVars, storeVars
  <1>2. CommandTypeOK'
    <2>1. NoPlan \in Plan
      BY DEF NoPlan, Plan, OptCommit
    <2>2. QED
      BY <2>1 DEF TypeOK, DriverTypeOK, CommandTypeOK, EndCommand
  <1>3. ThreadTypeOK'
    <2>1. ThreadTypeOK
      BY DEF TypeOK, DriverTypeOK
    <2>2. thread' \in [Operator -> [Host -> ThreadState]]
      BY <2>1, StartThreadsType DEF EndCommand
    <2>3. conn' \in [Operator -> [Host -> Slot \cup {None}]]
      <3>1. [h \in Host |-> None] \in [Host -> Slot \cup {None}]
        OBVIOUS
      <3>2. QED
        BY <2>1, <3>1, UpdateRow, Zenon DEF ThreadTypeOK, EndCommand
    <2>4. actual' \in [Operator -> [Host -> OptCommit]]
      <3>1. [h \in Host |-> None] \in [Host -> OptCommit]
        BY DEF OptCommit
      <3>2. QED
        BY <2>1, <3>1, UpdateRow, Zenon DEF ThreadTypeOK, EndCommand
    <2>5. diverged' \in [Operator -> [Host -> BOOLEAN]]
      <3>1. [h \in Host |-> FALSE] \in [Host -> BOOLEAN]
        OBVIOUS
      <3>2. QED
        BY <2>1, <3>1, UpdateRow, Zenon DEF ThreadTypeOK, EndCommand
    <2>6. QED
      BY <2>2, <2>3, <2>4, <2>5 DEF ThreadTypeOK
  <1>4. QED
    BY <1>1, <1>2, <1>3 DEF TypeOK, DriverTypeOK

(* The steps of an agent keep the types, one case per action. *)
LEMMA AgentType ==
    ASSUME TypeOK, ProcessInv, NEW s \in Slot, AgentStep(s) \/ AgentKilled(s)
    PROVE  ClusterTypeOK' /\ AgentTypeOK'
  <1> USE DEF ClusterTypeOK, AgentTypeOK
  <1>t. GraphTypeOK /\ ProcessTypeOK /\ PipeTypeOK /\ HostTypeOK /\ JobTypeOK
    BY DEF TypeOK
  <1>h. Live(s) => ahost[s] \in Host
    BY <1>t DEF ProcessInv, ProcessTypeOK
  <1>m. \A t \in MessageType : Msg(t) \in Message
    BY Constructors
  <1>1. CASE HandleLock(s)
    <2>1. LockAnswer(ahost[s], inbox[s].commit) \in Message
      BY <1>1, <1>t, <1>h, Constructors DEF HandleLock, LockAnswer, HostTypeOK, MessageType, Live
    <2>2. PipeTypeOK'
      BY <1>1, <1>t, <2>1, AnswerType DEF HandleLock
    <2>3. QED
      BY <1>1, <1>t, <2>2 DEF HandleLock, GraphTypeOK, ProcessTypeOK, HostTypeOK, JobTypeOK,
                              graphVars, hostVars
  <1>2. CASE HandleReceivePack(s)
    <2>1. PipeTypeOK'
      BY <1>2, <1>t, <1>m, AnswerType DEF HandleReceivePack, MessageType
    <2>2. HostTypeOK'
      BY <1>2, <1>t, <1>h, Fields DEF HandleReceivePack, PipeTypeOK, HostTypeOK, Asked
    <2>3. QED
      BY <1>2, <1>t, <2>1, <2>2 DEF HandleReceivePack, GraphTypeOK, ProcessTypeOK, JobTypeOK,
                                    graphVars, processVars
  <1>3. CASE HandleRequestObjects(s)
    <2> DEFINE want == current[ahost[s]]
               have == inbox[s].commit
               m == IF CanPack(hobjects[ahost[s]], want, have)
                      THEN MsgPack(Pack(anc, want, have)) ELSE Msg("ErrorPreApply")
    <2>1. want \in Commit /\ have \in OptCommit
      BY <1>3, <1>t, <1>h, Fields
         DEF HandleRequestObjects, HostTypeOK, PipeTypeOK, Asked, OptCommit
    <2>2. Pack(anc, want, have) \in SUBSET Commit
      BY <1>t, <2>1, PackType
    <2>3. m \in Message
      BY <1>m, <2>2, Constructors DEF MessageType
    <2>4. PipeTypeOK'
      <3>1. Answer(s, m)
        BY <1>3 DEF HandleRequestObjects
      <3>2. QED
        BY <1>t, <2>3, <3>1, AnswerType
    <2>5. QED
      BY <1>3, <1>t, <2>4 DEF HandleRequestObjects, GraphTypeOK, ProcessTypeOK, HostTypeOK,
                              JobTypeOK, graphVars, processVars, hostVars
  <1>4. CASE PreApplyError(s) \/ PrepareUnresolved(s)
    <2>1. PipeTypeOK'
      BY <1>4, <1>t, <1>m, AnswerType DEF PreApplyError, PrepareUnresolved, MessageType
    <2>2. QED
      BY <1>4, <1>t, <2>1 DEF PreApplyError, PrepareUnresolved, GraphTypeOK, ProcessTypeOK,
                              HostTypeOK, JobTypeOK, graphVars, processVars, hostVars
  <1>5. CASE PrepareDeploy(s) \/ PrepareReapply(s)
    <2>1. inbox[s].commit \in Commit /\ ahost[s] \in Host
      BY <1>5, <1>h DEF PrepareDeploy, PrepareReapply, ProcessInv, Live
    <2>2. GraphTypeOK' /\ ProcessTypeOK' /\ PipeTypeOK' /\ JobTypeOK'
      BY <1>5, <2>1, StartJobType DEF PrepareDeploy, PrepareReapply
    <2>3. HostTypeOK'
      BY <1>5, <1>t, <2>1 DEF PrepareDeploy, PrepareReapply, StartJob, HostTypeOK, OptCommit
    <2>4. QED
      BY <2>2, <2>3
  <1>6. CASE AgentPanic(s) \/ AgentExit(s) \/ AgentKilled(s)
    <2>1. Exit(s) /\ UNCHANGED <<graphVars, hostVars>>
      BY <1>6 DEF AgentPanic, AgentExit, AgentKilled
    <2>2. QED
      BY <1>t, <2>1, ExitType DEF GraphTypeOK, HostTypeOK, graphVars, hostVars
  <1>7. CASE SetCurrent(s)
    <2>1. ahost[s] \in Host /\ job[s].commit \in Commit
      BY <1>7, <1>t, <1>h, Fields DEF SetCurrent, ProcessInv, JobTypeOK, Live
    <2>2. QED
      BY <1>7, <1>t, <2>1 DEF SetCurrent, GraphTypeOK, ProcessTypeOK, PipeTypeOK, HostTypeOK,
           JobTypeOK, OptCommit, graphVars, pipeVars
  <1>8. CASE RecordHostname(s)
    <2>1. ahost[s] \in Host /\ job[s].commit \in OptCommit
      BY <1>8, <1>t, <1>h, Fields DEF RecordHostname, ProcessInv, JobTypeOK, Live, OptCommit
    <2>2. MsgCommit("ApplyComplete", job[s].commit) \in Message
      BY <2>1, Constructors DEF MessageType
    <2>3. QED
      BY <1>8, <1>t, <2>1, <2>2, EndJobType DEF RecordHostname, HostTypeOK, refVars
  <1>9. CASE RecordFails(s) \/ ApplyFails(s) \/ RollbackFails(s)
    <2>1. PICK t \in MessageType : EndJob(s, Msg(t)) /\ UNCHANGED <<refVars, deployedAs>>
      BY <1>9 DEF RecordFails, ApplyFails, RollbackFails, MessageType
    <2>2. QED
      BY <1>t, <1>m, <2>1, EndJobType DEF HostTypeOK, refVars
  <1>10. CASE StartRollback(s)
    BY <1>10, <1>t DEF StartRollback, GraphTypeOK, ProcessTypeOK, PipeTypeOK, HostTypeOK,
         JobTypeOK, graphVars, pipeVars, hostVars
  <1>11. CASE RollbackCompletes(s)
    <2>1. ahost[s] \in Host /\ job[s].base \in OptCommit
      BY <1>11, <1>t, <1>h, Fields DEF RollbackCompletes, ProcessInv, JobTypeOK, Live
    <2>2. target' \in [Host -> OptCommit]
      BY <1>11, <1>t, <2>1 DEF RollbackCompletes, HostTypeOK
    <2>3. Msg("RolledBack") \in Message
      BY <1>m DEF MessageType
    <2>4. QED
      BY <1>11, <1>t, <2>2, <2>3, EndJobType DEF RollbackCompletes, HostTypeOK
  <1>12. QED
    BY <1>1, <1>2, <1>3, <1>4, <1>5, <1>6, <1>7, <1>8, <1>9, <1>10, <1>11 DEF AgentStep

(* Reprovisioned and renamed machines keep the types. *)
LEMMA MachineType ==
    ASSUME TypeOK, NEW a \in Host, NEW b \in Host, Wipe(a) \/ Rename(a, b)
    PROVE  ClusterTypeOK' /\ AgentTypeOK'
  <1>1. CASE Wipe(a)
    BY <1>1 DEF TypeOK, ClusterTypeOK, AgentTypeOK, Wipe, GraphTypeOK, ProcessTypeOK, PipeTypeOK,
         HostTypeOK, JobTypeOK, OptCommit, graphVars, processVars, pipeVars
  <1>2. CASE Rename(a, b)
    BY <1>2 DEF TypeOK, ClusterTypeOK, AgentTypeOK, Rename, Swap, GraphTypeOK, ProcessTypeOK,
         PipeTypeOK, HostTypeOK, JobTypeOK, OptCommit, graphVars, processVars, pipeVars
  <1>3. QED
    BY <1>1, <1>2

(* Going on means that every host of the command was locked, so that all   *)
(* of its threads push.                                                    *)
LEMMA ProceedThreads ==
    ASSUME thread \in [Operator -> [Host -> ThreadState]],
           NEW o \in Operator, ProceedDeploy(o) \/ ProceedReapply(o)
    PROVE  /\ \A h \in Host : thread'[o][h] = IF thread[o][h] # "none" THEN "push" ELSE "none"
           /\ \A p \in Operator : p # o => thread'[p] = thread[p]
           /\ thread' \in [Operator -> [Host -> ThreadState]]
  <1> DEFINE row == [h \in Host |-> IF thread[o][h] = "locked" THEN "push" ELSE thread[o][h]]
  <1>1. \A h \in Host : thread[o][h] \in {"none", "locked"}
    BY DEF ProceedDeploy, ProceedReapply, AllLocked, Planned
  <1>2. thread' = [thread EXCEPT ![o] = row]
    BY DEF ProceedDeploy, ProceedReapply, StartApplying
  <1>3. row \in [Host -> ThreadState]
    BY DEF ThreadState
  <1>4. \A h \in Host : row[h] = IF thread[o][h] # "none" THEN "push" ELSE "none"
    BY <1>1
  <1>5. thread'[o] = row /\ \A p \in Operator : p # o => thread'[p] = thread[p]
    BY <1>2
  <1>6. thread' \in [Operator -> [Host -> ThreadState]]
    BY <1>2, <1>3, UpdateRow, Zenon
  <1>7. QED
    BY <1>4, <1>5, <1>6

(* The actions of the actors, one case per action. *)
LEMMA OperatorType ==
    ASSUME TypeOK, NEW o \in Operator, OperatorStep(o) \/ CommandStep(o) \/ DriverCrash(o)
    PROVE  TypeOK'
  <1> USE DEF ClusterTypeOK, AgentTypeOK, DriverTypeOK
  <1>t. /\ GraphTypeOK /\ ProcessTypeOK /\ PipeTypeOK /\ HostTypeOK /\ JobTypeOK
        /\ StoreTypeOK /\ CommandTypeOK /\ ThreadTypeOK
    BY DEF TypeOK
  <1>u. /\ UNCHANGED graphVars => GraphTypeOK'
        /\ UNCHANGED <<processVars, pipeVars, hostVars, job>> =>
             ProcessTypeOK' /\ PipeTypeOK' /\ HostTypeOK' /\ JobTypeOK'
        /\ UNCHANGED storeVars => StoreTypeOK'
        /\ UNCHANGED threadVars => ThreadTypeOK'
    BY <1>t DEF GraphTypeOK, ProcessTypeOK, PipeTypeOK, HostTypeOK, JobTypeOK, StoreTypeOK,
         ThreadTypeOK, graphVars, processVars, pipeVars, hostVars, storeVars, threadVars
  <1>1. ASSUME NEW g \in Config, NEW c \in Commit, NEW limit, MakePlan(o, g, limit, c)
        PROVE  TypeOK'
    <2> DEFINE H == Changed(o, g, limit)
    <2>1. \A h \in Host : Tracked(o, h) \in OptCommit
      BY <1>t DEF Tracked, StoreTypeOK, OptCommit
    <2>2. PlanParents(o, H) \in SUBSET Commit
      <3>1. H \subseteq Host
        BY <1>1, ConstantsAssumption DEF MakePlan, Changed
      <3>2. QED
        BY <2>1, <3>1 DEF PlanParents, Frontier, OptCommit
    <2>3. Ancestry(anc, PlanParents(o, H)) \in SUBSET Commit
      BY <1>t, <2>2 DEF Ancestry, History, GraphTypeOK
    <2>4. GraphTypeOK'
      BY <1>1, <1>t, <2>3 DEF MakePlan, GraphTypeOK
    <2>5. StoreTypeOK'
      BY <1>1, <1>t DEF MakePlan, StoreTypeOK
    <2>6. CommandTypeOK'
      <3> DEFINE p == [commit   |-> c,
                       expected |-> [h \in Host |-> IF h \in H THEN Tracked(o, h) ELSE None],
                       safe     |-> [h \in Host |->
                           h \in H /\ HostPlanSafe(HostApps(Tracked(o, h), h), TreeOf[g][h])]]
      <3>1. p.expected \in [Host -> OptCommit]
        BY <2>1 DEF OptCommit
      <3>2. p.safe \in [Host -> BOOLEAN]
        OBVIOUS
      <3>3. p \in Plan
        BY <3>1, <3>2 DEF Plan, OptCommit
      <3>4. plan' = [plan EXCEPT ![o] = p]
        BY <1>1 DEF MakePlan
      <3> HIDE DEF p
      <3>5. QED
        BY <1>1, <1>t, <3>3, <3>4 DEF MakePlan, CommandTypeOK, CommandKind
    <2>7. ThreadTypeOK'
      BY <1>1, <1>t, StartThreadsType DEF MakePlan, ThreadTypeOK
    <2>8. QED
      BY <1>1, <1>u, <2>4, <2>5, <2>6, <2>7 DEF MakePlan, TypeOK
  <1>2. ASSUME NEW H, StartReapply(o, H) \/ StartSync(o, H)
        PROVE  TypeOK'
    <2>1. PICK command \in CommandKind, first \in {"confirm", "locking"} :
               Select(o, command, first, H)
      BY <1>2 DEF StartReapply, StartSync, CommandKind
    <2>2. CommandTypeOK'
      <3> DEFINE p == [NoPlan EXCEPT !.expected =
                          [h \in Host |-> IF h \in H THEN Tracked(o, h) ELSE None]]
      <3>1. \A h \in Host : Tracked(o, h) \in OptCommit
        BY <1>t DEF Tracked, StoreTypeOK, OptCommit
      <3>2. p \in Plan
        BY <3>1 DEF NoPlan, Plan, OptCommit
      <3>3. plan' = [plan EXCEPT ![o] = p]
        BY <2>1 DEF Select
      <3> HIDE DEF p
      <3>4. QED
        BY <1>t, <2>1, <3>2, <3>3 DEF Select, CommandTypeOK
    <2>3. ThreadTypeOK'
      BY <1>t, <2>1, StartThreadsType DEF Select, ThreadTypeOK
    <2>4. QED
      BY <1>u, <2>1, <2>2, <2>3 DEF Select, TypeOK
  <1>3. CASE Confirm(o) \/ StartFetching(o)
    <2>1. CommandTypeOK'
      BY <1>3, <1>t DEF Confirm, StartFetching, CommandTypeOK
    <2>2. QED
      BY <1>3, <1>u, <2>1 DEF Confirm, StartFetching, TypeOK
  <1>4. CASE ProceedDeploy(o) \/ ProceedReapply(o)
    <2>1. StartApplying(o)
      BY <1>4 DEF ProceedDeploy, ProceedReapply
    <2>2. StoreTypeOK'
      BY <1>4, <1>t, <2>1, Fields
         DEF ProceedDeploy, ProceedReapply, StartApplying, StoreTypeOK, CommandTypeOK
    <2>3. CommandTypeOK'
      BY <1>t, <2>1 DEF StartApplying, CommandTypeOK
    <2>4. ThreadTypeOK'
      <3>1. thread' \in [Operator -> [Host -> ThreadState]]
        BY <1>4, <1>t, ProceedThreads DEF ThreadTypeOK
      <3>2. QED
        BY <1>t, <2>1, <3>1 DEF StartApplying, ThreadTypeOK
    <2>5. QED
      BY <1>u, <2>1, <2>2, <2>3, <2>4 DEF StartApplying, TypeOK
  <1>5. CASE Decline(o) \/ RefuseReapply(o) \/ Finish(o) \/ DriverCrash(o)
    BY <1>5, EndCommandType DEF Decline, RefuseReapply, Finish, DriverCrash
  <1>6. QED
    BY <1>1, <1>2, <1>3, <1>4, <1>5 DEF OperatorStep, CommandStep

(* The steps of a driver thread keep the types, one case per action. *)
LEMMA ThreadType ==
    ASSUME TypeOK, CommandInv, ConnInv, NEW o \in Operator, NEW h \in Host,
           \/ Connect(o, h) \/ ThreadStep(o, h)
           \/ ConnectFails(o, h) \/ ConnectionLost(o, h)
    PROVE  TypeOK'
  <1> USE DEF ClusterTypeOK, AgentTypeOK, DriverTypeOK
  <1>t. /\ GraphTypeOK /\ ProcessTypeOK /\ PipeTypeOK /\ HostTypeOK /\ JobTypeOK
        /\ StoreTypeOK /\ CommandTypeOK /\ ThreadTypeOK
    BY DEF TypeOK
  <1>u. /\ UNCHANGED <<graphVars, hostVars, job>> => GraphTypeOK' /\ HostTypeOK' /\ JobTypeOK'
        /\ UNCHANGED processVars => ProcessTypeOK'
        /\ UNCHANGED storeVars => StoreTypeOK'
        /\ UNCHANGED commandVars => CommandTypeOK'
    BY <1>t DEF GraphTypeOK, HostTypeOK, JobTypeOK, ProcessTypeOK, StoreTypeOK, CommandTypeOK,
         graphVars, hostVars, processVars, storeVars, commandVars
  <1>p. /\ plan[o].commit \in OptCommit
        /\ plan[o].expected[h] \in OptCommit
        /\ plan[o].safe[h] \in BOOLEAN
    BY <1>t, Fields DEF CommandTypeOK
  <1>1. ASSUME NEW s \in Slot, ConnectAndLock(o, h, s) PROVE TypeOK'
    <2>1. LockRequest(plan[o].expected[h]) \in Request
      BY <1>p, Constructors
    <2>2. PipeTypeOK'
      BY <1>1, <1>t, <2>1 DEF ConnectAndLock, Spawn, PipeTypeOK
    <2>3. ProcessTypeOK'
      BY <1>1, <1>t DEF ConnectAndLock, Spawn, ProcessTypeOK
    <2>4. thread' \in [Operator -> [Host -> ThreadState]]
      BY <1>1, <1>t, Update, Zenon DEF ConnectAndLock, ThreadTypeOK, ThreadState
    <2>5. conn' \in [Operator -> [Host -> Slot \cup {None}]]
      BY <1>1, <1>t, Update, Zenon DEF ConnectAndLock, ThreadTypeOK
    <2>6. diverged' \in [Operator -> [Host -> BOOLEAN]]
      <3>1. (cmd[o] = "reapply" /\ target[h] # current[h]) \in BOOLEAN
        OBVIOUS
      <3>2. QED
        BY <1>1, <1>t, <3>1, Update, Zenon DEF ConnectAndLock, ThreadTypeOK
    <2>7. QED
      BY <1>1, <1>t, <1>u, <2>2, <2>3, <2>4, <2>5, <2>6 DEF ConnectAndLock, ThreadTypeOK, TypeOK
  <1>2. ASSUME NEW s \in Slot, ConnectForSync(o, h, s) PROVE TypeOK'
    <2> DEFINE stale == current[h] # plan[o].expected[h]
    <2>1. PipeTypeOK' /\ ProcessTypeOK'
      BY <1>2, <1>t DEF ConnectForSync, Spawn, PipeTypeOK, ProcessTypeOK
    <2>2. /\ (IF stale THEN s ELSE None) \in Slot \cup {None}
          /\ (IF stale THEN "stale" ELSE "uptodate") \in ThreadState
          /\ (IF stale THEN current[h] ELSE None) \in OptCommit
      BY <1>t DEF HostTypeOK, OptCommit, ThreadState
    <2>3. thread' \in [Operator -> [Host -> ThreadState]]
      BY <1>2, <1>t, <2>2, Update, Zenon DEF ConnectForSync, ThreadTypeOK
    <2>4. conn' \in [Operator -> [Host -> Slot \cup {None}]]
      BY <1>2, <1>t, <2>2, Update, Zenon DEF ConnectForSync, ThreadTypeOK
    <2>5. actual' \in [Operator -> [Host -> OptCommit]]
      BY <1>2, <1>t, <2>2, Update, Zenon DEF ConnectForSync, ThreadTypeOK
    <2>6. QED
      BY <1>2, <1>t, <1>u, <2>1, <2>3, <2>4, <2>5 DEF ConnectForSync, ThreadTypeOK, TypeOK
  <1>3. CASE ConnectFails(o, h)
    <2>1. thread' \in [Operator -> [Host -> ThreadState]]
      BY <1>3, <1>t, Update, Zenon DEF ConnectFails, ThreadTypeOK, ThreadState
    <2>2. QED
      BY <1>3, <1>t, <1>u, <2>1 DEF ConnectFails, ThreadTypeOK, PipeTypeOK, pipeVars, TypeOK
  <1>4. CASE ReadLock(o, h)
    <2>1. PipeTypeOK' /\ ThreadTypeOK'
      <3>1. CASE Got(o, h) = "Locked"
        BY <1>4, <1>t, <3>1, ReceiveType DEF ReadLock, ThreadState, ThreadTypeOK
      <3>2. CASE Got(o, h) = "LockStale"
        <4>1. outbox[conn[o][h]].commit \in OptCommit
          BY <1>4, <1>t, Fields DEF ReadLock, HasMessage, PipeTypeOK, ThreadTypeOK
        <4>2. actual' = [actual EXCEPT ![o][h] = outbox[conn[o][h]].commit]
          BY <1>4, <3>2 DEF ReadLock
        <4>3. actual' \in [Operator -> [Host -> OptCommit]]
          BY <1>t, <4>1, <4>2, Update, Zenon DEF ThreadTypeOK
        <4>4. Receive(o, h, "stale")
          BY <1>4, <3>2 DEF ReadLock
        <4>5. QED
          BY <1>t, <4>3, <4>4, ReceiveType DEF ThreadState, ThreadTypeOK
      <3>3. CASE Got(o, h) \notin {"Locked", "LockStale"}
        BY <1>4, <1>t, <3>3, HangupType DEF ReadLock, ThreadState
      <3>4. QED
        BY <3>1, <3>2, <3>3
    <2>2. QED
      BY <1>4, <1>u, <2>1 DEF ReadLock, TypeOK
  <1>5. CASE FetchStale(o, h)
    <2>1. FetchedRef(o, h) \in OptCommit
      BY <1>t DEF FetchedRef, ThreadTypeOK
    <2>2. CASE NothingToFetch(o, actual[o][h])
      <3>1. tracking' \in [Operator -> [Host -> OptCommit]]
        <4>1. tracking' = [tracking EXCEPT ![o][h] = FetchedRef(o, h)]
          BY <1>5, <2>2 DEF FetchStale
        <4>2. QED
          BY <1>t, <2>1, <4>1, Update, Zenon DEF StoreTypeOK
      <3>2. PipeTypeOK' /\ ThreadTypeOK'
        BY <1>5, <1>t, <2>2, HangupType DEF FetchStale, ThreadState
      <3>3. QED
        BY <1>5, <1>t, <1>u, <3>1, <3>2 DEF FetchStale, StoreTypeOK, TypeOK
    <2>3. CASE ~NothingToFetch(o, actual[o][h])
      <3>1. ObjectsRequest(plan[o].expected[h]) \in Request
        BY <1>p, Constructors
      <3>2. inbox' \in [Slot -> Request \cup {None}]
        BY <1>5, <1>t, <2>3, <3>1, SendToType DEF FetchStale
      <3>3. thread' \in [Operator -> [Host -> ThreadState]]
        <4>1. thread' = [thread EXCEPT ![o][h] = "fetch"]
          BY <1>5, <2>3 DEF FetchStale
        <4>2. QED
          BY <1>t, <4>1, Update, Zenon DEF ThreadTypeOK, ThreadState
      <3>4. QED
        BY <1>5, <1>t, <1>u, <2>3, <3>2, <3>3
           DEF FetchStale, PipeTypeOK, ThreadTypeOK, StoreTypeOK, storeVars, TypeOK
    <2>4. QED
      BY <2>2, <2>3
  <1>6. CASE ReadObjects(o, h)
    <2>1. FetchedRef(o, h) \in OptCommit
      BY <1>t DEF FetchedRef, ThreadTypeOK
    <2>2. objects' \in [Operator -> SUBSET Commit]
      <3>1. outbox[conn[o][h]].pack \in SUBSET Commit
        BY <1>6, <1>t, Fields DEF ReadObjects, HasMessage, PipeTypeOK, ThreadTypeOK
      <3>2. QED
        BY <1>6, <1>t, <3>1 DEF ReadObjects, StoreTypeOK
    <2>3. tracking' \in [Operator -> [Host -> OptCommit]]
      <3>1. \/ tracking' = tracking
            \/ tracking' = [tracking EXCEPT ![o][h] = FetchedRef(o, h)]
        BY <1>6 DEF ReadObjects
      <3>2. tracking \in [Operator -> [Host -> OptCommit]]
        BY <1>t DEF StoreTypeOK
      <3>3. [tracking EXCEPT ![o][h] = FetchedRef(o, h)] \in [Operator -> [Host -> OptCommit]]
        BY <2>1, <3>2, Update, Zenon
      <3>4. QED
        BY <3>1, <3>2, <3>3, Zenon
    <2>4. Hangup(o, h, "fetched") \/ Hangup(o, h, "failed")
      BY <1>6 DEF ReadObjects
    <2>5. PipeTypeOK' /\ ThreadTypeOK'
      BY <1>t, <2>4, HangupType DEF ThreadState
    <2>6. QED
      BY <1>6, <1>t, <1>u, <2>2, <2>3, <2>5 DEF ReadObjects, StoreTypeOK, TypeOK
  <1>7. CASE SendPack(o, h)
    <2>1. Pack(anc, plan[o].commit, plan[o].expected[h]) \in SUBSET Commit
      BY <1>7, <1>t, <1>p, PackType DEF SendPack, CommandInv
    <2>2. ReceivePackRequest(Pack(anc, plan[o].commit, plan[o].expected[h])) \in Request
      BY <2>1, Constructors
    <2>3. inbox' \in [Slot -> Request \cup {None}]
      BY <1>7, <1>t, <2>2, SendToType DEF SendPack
    <2>4. thread' \in [Operator -> [Host -> ThreadState]]
      BY <1>7, <1>t, Update, Zenon DEF SendPack, ThreadTypeOK, ThreadState
    <2>5. QED
      BY <1>7, <1>t, <1>u, <2>3, <2>4 DEF SendPack, PipeTypeOK, ThreadTypeOK, TypeOK
  <1>8. CASE ReadPackReceived(o, h)
    <2>1. PipeTypeOK' /\ ThreadTypeOK'
      <3>1. CASE Got(o, h) = "PackReceived"
        <4>1. ApplyDeploy(plan[o].commit, plan[o].safe[h]) \in Request
          BY <1>p, Constructors
        <4>2. inbox' \in [Slot -> Request \cup {None}]
          BY <1>8, <1>t, <3>1, <4>1, SendToType DEF ReadPackReceived, SendApply
        <4>3. thread' = [thread EXCEPT ![o][h] = "applying"]
          BY <1>8, <3>1 DEF ReadPackReceived
        <4>4. thread' \in [Operator -> [Host -> ThreadState]]
          BY <1>t, <4>3, Update, Zenon DEF ThreadTypeOK, ThreadState
        <4>5. QED
          BY <1>8, <1>t, <3>1, <4>2, <4>4 DEF ReadPackReceived, SendApply, PipeTypeOK, ThreadTypeOK
      <3>2. CASE Got(o, h) # "PackReceived"
        BY <1>8, <1>t, <3>2, HangupType DEF ReadPackReceived, ThreadState
      <3>3. QED
        BY <3>1, <3>2
    <2>2. QED
      BY <1>8, <1>u, <2>1 DEF ReadPackReceived, TypeOK
  <1>9. CASE SendReapply(o, h)
    <2>1. ApplyReapply(plan[o].expected[h]) \in Request
      BY <1>p, Constructors
    <2>2. inbox' \in [Slot -> Request \cup {None}]
      BY <1>9, <1>t, <2>1, SendToType DEF SendReapply, SendApply
    <2>3. thread' \in [Operator -> [Host -> ThreadState]]
      BY <1>9, <1>t, Update, Zenon DEF SendReapply, ThreadTypeOK, ThreadState
    <2>4. QED
      BY <1>9, <1>t, <1>u, <2>2, <2>3
         DEF SendReapply, SendApply, PipeTypeOK, ThreadTypeOK, TypeOK
  <1>10. CASE ReadApply(o, h)
    <2>1. \/ Receive(o, h, "applied") /\ UNCHANGED actual
          \/ Hangup(o, h, "rolledback")
          \/ Hangup(o, h, "failed")
      BY <1>10 DEF ReadApply
    <2>2. PipeTypeOK' /\ ThreadTypeOK'
      BY <1>t, <2>1, ReceiveType, HangupType DEF ThreadState, ThreadTypeOK
    <2>3. QED
      BY <1>10, <1>u, <2>2 DEF ReadApply, TypeOK
  <1>11. CASE ReadApplied(o, h)
    <2>1. tracking' \in [Operator -> [Host -> OptCommit]]
      <3>1. \/ tracking' = tracking
            \/ tracking' = [tracking EXCEPT ![o][h] = plan[o].commit]
        BY <1>11 DEF ReadApplied
      <3>2. tracking \in [Operator -> [Host -> OptCommit]]
        BY <1>t DEF StoreTypeOK
      <3>3. [tracking EXCEPT ![o][h] = plan[o].commit] \in [Operator -> [Host -> OptCommit]]
        BY <1>p, <3>2, Update, Zenon
      <3>4. QED
        BY <3>1, <3>2, <3>3, Zenon
    <2>2. PipeTypeOK' /\ ThreadTypeOK'
      BY <1>11, <1>t, HangupType DEF ReadApplied, ThreadState
    <2>3. QED
      BY <1>11, <1>t, <1>u, <2>1, <2>2 DEF ReadApplied, StoreTypeOK, TypeOK
  <1>12. CASE ReadEOF(o, h)
    <2>1. PipeTypeOK' /\ ThreadTypeOK'
      BY <1>12, <1>t, HangupType DEF ReadEOF, LostState, ThreadState
    <2>2. QED
      BY <1>12, <1>u, <2>1 DEF ReadEOF, TypeOK
  <1>13. CASE ConnectionLost(o, h)
    <2>1. PipeTypeOK'
      BY <1>13, <1>t, DropPipesType DEF ConnectionLost, PipeTypeOK
    <2>2. thread' \in [Operator -> [Host -> ThreadState]]
      <3>1. thread' = [thread EXCEPT ![o][h] = LostState(thread[o][h])]
        BY <1>13, <1>t DEF ConnectionLost, ThreadTypeOK
      <3>2. LostState(thread[o][h]) \in ThreadState
        BY DEF LostState, ThreadState
      <3>3. QED
        BY <1>t, <3>1, <3>2, Update, Zenon DEF ThreadTypeOK
    <2>3. conn' \in [Operator -> [Host -> Slot \cup {None}]]
      <3>1. None \in Slot \cup {None}
        OBVIOUS
      <3>2. QED
        BY <1>13, <1>t, <3>1, Update, Zenon DEF ConnectionLost, ThreadTypeOK
    <2>4. QED
      BY <1>13, <1>t, <1>u, <2>1, <2>2, <2>3 DEF ConnectionLost, ThreadTypeOK, TypeOK
  <1>14. QED
    BY <1>1, <1>2, <1>3, <1>4, <1>5, <1>6, <1>7, <1>8, <1>9, <1>10, <1>11, <1>12, <1>13
       DEF Connect, ThreadStep

(* Every step keeps the types. *)
LEMMA NextType ==
    ASSUME TypeOK, ProcessInv, CommandInv, ConnInv, [Next]_vars
    PROVE  TypeOK'
  <1>1. ASSUME HostSide PROVE TypeOK'
    <2>1. ClusterTypeOK' /\ AgentTypeOK'
      BY <1>1, AgentType, MachineType DEF HostSide
    <2>2. DriverTypeOK'
      BY <1>1 DEF HostSide, TypeOK, DriverTypeOK, StoreTypeOK, CommandTypeOK, ThreadTypeOK,
           driverVars, storeVars, commandVars, threadVars
    <2>3. QED
      BY <2>1, <2>2 DEF TypeOK
  <1>2. ASSUME DriverSide PROVE TypeOK'
    BY <1>2, OperatorType, ThreadType DEF DriverSide, DriverFault
  <1>3. ASSUME UNCHANGED vars PROVE TypeOK'
    BY <1>3 DEF vars, TypeOK, ClusterTypeOK, AgentTypeOK, DriverTypeOK, GraphTypeOK,
         ProcessTypeOK, PipeTypeOK, HostTypeOK, JobTypeOK, StoreTypeOK, CommandTypeOK,
         ThreadTypeOK, graphVars, processVars, pipeVars, hostVars, driverVars, storeVars,
         commandVars, threadVars
  <1>4. QED
    BY <1>1, <1>2, <1>3 DEF Next
-----------------------------------------------------------------------------
(* What a thread does to the table of thread states: it moves its own      *)
(* entry, after the operator confirmed, to a state of a running command.   *)
Moves(o, h) ==
    /\ \A p \in Operator, g \in Host : p # o \/ g # h => thread'[p][g] = thread[p][g]
    /\ thread'[o][h] # "none"
    /\ thread'[o][h] = "pushing" => cmd[o] = "deploy"

(* What a thread's step does to its command: nothing. *)
LEMMA ThreadMoves ==
    ASSUME TypeOK, CommandInv, NEW o \in Operator, NEW h \in Host,
           \/ Connect(o, h) \/ ThreadStep(o, h)
           \/ ConnectFails(o, h) \/ ConnectionLost(o, h)
    PROVE  /\ UNCHANGED commandVars
           /\ phase[o] \notin {"idle", "confirm"}
           /\ thread[o][h] # "none"
           /\ Moves(o, h)
  <1> DEFINE Sets(state) == thread' = [thread EXCEPT ![o][h] = state]
  <1>t. thread \in [Operator -> [Host -> ThreadState]]
    BY DEF TypeOK, DriverTypeOK, ThreadTypeOK
  <1>p. thread[o][h] \notin {"none", "connect"} => phase[o] \notin {"idle", "confirm"}
    BY DEF CommandInv
  <1>1. ASSUME NEW s \in Slot, ConnectAndLock(o, h, s)
        PROVE  /\ UNCHANGED commandVars /\ phase[o] = "locking"
               /\ thread[o][h] = "connect" /\ Moves(o, h)
    <2>1. Sets("lock")
      BY <1>1 DEF ConnectAndLock
    <2>2. Moves(o, h)
      BY <1>t, <2>1 DEF Moves
    <2>3. QED
      BY <1>1, <2>2 DEF ConnectAndLock
  <1>2. ASSUME NEW s \in Slot, ConnectForSync(o, h, s)
        PROVE  /\ UNCHANGED commandVars /\ phase[o] = "locking"
               /\ thread[o][h] = "connect" /\ Moves(o, h)
    <2>1. Sets("stale") \/ Sets("uptodate")
      BY <1>2 DEF ConnectForSync
    <2>2. Moves(o, h)
      BY <1>t, <2>1 DEF Moves
    <2>3. QED
      BY <1>2, <2>2 DEF ConnectForSync
  <1>3. CASE ConnectFails(o, h)
    <2>1. Sets("refused")
      BY <1>3 DEF ConnectFails
    <2>2. Moves(o, h)
      BY <1>t, <2>1 DEF Moves
    <2>3. QED
      BY <1>3, <1>p, <2>2 DEF ConnectFails
  <1>4. CASE ReadLock(o, h)
    <2>1. Sets("locked") \/ Sets("stale") \/ Sets("refused")
      BY <1>4 DEF ReadLock, Receive, Hangup
    <2>2. Moves(o, h)
      BY <1>t, <2>1 DEF Moves
    <2>3. QED
      BY <1>4, <1>p, <2>2 DEF ReadLock
  <1>5. CASE FetchStale(o, h)
    <2>1. Sets("fetched") \/ Sets("fetch")
      BY <1>5 DEF FetchStale, Hangup
    <2>2. Moves(o, h)
      BY <1>t, <2>1 DEF Moves
    <2>3. QED
      BY <1>5, <1>p, <2>2 DEF FetchStale
  <1>6. CASE ReadObjects(o, h)
    <2>1. Sets("fetched") \/ Sets("failed")
      BY <1>6 DEF ReadObjects, Hangup
    <2>2. Moves(o, h)
      BY <1>t, <2>1 DEF Moves
    <2>3. QED
      BY <1>6, <1>p, <2>2 DEF ReadObjects
  <1>7. CASE SendPack(o, h)
    <2>1. Sets("pushing")
      BY <1>7 DEF SendPack
    <2>2. Moves(o, h)
      BY <1>t, <2>1, <1>7 DEF Moves, SendPack
    <2>3. QED
      BY <1>7, <1>p, <2>2 DEF SendPack
  <1>8. CASE ReadPackReceived(o, h)
    <2>1. Sets("applying") \/ Sets("failed")
      BY <1>8 DEF ReadPackReceived, Hangup
    <2>2. Moves(o, h)
      BY <1>t, <2>1 DEF Moves
    <2>3. QED
      BY <1>8, <1>p, <2>2 DEF ReadPackReceived
  <1>9. CASE SendReapply(o, h)
    <2>1. Sets("applying")
      BY <1>9 DEF SendReapply
    <2>2. Moves(o, h)
      BY <1>t, <2>1 DEF Moves
    <2>3. QED
      BY <1>9, <1>p, <2>2 DEF SendReapply
  <1>10. CASE ReadApply(o, h)
    <2>1. Sets("applied") \/ Sets("rolledback") \/ Sets("failed")
      BY <1>10 DEF ReadApply, Receive, Hangup
    <2>2. Moves(o, h)
      BY <1>t, <2>1 DEF Moves
    <2>3. QED
      BY <1>10, <1>p, <2>2 DEF ReadApply
  <1>11. CASE ReadApplied(o, h)
    <2>1. Sets("done")
      BY <1>11 DEF ReadApplied, Hangup
    <2>2. Moves(o, h)
      BY <1>t, <2>1 DEF Moves
    <2>3. QED
      BY <1>11, <1>p, <2>2 DEF ReadApplied
  <1>12. CASE ReadEOF(o, h)
    <2>1. Sets("refused") \/ Sets("failed")
      BY <1>12 DEF ReadEOF, LostState, Hangup
    <2>2. Moves(o, h)
      BY <1>t, <2>1 DEF Moves
    <2>3. QED
      BY <1>12, <1>p, <2>2 DEF ReadEOF, Waiting
  <1>13. CASE ConnectionLost(o, h)
    <2>1. Sets(LostState(thread[o][h]))
      BY <1>13, <1>t DEF ConnectionLost
    <2>2. Sets("refused") \/ Sets("failed")
      BY <2>1 DEF LostState
    <2>3. Moves(o, h)
      BY <1>t, <2>2 DEF Moves
    <2>4. QED
      BY <1>13, <1>p, <2>3 DEF ConnectionLost, Waiting
  <1>14. QED
    BY <1>1, <1>2, <1>3, <1>4, <1>5, <1>6, <1>7, <1>8, <1>9, <1>10, <1>11, <1>12, <1>13 DEF Connect, ThreadStep

(* CommandInv is about the drivers only. *)
LEMMA NextCommand ==
    ASSUME TypeOK, CommandInv, [Next]_vars
    PROVE  CommandInv'
  <1>t. CommandTypeOK /\ ThreadTypeOK
    BY DEF TypeOK, DriverTypeOK
  <1>1. CASE UNCHANGED driverVars
    BY <1>1 DEF CommandInv, driverVars, commandVars, threadVars
  <1>2. ASSUME NEW o \in Operator, NEW h \in Host,
               \/ Connect(o, h) \/ ThreadStep(o, h)
               \/ ConnectFails(o, h) \/ ConnectionLost(o, h)
        PROVE  CommandInv'
    <2>1. /\ UNCHANGED commandVars
          /\ phase[o] \notin {"idle", "confirm"}
          /\ thread[o][h] # "none"
          /\ Moves(o, h)
      BY <1>2, ThreadMoves
    <2>2. QED
      BY <2>1 DEF CommandInv, Moves, commandVars
  <1>3. ASSUME NEW o \in Operator, OperatorStep(o) \/ CommandStep(o) \/ DriverCrash(o)
        PROVE  CommandInv'
    <2>1. ASSUME NEW g \in Config, NEW c \in Commit, NEW limit, MakePlan(o, g, limit, c)
          PROVE  CommandInv'
      <3>1. /\ plan'[o].commit = c /\ cmd'[o] = "deploy" /\ phase'[o] = "confirm"
            /\ \A h \in Host : thread'[o][h] \in {"none", "connect"}
        BY <1>t, <2>1 DEF MakePlan, StartThreads, CommandTypeOK, ThreadTypeOK
      <3>2. \A p \in Operator : p # o =>
               /\ plan'[p] = plan[p] /\ cmd'[p] = cmd[p] /\ phase'[p] = phase[p]
               /\ thread'[p] = thread[p]
        BY <1>t, <2>1 DEF MakePlan, StartThreads, CommandTypeOK, ThreadTypeOK
      <3>3. QED
        BY <3>1, <3>2 DEF CommandInv
    <2>2. ASSUME NEW H, StartReapply(o, H) \/ StartSync(o, H)
          PROVE  CommandInv'
      <3>1. PICK command \in {"reapply", "sync"}, first \in {"confirm", "locking"} :
               /\ Select(o, command, first, H)
               /\ command = "reapply" => \A h \in H : Tracked(o, h) # None
        BY <2>2 DEF StartReapply, StartSync
      <3>2. /\ plan'[o].expected = [h \in Host |-> IF h \in H THEN Tracked(o, h) ELSE None]
            /\ cmd'[o] = command
            /\ thread'[o] = [h \in Host |-> IF h \in H THEN "connect" ELSE "none"]
        BY <1>t, <3>1 DEF Select, StartThreads, CommandTypeOK, ThreadTypeOK, NoPlan
      <3>3. \A h \in H \cap Host : command = "reapply" => Tracked(o, h) \in Commit
        BY <3>1 DEF Tracked, TypeOK, DriverTypeOK, StoreTypeOK, OptCommit
      <3>4. \A p \in Operator : p # o =>
               /\ plan'[p] = plan[p] /\ cmd'[p] = cmd[p] /\ phase'[p] = phase[p]
               /\ thread'[p] = thread[p]
        BY <1>t, <3>1 DEF Select, StartThreads, CommandTypeOK, ThreadTypeOK
      <3>5. QED
        BY <3>2, <3>3, <3>4 DEF CommandInv
    <2>3. CASE Confirm(o) \/ StartFetching(o)
      BY <1>t, <2>3 DEF Confirm, StartFetching, Joined, CommandInv, CommandTypeOK, threadVars
    <2>4. CASE ProceedDeploy(o) \/ ProceedReapply(o)
      <3>1. /\ phase' = [phase EXCEPT ![o] = "applying"]
            /\ cmd' = cmd /\ plan' = plan
            /\ \A h \in Host : thread'[o][h] = IF thread[o][h] # "none" THEN "push" ELSE "none"
            /\ \A p \in Operator : p # o => thread'[p] = thread[p]
        BY <1>t, <2>4, ProceedThreads
           DEF ProceedDeploy, ProceedReapply, StartApplying, ThreadTypeOK
      <3>2. QED
        BY <1>t, <3>1 DEF CommandInv, CommandTypeOK
    <2>5. CASE Decline(o) \/ RefuseReapply(o) \/ Finish(o) \/ DriverCrash(o)
      <3>1. EndCommand(o)
        BY <2>5 DEF Decline, RefuseReapply, Finish, DriverCrash
      <3>2. /\ cmd'[o] = "none" /\ phase'[o] = "idle"
            /\ \A h \in Host : thread'[o][h] = "none"
        BY <1>t, <3>1 DEF EndCommand, StartThreads, CommandTypeOK, ThreadTypeOK
      <3>3. \A p \in Operator : p # o =>
               /\ plan'[p] = plan[p] /\ cmd'[p] = cmd[p] /\ phase'[p] = phase[p]
               /\ thread'[p] = thread[p]
        BY <1>t, <3>1 DEF EndCommand, StartThreads, CommandTypeOK, ThreadTypeOK
      <3>4. QED
        BY <3>2, <3>3 DEF CommandInv
    <2>6. QED
      BY <1>3, <2>1, <2>2, <2>3, <2>4, <2>5 DEF OperatorStep, CommandStep
  <1>4. QED
    BY <1>1, <1>2, <1>3 DEF Next, HostSide, DriverSide, DriverFault, vars

(* What a step of one agent leaves alone: the other processes, and the     *)
(* driver's ends of the pipes.  Only SetCurrent moves a current ref.       *)
LEMMA AgentFrame ==
    ASSUME TypeOK, ProcessInv, NEW s \in Slot, AgentStep(s) \/ AgentKilled(s)
    PROVE  /\ \A t \in Slot \ {s} :
                /\ apc'[t] = apc[t] /\ ahost'[t] = ahost[t] /\ job'[t] = job[t]
                /\ inbox'[t] = inbox[t] /\ outbox'[t] = outbox[t]
           /\ Live(s) /\ reader' = reader
           /\ Live(s)' => ahost'[s] = ahost[s]
           /\ \A h \in Host : current'[h] # current[h] => apc[s] = "modify" /\ ahost[s] = h
  <1>t. ProcessTypeOK /\ PipeTypeOK /\ HostTypeOK /\ JobTypeOK
    BY DEF TypeOK, ClusterTypeOK, AgentTypeOK
  <1> USE DEF ProcessTypeOK, PipeTypeOK, HostTypeOK, JobTypeOK, Live
  <1>1. CASE HandleLock(s)
    BY <1>1, <1>t DEF HandleLock, Answer, Emit, hostVars
  <1>2. CASE HandleReceivePack(s)
    BY <1>2, <1>t DEF HandleReceivePack, Answer, Emit, processVars
  <1>3. CASE HandleRequestObjects(s)
    BY <1>3, <1>t DEF HandleRequestObjects, Answer, Emit, processVars, hostVars
  <1>4. CASE PreApplyError(s) \/ PrepareUnresolved(s)
    BY <1>4, <1>t DEF PreApplyError, PrepareUnresolved, Answer, Emit, processVars, hostVars
  <1>5. CASE PrepareDeploy(s) \/ PrepareReapply(s)
    BY <1>5, <1>t DEF PrepareDeploy, PrepareReapply, StartJob
  <1>6. CASE AgentPanic(s) \/ AgentExit(s) \/ AgentKilled(s)
    BY <1>6, <1>t DEF AgentPanic, Panics, AgentExit, AgentKilled, Exit, hostVars
  <1>7. CASE SetCurrent(s)
    BY <1>7, <1>t DEF SetCurrent, pipeVars
  <1>8. CASE RecordHostname(s) \/ RecordFails(s) \/ ApplyFails(s)
    BY <1>8, <1>t DEF RecordHostname, RecordFails, ApplyFails, EndJob, Emit, refVars
  <1>9. CASE RollbackCompletes(s) \/ RollbackFails(s)
    BY <1>9, <1>t DEF RollbackCompletes, RollbackFails, EndJob, Emit, refVars
  <1>10. CASE StartRollback(s)
    BY <1>10, <1>t DEF StartRollback, pipeVars, hostVars
  <1>11. QED
    BY <1>1, <1>2, <1>3, <1>4, <1>5, <1>6, <1>7, <1>8, <1>9, <1>10 DEF AgentStep

(* What it does to its own process. *)
LEMMA AgentOwn ==
    ASSUME TypeOK, ProcessInv, NEW s \in Slot, AgentStep(s) \/ AgentKilled(s)
    PROVE  /\ inbox'[s] \in {inbox[s], None}
           /\ Live(s)' <=> ahost'[s] # None
           /\ apc'[s] \in {"modify", "record", "rollback"} => job'[s] \in Job
           /\ Holding(s)' => Holding(s) \/ LockedBy(ahost[s]) = {}
  <1>t. ProcessTypeOK /\ PipeTypeOK /\ HostTypeOK /\ JobTypeOK
    BY DEF TypeOK, ClusterTypeOK, AgentTypeOK
  <1>a. /\ Live(s) <=> ahost[s] # None
        /\ apc[s] \in {"modify", "record", "rollback"} => job[s] \in Job
    BY DEF ProcessInv
  <1> USE DEF ProcessTypeOK, PipeTypeOK, JobTypeOK, Live, Holding
  <1>1. CASE HandleLock(s)
    <2>1. LockAnswer(ahost[s], inbox[s].commit).type = "Locked" => LockedBy(ahost[s]) = {}
      BY DEF LockAnswer, Msg
    <2>2. QED
      BY <1>1, <1>t, <1>a, <2>1 DEF HandleLock, Answer
  <1>2. CASE HandleReceivePack(s) \/ HandleRequestObjects(s)
    BY <1>2, <1>t, <1>a DEF HandleReceivePack, HandleRequestObjects, Answer, processVars
  <1>4. CASE PreApplyError(s) \/ PrepareUnresolved(s)
    BY <1>4, <1>t, <1>a DEF PreApplyError, PrepareUnresolved, Answer, processVars
  <1>5. CASE PrepareDeploy(s) \/ PrepareReapply(s)
    <2>1. \A mode \in {"Deploy", "Reapply"} :
             [mode |-> mode, base |-> current[ahost[s]], commit |-> inbox[s].commit] \in Job
      BY <1>5, <1>t, <1>a DEF ProcessInv, PrepareDeploy, PrepareReapply, HostTypeOK, Job
    <2>2. QED
      BY <1>5, <1>t, <1>a, <2>1 DEF PrepareDeploy, PrepareReapply, StartJob
  <1>6. CASE AgentPanic(s) \/ AgentExit(s) \/ AgentKilled(s)
    BY <1>6, <1>t DEF AgentPanic, AgentExit, AgentKilled, Exit
  <1>7. CASE SetCurrent(s) \/ StartRollback(s)
    BY <1>7, <1>t, <1>a DEF SetCurrent, StartRollback, pipeVars
  <1>8. CASE RecordHostname(s) \/ RecordFails(s) \/ ApplyFails(s)
    BY <1>8, <1>t, <1>a DEF RecordHostname, RecordFails, ApplyFails, EndJob
  <1>9. CASE RollbackCompletes(s) \/ RollbackFails(s)
    BY <1>9, <1>t, <1>a DEF RollbackCompletes, RollbackFails, EndJob
  <1>10. QED
    BY <1>1, <1>2, <1>4, <1>5, <1>6, <1>7, <1>8, <1>9 DEF AgentStep

(* What a thread puts on an agent's stdin is a request it may send. *)
Sendable(r) == r.type \in {"Deploy", "Reapply"} => r.commit \in Commit

(* What the threads do to the processes: nothing, unless they connect.     *)
(* Connecting starts a new process in a slot that nobody uses.             *)
LEMMA ThreadFrame ==
    ASSUME TypeOK, CommandInv, NEW o \in Operator, NEW h \in Host,
           ThreadStep(o, h) \/ ConnectFails(o, h) \/ ConnectionLost(o, h)
    PROVE  /\ UNCHANGED <<processVars, hostVars, job>>
           /\ \A s \in Slot :
                inbox'[s] = inbox[s] \/ inbox'[s] = None \/ Sendable(inbox'[s])
           /\ \A s \in Slot \ {conn[o][h]} : inbox'[s] = inbox[s] /\ outbox'[s] = outbox[s]
  <1>t. PipeTypeOK
    BY DEF TypeOK, ClusterTypeOK
  <1>d. \A S \in {{conn[o][h]}} : DropPipes(S) =>
           \A s \in Slot \ {conn[o][h]} : outbox'[s] = outbox[s]
    BY DEF DropPipes
  <1>h. \A state : Hangup(o, h, state) =>
           /\ inbox' = inbox
           /\ \A s \in Slot \ {conn[o][h]} : outbox'[s] = outbox[s]
    BY <1>d DEF Hangup
  <1>s. \A r : SendTo(conn[o][h], r) =>
           \A s \in Slot : IF s = conn[o][h] THEN inbox'[s] \in {r, None}
                                             ELSE inbox'[s] = inbox[s]
    BY <1>t DEF SendTo, PipeTypeOK
  <1>1. CASE ConnectFails(o, h)
    BY <1>1 DEF ConnectFails, pipeVars
  <1>2. CASE ReadLock(o, h)
    BY <1>2, <1>t, <1>h DEF ReadLock, Receive, PipeTypeOK
  <1>3. CASE FetchStale(o, h)
    BY <1>3, <1>t, <1>h, <1>s DEF FetchStale, ObjectsRequest, Sendable, PipeTypeOK
  <1>4. CASE ReadObjects(o, h)
    BY <1>4, <1>h DEF ReadObjects
  <1>5. CASE SendPack(o, h)
    BY <1>5, <1>s DEF SendPack, ReceivePackRequest, Sendable
  <1>6. CASE ReadPackReceived(o, h)
    <2>1. plan[o].commit \in Commit
      BY <1>6 DEF ReadPackReceived, CommandInv
    <2>2. QED
      BY <1>6, <1>t, <1>h, <1>s, <2>1
         DEF ReadPackReceived, SendApply, ApplyDeploy, Sendable, PipeTypeOK
  <1>7. CASE SendReapply(o, h)
    <2>1. plan[o].expected[h] \in Commit
      BY <1>7 DEF SendReapply, CommandInv
    <2>2. QED
      BY <1>7, <1>s, <2>1 DEF SendReapply, SendApply, ApplyReapply, Sendable
  <1>8. CASE ReadApply(o, h)
    BY <1>8, <1>t, <1>h DEF ReadApply, Receive, PipeTypeOK
  <1>9. CASE ReadApplied(o, h) \/ ReadEOF(o, h)
    BY <1>9, <1>h DEF ReadApplied, ReadEOF
  <1>10. CASE ConnectionLost(o, h)
    BY <1>10, <1>t, <1>d DEF ConnectionLost, PipeTypeOK
  <1>11. QED
    BY <1>1, <1>2, <1>3, <1>4, <1>5, <1>6, <1>7, <1>8, <1>9, <1>10 DEF ThreadStep

(* Connecting starts a new process in a slot that nobody uses. *)
LEMMA ConnectFrame ==
    ASSUME TypeOK, NEW o \in Operator, NEW h \in Host, Connect(o, h)
    PROVE  /\ UNCHANGED <<hostVars, job>>
           /\ \E s \in Slot :
                /\ Free(s)
                /\ apc'[s] = "idle" /\ ahost'[s] = h /\ outbox'[s] = None
                /\ inbox'[s] = None \/ /\ thread[o][h] = "connect"
                                       /\ thread' = [thread EXCEPT ![o][h] = "lock"]
                                       /\ inbox'[s] = LockRequest(plan[o].expected[h])
                /\ \A t \in Slot \ {s} :
                     /\ apc'[t] = apc[t] /\ ahost'[t] = ahost[t] /\ inbox'[t] = inbox[t]
                     /\ outbox'[t] = outbox[t] /\ reader'[t] = reader[t]
  <1>t. ProcessTypeOK /\ PipeTypeOK
    BY DEF TypeOK, ClusterTypeOK
  <1>1. PICK s \in Slot : ConnectAndLock(o, h, s) \/ ConnectForSync(o, h, s)
    BY DEF Connect
  <1>2. QED
    BY <1>t, <1>1 DEF ConnectAndLock, ConnectForSync, Spawn, ProcessTypeOK, PipeTypeOK

(* What the operators and the commands do to the processes: they may drop  *)
(* the connections of the command, which ends it.                          *)
LEMMA OperatorFrame ==
    ASSUME TypeOK, NEW o \in Operator, OperatorStep(o) \/ CommandStep(o) \/ DriverCrash(o)
    PROVE  UNCHANGED <<processVars, inbox, hostVars, job>>
  BY DEF OperatorStep, MakePlan, StartReapply, StartSync, Select, Confirm, Decline, CommandStep,
         ProceedDeploy, ProceedReapply, StartApplying, RefuseReapply, StartFetching, Finish,
         DriverCrash, EndCommand, pipeVars

(* Every step keeps ProcessInv. *)
LEMMA NextProcess ==
    ASSUME TypeOK, ProcessInv, CommandInv, [Next]_vars
    PROVE  ProcessInv'
  <1>1. ASSUME NEW s \in Slot, AgentStep(s) \/ AgentKilled(s)
        PROVE  ProcessInv'
    BY <1>1, AgentFrame, AgentOwn DEF ProcessInv, Live, Asked
  <1>2. CASE UNCHANGED <<processVars, inbox, job>>
    BY <1>2 DEF ProcessInv, Live, Asked, processVars
  <1>3. ASSUME NEW o \in Operator, NEW h \in Host,
               ThreadStep(o, h) \/ ConnectFails(o, h) \/ ConnectionLost(o, h)
        PROVE  ProcessInv'
    <2>1. /\ UNCHANGED <<processVars, job>>
          /\ \A s \in Slot : inbox'[s] = inbox[s] \/ inbox'[s] = None \/ Sendable(inbox'[s])
      BY <1>3, ThreadFrame
    <2>2. QED
      BY <2>1 DEF ProcessInv, Live, Asked, Sendable, processVars
  <1>4. ASSUME NEW o \in Operator, NEW h \in Host, Connect(o, h)
        PROVE  ProcessInv'
    <2>1. PICK s \in Slot :
             /\ Free(s)
             /\ apc'[s] = "idle" /\ ahost'[s] = h
             /\ inbox'[s] \in {None, LockRequest(plan[o].expected[h])}
             /\ \A t \in Slot \ {s} :
                  /\ apc'[t] = apc[t] /\ ahost'[t] = ahost[t] /\ inbox'[t] = inbox[t]
      BY <1>4, ConnectFrame
    <2>2. job' = job
      BY <1>4, ConnectFrame
    <2>3. h # None
      BY ConstantsAssumption
    <2>4. QED
      BY <2>1, <2>2, <2>3 DEF ProcessInv, Live, Asked, LockRequest
  <1>5. ASSUME NEW o \in Operator, OperatorStep(o) \/ CommandStep(o) \/ DriverCrash(o)
        PROVE  ProcessInv'
    BY <1>2, <1>5, OperatorFrame
  <1>6. CASE (\E h \in Host : Wipe(h)) \/ (\E a, b \in Host : Rename(a, b))
    BY <1>2, <1>6 DEF Wipe, Rename, pipeVars
  <1>7. QED
    BY <1>1, <1>2, <1>3, <1>4, <1>5, <1>6
       DEF Next, HostSide, DriverSide, DriverFault, vars, pipeVars
-----------------------------------------------------------------------------
(* What a thread does with its connection: it goes on with it ...          *)
GoesOn(o, h) ==
    /\ conn' = conn
    /\ reader' = reader
    /\ thread'[o][h] \in Connected <=> thread[o][h] \in Connected

(* ... or it hangs up. *)
HangsUp(o, h) ==
    /\ conn' = [conn EXCEPT ![o][h] = None]
    /\ reader' = [s \in Slot |-> reader[s] /\ s \notin {conn[o][h]}]
    /\ thread'[o][h] \notin Connected

(* Every step of a thread keeps its connection or drops it. *)
LEMMA ThreadConn ==
    ASSUME TypeOK, NEW o \in Operator, NEW h \in Host,
           ThreadStep(o, h) \/ ConnectFails(o, h) \/ ConnectionLost(o, h)
    PROVE  GoesOn(o, h) \/ HangsUp(o, h)
  <1>t. thread \in [Operator -> [Host -> ThreadState]]
    BY DEF TypeOK, DriverTypeOK, ThreadTypeOK
  <1>s. \A state : thread' = [thread EXCEPT ![o][h] = state] => thread'[o][h] = state
    BY <1>t
  <1>h. \A state : Hangup(o, h, state) /\ state \notin Connected => HangsUp(o, h)
    BY <1>s DEF Hangup, HangsUp, DropPipes
  <1>r. \A state : /\ Receive(o, h, state)
                   /\ state \in Connected <=> thread[o][h] \in Connected
                   => GoesOn(o, h)
    BY <1>s DEF Receive, GoesOn
  <1> USE DEF Connected
  <1>1. CASE ConnectFails(o, h)
    <2>1. thread'[o][h] = "refused"
      BY <1>1, <1>s DEF ConnectFails
    <2>2. QED
      BY <1>1, <2>1 DEF ConnectFails, GoesOn, pipeVars
  <1>2. CASE ReadLock(o, h)
    BY <1>2, <1>h, <1>r DEF ReadLock
  <1>3. CASE FetchStale(o, h)
    <2>1. CASE NothingToFetch(o, actual[o][h])
      BY <1>3, <1>h, <2>1 DEF FetchStale
    <2>2. CASE ~NothingToFetch(o, actual[o][h])
      <3>1. thread'[o][h] = "fetch"
        BY <1>3, <1>s, <2>2 DEF FetchStale
      <3>2. QED
        BY <1>3, <2>2, <3>1 DEF FetchStale, GoesOn
    <2>3. QED
      BY <2>1, <2>2
  <1>4. CASE ReadObjects(o, h)
    <2>1. Hangup(o, h, "fetched") \/ Hangup(o, h, "failed")
      BY <1>4 DEF ReadObjects
    <2>2. QED
      BY <1>h, <2>1
  <1>5. CASE SendPack(o, h)
    <2>1. thread'[o][h] = "pushing"
      BY <1>5, <1>s DEF SendPack
    <2>2. QED
      BY <1>5, <2>1 DEF SendPack, GoesOn
  <1>6. CASE ReadPackReceived(o, h)
    <2>1. CASE Got(o, h) = "PackReceived"
      <3>1. thread'[o][h] = "applying"
        BY <1>6, <1>s, <2>1 DEF ReadPackReceived
      <3>2. QED
        BY <1>6, <2>1, <3>1 DEF ReadPackReceived, GoesOn
    <2>2. CASE Got(o, h) # "PackReceived"
      BY <1>6, <1>h, <2>2 DEF ReadPackReceived
    <2>3. QED
      BY <2>1, <2>2
  <1>7. CASE SendReapply(o, h)
    <2>1. thread'[o][h] = "applying"
      BY <1>7, <1>s DEF SendReapply
    <2>2. QED
      BY <1>7, <2>1 DEF SendReapply, GoesOn
  <1>8. CASE ReadApply(o, h)
    BY <1>8, <1>h, <1>r DEF ReadApply
  <1>9. CASE ReadApplied(o, h)
    BY <1>9, <1>h DEF ReadApplied
  <1>10. CASE ReadEOF(o, h)
    BY <1>10, <1>h DEF ReadEOF, LostState
  <1>11. CASE ConnectionLost(o, h)
    <2>1. thread'[o][h] \in {"refused", "failed"}
      BY <1>11, <1>t, <1>s DEF ConnectionLost, LostState
    <2>2. QED
      BY <1>11, <2>1 DEF ConnectionLost, DropPipes, HangsUp
  <1>12. QED
    BY <1>1, <1>2, <1>3, <1>4, <1>5, <1>6, <1>7, <1>8, <1>9, <1>10, <1>11 DEF ThreadStep

(* Every step keeps ConnInv. *)
LEMMA NextConn ==
    ASSUME TypeOK, ProcessInv, CommandInv, ConnInv, [Next]_vars
    PROVE  ConnInv'
  <1>c. conn \in [Operator -> [Host -> Slot \cup {None}]]
    BY DEF TypeOK, DriverTypeOK, ThreadTypeOK
  <1>r. reader \in [Slot -> BOOLEAN]
    BY DEF TypeOK, ClusterTypeOK, PipeTypeOK
  <1>n. None \notin Slot
    BY ConstantsAssumption
  <1>1. ASSUME NEW s \in Slot, AgentStep(s) \/ AgentKilled(s), UNCHANGED driverVars
        PROVE  ConnInv'
    <2>1. /\ \A t \in Slot \ {s} : apc'[t] = apc[t] /\ ahost'[t] = ahost[t]
          /\ Live(s) /\ reader' = reader
          /\ Live(s)' => ahost'[s] = ahost[s]
      BY <1>1, AgentFrame
    <2>2. thread' = thread /\ conn' = conn
      BY <1>1 DEF driverVars, threadVars
    <2>3. QED
      BY <1>c, <1>n, <2>1, <2>2 DEF ConnInv, Live
  <1>2. CASE UNCHANGED <<processVars, reader, thread, conn>>
    BY <1>2 DEF ConnInv, Live, processVars
  <1>3. ASSUME NEW o \in Operator, NEW h \in Host,
               ThreadStep(o, h) \/ ConnectFails(o, h) \/ ConnectionLost(o, h)
        PROVE  ConnInv'
    <2>1. apc' = apc /\ ahost' = ahost
      BY <1>3, ThreadFrame DEF processVars
    <2>2. \A p \in Operator, g \in Host : p # o \/ g # h => thread'[p][g] = thread[p][g]
      BY <1>3, ThreadMoves DEF Moves
    <2>3. CASE GoesOn(o, h)
      BY <2>1, <2>2, <2>3 DEF ConnInv, GoesOn, Live
    <2>4. CASE HangsUp(o, h)
      <3>1. \A p \in Operator, g \in Host :
               conn'[p][g] = IF p = o /\ g = h THEN None ELSE conn[p][g]
        BY <1>c, <2>4 DEF HangsUp
      <3>2. thread'[o][h] \notin Connected
        BY <2>4 DEF HangsUp
      <3>3. \A p \in Operator, g \in Host : conn'[p][g] # None => reader'[conn'[p][g]]
        <4>1. \A s \in Slot \ {conn[o][h]} : reader'[s] = reader[s]
          BY <1>r, <2>4 DEF HangsUp
        <4>2. QED
          BY <1>c, <3>1, <4>1 DEF ConnInv
      <3>4. QED
        BY <2>1, <2>2, <3>1, <3>2, <3>3 DEF ConnInv, Live
    <2>5. QED
      BY <1>3, <2>3, <2>4, ThreadConn
  <1>4. ASSUME NEW o \in Operator, NEW h \in Host, NEW s \in Slot,
               ConnectAndLock(o, h, s) \/ ConnectForSync(o, h, s)
        PROVE  ConnInv'
    <2>1. /\ thread[o][h] = "connect"
          /\ conn[o][h] = None
      BY <1>4 DEF ConnectAndLock, ConnectForSync, ConnInv, Connected
    <2>2. \A p \in Operator, g \in Host : p # o \/ g # h => thread'[p][g] = thread[p][g]
      BY <1>4, ThreadMoves DEF Moves, Connect
    <2>3. \A p \in Operator, g \in Host : conn[p][g] # s
      BY <1>4, <1>n DEF ConnectAndLock, ConnectForSync, Spawn, Free, ConnInv
    <2>4. /\ \A t \in Slot \ {s} : apc'[t] = apc[t] /\ ahost'[t] = ahost[t] /\ reader'[t] = reader[t]
          /\ ahost'[s] = h
      BY <1>4 DEF ConnectAndLock, ConnectForSync, Spawn, TypeOK, ClusterTypeOK, ProcessTypeOK,
           PipeTypeOK
    <2>5. \/ /\ thread'[o][h] \in Connected /\ conn' = [conn EXCEPT ![o][h] = s] /\ reader'[s]
          \/ /\ thread'[o][h] \notin Connected /\ conn' = [conn EXCEPT ![o][h] = None]
      <3>1. thread \in [Operator -> [Host -> ThreadState]] /\ reader \in [Slot -> BOOLEAN]
        BY DEF TypeOK, ClusterTypeOK, DriverTypeOK, PipeTypeOK, ThreadTypeOK
      <3>2. CASE ConnectAndLock(o, h, s)
        BY <3>1, <3>2 DEF ConnectAndLock, Connected
      <3>3. CASE ConnectForSync(o, h, s) /\ current[h] # plan[o].expected[h]
        BY <3>1, <3>3 DEF ConnectForSync, Connected
      <3>4. CASE ConnectForSync(o, h, s) /\ current[h] = plan[o].expected[h]
        BY <3>1, <3>4 DEF ConnectForSync, Connected
      <3>5. QED
        BY <1>4, <3>2, <3>3, <3>4
    <2>6. \A p \in Operator, g \in Host : p # o \/ g # h => conn'[p][g] = conn[p][g]
      BY <1>c, <2>5
    <2>7. \/ thread'[o][h] \in Connected /\ conn'[o][h] = s /\ reader'[s]
          \/ thread'[o][h] \notin Connected /\ conn'[o][h] = None
      BY <1>c, <2>5
    <2>8. QED
      BY <1>c, <1>n, <2>2, <2>3, <2>4, <2>6, <2>7 DEF ConnInv, Live
  <1>5. ASSUME NEW o \in Operator, OperatorStep(o) \/ CommandStep(o) \/ DriverCrash(o)
        PROVE  ConnInv'
    <2>1. apc' = apc /\ ahost' = ahost
      BY <1>5, OperatorFrame DEF processVars
    <2>t. thread \in [Operator -> [Host -> ThreadState]]
      BY DEF TypeOK, DriverTypeOK, ThreadTypeOK
    <2>2. ASSUME NEW H, StartThreads(o, H), phase[o] = "idle", UNCHANGED <<reader, conn>>
          PROVE  ConnInv'
      <3>1. /\ \A h \in Host : thread[o][h] \notin Connected /\ thread'[o][h] \notin Connected
            /\ \A p \in Operator : p # o => thread'[p] = thread[p]
        BY <2>t, <2>2 DEF StartThreads, CommandInv, Connected
      <3>2. QED
        BY <2>1, <2>2, <3>1 DEF ConnInv, Live
    <2>3. ASSUME NEW g \in Config, NEW c \in Commit, NEW limit, MakePlan(o, g, limit, c)
          PROVE  ConnInv'
      BY <2>2, <2>3 DEF MakePlan, pipeVars
    <2>4. ASSUME NEW H, StartReapply(o, H) \/ StartSync(o, H)
          PROVE  ConnInv'
      BY <2>2, <2>4 DEF StartReapply, StartSync, Select, pipeVars
    <2>5. CASE Confirm(o) \/ StartFetching(o)
      BY <1>2, <2>5 DEF Confirm, StartFetching, pipeVars, threadVars
    <2>6. CASE ProceedDeploy(o) \/ ProceedReapply(o)
      <3>1. /\ reader' = reader /\ conn' = conn
            /\ \A h \in Host : thread'[o][h] = IF thread[o][h] # "none" THEN "push" ELSE "none"
            /\ \A p \in Operator : p # o => thread'[p] = thread[p]
        BY <2>t, <2>6, ProceedThreads DEF ProceedDeploy, ProceedReapply, StartApplying, pipeVars
      <3>2. \A h \in Host : thread[o][h] \in {"none", "locked"}
        BY <2>6 DEF ProceedDeploy, ProceedReapply, AllLocked, Planned
      <3>3. \A h \in Host : thread'[o][h] \in Connected <=> thread[o][h] \in Connected
        BY <3>1, <3>2 DEF Connected
      <3>4. QED
        BY <2>1, <3>1, <3>3 DEF ConnInv, Live
    <2>7. CASE Decline(o) \/ RefuseReapply(o) \/ Finish(o) \/ DriverCrash(o)
      <3>1. EndCommand(o)
        BY <2>7 DEF Decline, RefuseReapply, Finish, DriverCrash
      <3>2. \A h \in Host : thread'[o][h] \notin Connected /\ conn'[o][h] = None
        BY <1>c, <2>t, <3>1 DEF EndCommand, StartThreads, Connected
      <3>3. \A p \in Operator : p # o => thread'[p] = thread[p] /\ conn'[p] = conn[p]
        BY <1>c, <2>t, <3>1 DEF EndCommand, StartThreads
      <3>4. \A p \in Operator, g \in Host : p # o /\ conn[p][g] # None => conn[p][g] \notin Conns(o)
        BY DEF ConnInv, Conns
      <3>5. \A p \in Operator, g \in Host : p # o /\ conn[p][g] # None => reader'[conn[p][g]]
        <4>1. \A s \in Slot \ Conns(o) : reader'[s] = reader[s]
          BY <1>r, <3>1 DEF EndCommand, DropPipes
        <4>2. QED
          BY <1>c, <3>4, <4>1 DEF ConnInv
      <3>6. QED
        BY <2>1, <3>2, <3>3, <3>5 DEF ConnInv, Live
    <2>8. QED
      BY <1>5, <2>3, <2>4, <2>5, <2>6, <2>7 DEF OperatorStep, CommandStep
  <1>6. ASSUME NEW a \in Host, NEW b \in Host, Wipe(a) \/ Rename(a, b), UNCHANGED driverVars
        PROVE  ConnInv'
    BY <1>2, <1>6 DEF Wipe, Rename, pipeVars, driverVars, threadVars
  <1>7. QED
    BY <1>1, <1>2, <1>3, <1>4, <1>5, <1>6
       DEF Next, HostSide, DriverSide, DriverFault, Connect, vars, pipeVars, driverVars, threadVars
-----------------------------------------------------------------------------
(* Every step keeps the lock exclusive: only HandleLock takes it, and     *)
(* only when nobody has it.                                               *)
LEMMA NextExclusive ==
    ASSUME TypeOK, ProcessInv, CommandInv, LockExclusive, [Next]_vars
    PROVE  LockExclusive'
  <1>1. ASSUME NEW s \in Slot, AgentStep(s) \/ AgentKilled(s)
        PROVE  LockExclusive'
    <2>1. /\ \A t \in Slot \ {s} : apc'[t] = apc[t] /\ ahost'[t] = ahost[t]
          /\ Live(s)' => ahost'[s] = ahost[s]
          /\ Holding(s)' => Holding(s) \/ LockedBy(ahost[s]) = {}
      BY <1>1, AgentFrame, AgentOwn
    <2>2. QED
      BY <2>1 DEF LockExclusive, LockedBy, Holding, Live
  <1>2. CASE UNCHANGED processVars
    BY <1>2 DEF LockExclusive, Holding, processVars
  <1>3. ASSUME NEW o \in Operator, NEW h \in Host, Connect(o, h)
        PROVE  LockExclusive'
    <2>1. PICK s \in Slot :
             /\ apc'[s] = "idle"
             /\ \A t \in Slot \ {s} : apc'[t] = apc[t] /\ ahost'[t] = ahost[t]
      BY <1>3, ConnectFrame
    <2>2. QED
      BY <2>1 DEF LockExclusive, Holding
  <1>4. ASSUME NEW o \in Operator, NEW h \in Host,
               ThreadStep(o, h) \/ ConnectFails(o, h) \/ ConnectionLost(o, h)
        PROVE  LockExclusive'
    BY <1>2, <1>4, ThreadFrame
  <1>5. ASSUME NEW o \in Operator, OperatorStep(o) \/ CommandStep(o) \/ DriverCrash(o)
        PROVE  LockExclusive'
    BY <1>2, <1>5, OperatorFrame
  <1>6. ASSUME NEW a \in Host, NEW b \in Host, Wipe(a) \/ Rename(a, b)
        PROVE  LockExclusive'
    BY <1>2, <1>6 DEF Wipe, Rename
  <1>7. QED
    BY <1>1, <1>2, <1>3, <1>4, <1>5, <1>6 DEF Next, HostSide, DriverSide, DriverFault, vars

(* A step of the agent at the other end keeps it.  The interesting case is *)
(* HandleLock, which pins the host in the step that answers Locked.        *)
LEMMA AgentHandshake ==
    ASSUME TypeOK, ConnInv, NEW o \in Operator, NEW h \in Host, Handshake(o, h),
           conn[o][h] # None, UNCHANGED driverVars,
           AgentStep(conn[o][h]) \/ AgentKilled(conn[o][h])
    PROVE  Handshake(o, h)'
  <1> DEFINE s == conn[o][h]
  <1>s. s \in Slot /\ s # None
    BY DEF TypeOK, DriverTypeOK, ThreadTypeOK
  <1>t. ProcessTypeOK /\ PipeTypeOK
    BY DEF TypeOK, ClusterTypeOK
  <1>u. s' = s /\ thread' = thread /\ plan' = plan
    BY DEF driverVars, commandVars, threadVars
  <1>a. Live(s) => ahost[s] = h
    BY DEF ConnInv
  <1>e. \A m : Emit(s, m) => outbox'[s] \in {m, None}
    BY <1>s, <1>t DEF Emit, PipeTypeOK
  <1>i. \A m : Answer(s, m) => inbox'[s] = None /\ outbox'[s] \in {m, None}
    BY <1>s, <1>t, <1>e DEF Answer, PipeTypeOK
  <1>x. \A type \in MessageType : (\A c : MsgCommit(type, c).type = type) /\ Msg(type).type = type
    BY DEF MsgCommit, Msg
  <1> HIDE DEF s
  <1>h. Handshake(o, h)' <=>
          (Live(s)' =>
            /\ thread[o][h] = "lock" /\ inbox'[s] # None =>
                 /\ inbox'[s].type = "Lock"
                 /\ inbox'[s].commit = plan[o].expected[h]
                 /\ outbox'[s] = None
                 /\ apc'[s] = "idle"
            /\ thread[o][h] = "lock" /\ outbox'[s] # None /\ outbox'[s].type = "Locked" =>
                 /\ inbox'[s] = None
                 /\ apc'[s] = "locked" /\ current'[h] = plan[o].expected[h]
            /\ thread[o][h] \in {"locked", "push", "pushing"} =>
                 /\ inbox'[s] # None => inbox'[s].type = "ReceivePack"
                 /\ apc'[s] = "locked" /\ current'[h] = plan[o].expected[h])
    BY <1>s, <1>u DEF s, Handshake, HasMessage, Got, Pinned, Live
  <1>l. Live(s)
    BY DEF s, AgentStep, AgentKilled, HandleLock, HandleReceivePack, HandleRequestObjects,
           PreApplyError, PrepareDeploy, PrepareReapply, PrepareUnresolved, AgentPanic, Panics,
           SetCurrent, RecordHostname, RecordFails, ApplyFails, StartRollback, RollbackCompletes,
           RollbackFails, AgentExit, Live
  <1>g. /\ thread[o][h] = "lock" /\ inbox[s] # None =>
             /\ inbox[s].type = "Lock"
             /\ inbox[s].commit = plan[o].expected[h]
             /\ outbox[s] = None
             /\ apc[s] = "idle"
        /\ thread[o][h] = "lock" /\ outbox[s] # None /\ outbox[s].type = "Locked" =>
             /\ inbox[s] = None
             /\ apc[s] = "locked" /\ current[h] = plan[o].expected[h]
        /\ thread[o][h] \in {"locked", "push", "pushing"} =>
             /\ inbox[s] # None => inbox[s].type = "ReceivePack"
             /\ apc[s] = "locked" /\ current[h] = plan[o].expected[h]
    BY <1>l DEF s, Handshake, HasMessage, Got, Pinned
  <1>1. CASE HandleLock(s)
    <2>1. LockAnswer(h, inbox[s].commit).type = "Locked" => current[h] = inbox[s].commit
      BY DEF LockAnswer, Msg, MsgCommit
    <2>2. ahost[s] = h
      BY <1>a, <1>l
    <2>3. QED
      BY <1>s, <1>t, <1>g, <1>h, <1>i, <1>1, <2>1, <2>2
         DEF HandleLock, Asked, ProcessTypeOK, hostVars
  <1>2. CASE HandleReceivePack(s)
    BY <1>g, <1>h, <1>i, <1>x, <1>2 DEF HandleReceivePack, Asked, processVars, MessageType
  <1>3. CASE HandleRequestObjects(s)
    <2>1. outbox'[s] = None \/ outbox'[s].type # "Locked"
      BY <1>i, <1>x, <1>3 DEF HandleRequestObjects, MsgPack, MessageType
    <2>2. inbox'[s] = None
      BY <1>i, <1>3 DEF HandleRequestObjects
    <2>3. QED
      BY <1>g, <1>h, <1>3, <2>1, <2>2 DEF HandleRequestObjects, Asked, processVars, hostVars
  <1>4. CASE PreApplyError(s) \/ PrepareUnresolved(s)
    BY <1>g, <1>h, <1>i, <1>x, <1>4
       DEF PreApplyError, PrepareUnresolved, processVars, hostVars, MessageType
  <1>5. CASE PrepareDeploy(s) \/ PrepareReapply(s)
    BY <1>s, <1>t, <1>g, <1>h, <1>5 DEF PrepareDeploy, PrepareReapply, StartJob, Asked, PipeTypeOK
  <1>6. CASE AgentPanic(s) \/ AgentExit(s) \/ AgentKilled(s)
    BY <1>s, <1>t, <1>u, <1>h, <1>6
       DEF AgentPanic, AgentExit, AgentKilled, Exit, Live, ProcessTypeOK
  <1>7. CASE SetCurrent(s) \/ StartRollback(s)
    BY <1>g, <1>h, <1>7 DEF SetCurrent, StartRollback, pipeVars
  <1>8. CASE RecordHostname(s) \/ RecordFails(s) \/ ApplyFails(s)
    BY <1>g, <1>h, <1>e, <1>x, <1>8
       DEF RecordHostname, RecordFails, ApplyFails, EndJob, MessageType
  <1>9. CASE RollbackCompletes(s) \/ RollbackFails(s)
    BY <1>g, <1>h, <1>e, <1>x, <1>9 DEF RollbackCompletes, RollbackFails, EndJob, MessageType
  <1>10. QED
    BY <1>1, <1>2, <1>3, <1>4, <1>5, <1>6, <1>7, <1>8, <1>9 DEF AgentStep, s

(* A step of the thread itself keeps it. *)
LEMMA ThreadHandshake ==
    ASSUME TypeOK, CommandInv, ConnInv, NEW o \in Operator, NEW h \in Host, Handshake(o, h),
           ThreadStep(o, h) \/ ConnectFails(o, h) \/ ConnectionLost(o, h)
    PROVE  Handshake(o, h)'
  <1>f. apc' = apc /\ current' = current /\ plan' = plan
    BY ThreadFrame, ThreadMoves DEF processVars, hostVars, commandVars
  <1>c. conn \in [Operator -> [Host -> Slot \cup {None}]]
    BY DEF TypeOK, DriverTypeOK, ThreadTypeOK
  <1>t. thread \in [Operator -> [Host -> ThreadState]] /\ PipeTypeOK
    BY DEF TypeOK, ClusterTypeOK, DriverTypeOK, ThreadTypeOK
  <1>e. \A state : thread' = [thread EXCEPT ![o][h] = state] => thread'[o][h] = state
    BY <1>t
  <1>o. \A state : Hangup(o, h, state) => Handshake(o, h)'
    BY <1>c DEF Hangup, Handshake
  <1>d. thread'[o][h] \notin {"lock", "locked", "push", "pushing"} => Handshake(o, h)'
    BY DEF Handshake
  <1>1. CASE ConnectFails(o, h)
    BY <1>1, <1>d, <1>e DEF ConnectFails
  <1>2. CASE ReadLock(o, h)
    <2>1. CASE Got(o, h) = "Locked"
      <3>1. conn' = conn /\ inbox' = inbox /\ thread' = [thread EXCEPT ![o][h] = "locked"]
        BY <1>2, <2>1 DEF ReadLock, Receive
      <3>2. thread'[o][h] = "locked"
        BY <1>e, <3>1
      <3>3. QED
        BY <1>2, <1>f, <2>1, <3>1, <3>2 DEF ReadLock, Handshake, Pinned, Live
    <2>2. CASE Got(o, h) = "LockStale"
      <3>1. thread' = [thread EXCEPT ![o][h] = "stale"]
        BY <1>2, <2>2 DEF ReadLock, Receive
      <3>2. QED
        BY <1>d, <1>e, <3>1
    <2>3. CASE Got(o, h) \notin {"Locked", "LockStale"}
      BY <1>2, <1>o, <2>3 DEF ReadLock
    <2>4. QED
      BY <2>1, <2>2, <2>3
  <1>3. CASE FetchStale(o, h)
    <2>1. CASE NothingToFetch(o, actual[o][h])
      BY <1>3, <1>o, <2>1 DEF FetchStale
    <2>2. CASE ~NothingToFetch(o, actual[o][h])
      BY <1>3, <1>d, <1>e, <2>2 DEF FetchStale
    <2>3. QED
      BY <2>1, <2>2
  <1>4. CASE ReadObjects(o, h)
    <2>1. Hangup(o, h, "fetched") \/ Hangup(o, h, "failed")
      BY <1>4 DEF ReadObjects
    <2>2. QED
      BY <1>o, <2>1
  <1>5. CASE SendPack(o, h)
    <2>1. /\ thread' = [thread EXCEPT ![o][h] = "pushing"]
          /\ conn' = conn /\ outbox' = outbox /\ thread[o][h] = "push"
      BY <1>5 DEF SendPack
    <2>2. thread'[o][h] = "pushing"
      BY <1>e, <2>1
    <2>3. conn[o][h] \in Slot
      BY <1>c, <2>1 DEF ConnInv, Connected
    <2>4. inbox'[conn[o][h]] # None => inbox'[conn[o][h]].type = "ReceivePack"
      BY <1>5, <1>t, <2>3 DEF SendPack, SendTo, ReceivePackRequest, PipeTypeOK
    <2>5. QED
      BY <1>f, <2>1, <2>2, <2>4 DEF Handshake, Pinned, Live
  <1>6. CASE ReadPackReceived(o, h)
    <2>1. CASE Got(o, h) = "PackReceived"
      BY <1>6, <1>d, <1>e, <2>1 DEF ReadPackReceived
    <2>2. CASE Got(o, h) # "PackReceived"
      BY <1>6, <1>o, <2>2 DEF ReadPackReceived
    <2>3. QED
      BY <2>1, <2>2
  <1>7. CASE SendReapply(o, h)
    BY <1>7, <1>d, <1>e DEF SendReapply
  <1>8. CASE ReadApply(o, h)
    <2>1. CASE Receive(o, h, "applied")
      BY <1>d, <1>e, <2>1 DEF Receive
    <2>2. QED
      BY <1>8, <1>o, <2>1 DEF ReadApply
  <1>9. CASE ReadApplied(o, h) \/ ReadEOF(o, h)
    BY <1>9, <1>o DEF ReadApplied, ReadEOF
  <1>10. CASE ConnectionLost(o, h)
    BY <1>10, <1>c DEF ConnectionLost, Handshake
  <1>11. QED
    BY <1>1, <1>2, <1>3, <1>4, <1>5, <1>6, <1>7, <1>8, <1>9, <1>10 DEF ThreadStep

(* What keeps a handshake that a step does not take part in. *)
LEMMA HandshakeFrame ==
    ASSUME NEW o \in Operator, NEW h \in Host, Handshake(o, h), conn[o][h] # None,
           thread'[o][h] = thread[o][h], conn'[o][h] = conn[o][h], plan'[o] = plan[o],
           apc'[conn[o][h]] = apc[conn[o][h]],
           inbox'[conn[o][h]] = inbox[conn[o][h]],
           outbox'[conn[o][h]] = outbox[conn[o][h]],
           Pinned(o, h) => current'[h] = current[h]
    PROVE  Handshake(o, h)'
  BY DEF Handshake, Live, HasMessage, Got, Pinned

(* Every step keeps every handshake, the ones it takes part in and the    *)
(* others.                                                                *)
LEMMA NextHandshake ==
    ASSUME LockInv, [Next]_vars
    PROVE  HandshakeInv'
  <1> USE DEF LockInv
  <1>c. conn \in [Operator -> [Host -> Slot \cup {None}]]
    BY DEF TypeOK, DriverTypeOK, ThreadTypeOK
  <1>t. thread \in [Operator -> [Host -> ThreadState]]
    BY DEF TypeOK, DriverTypeOK, ThreadTypeOK
  <1>p. plan \in [Operator -> Plan]
    BY DEF TypeOK, DriverTypeOK, CommandTypeOK
  <1>n. None \notin Slot
    BY ConstantsAssumption
  <1>0. CASE UNCHANGED vars
    BY <1>0 DEF HandshakeInv, Handshake, HasMessage, Got, Pinned, Live, vars, processVars,
         pipeVars, hostVars, driverVars, commandVars, threadVars
  <1>1. ASSUME NEW s \in Slot, AgentStep(s) \/ AgentKilled(s), UNCHANGED driverVars
        PROVE  HandshakeInv'
    <2> SUFFICES ASSUME NEW o \in Operator, NEW h \in Host
                 PROVE  Handshake(o, h)'
      BY DEF HandshakeInv
    <2>1. Handshake(o, h) /\ conn' = conn /\ thread' = thread /\ plan' = plan
      BY <1>1 DEF HandshakeInv, driverVars, commandVars, threadVars
    <2>2. CASE conn[o][h] = None
      BY <2>1, <2>2 DEF Handshake
    <2>3. CASE conn[o][h] = s
      BY <1>1, <1>n, <2>1, <2>3, AgentHandshake
    <2>4. CASE conn[o][h] # None /\ conn[o][h] # s
      <3>1. conn[o][h] \in Slot \ {s}
        BY <1>c, <2>4
      <3>2. /\ apc'[conn[o][h]] = apc[conn[o][h]]
            /\ inbox'[conn[o][h]] = inbox[conn[o][h]]
            /\ outbox'[conn[o][h]] = outbox[conn[o][h]]
        BY <1>1, <3>1, AgentFrame
      <3>3. current'[h] # current[h] => Holding(s) /\ ahost[s] = h
        BY <1>1, AgentFrame DEF Holding
      <3>4. Pinned(o, h) => Holding(conn[o][h]) /\ ahost[conn[o][h]] = h
        BY <2>4 DEF Pinned, Holding, ConnInv, Live
      <3>5. Pinned(o, h) => current'[h] = current[h]
        BY <3>1, <3>3, <3>4 DEF LockExclusive
      <3>6. QED
        BY <2>1, <2>4, <3>2, <3>5, HandshakeFrame
    <2>5. QED
      BY <2>2, <2>3, <2>4
  <1>2. ASSUME NEW a \in Host, NEW b \in Host, Wipe(a) \/ Rename(a, b), UNCHANGED driverVars
        PROVE  HandshakeInv'
    <2> SUFFICES ASSUME NEW o \in Operator, NEW h \in Host
                 PROVE  Handshake(o, h)'
      BY DEF HandshakeInv
    <2>1. /\ Handshake(o, h) /\ conn' = conn /\ thread' = thread /\ plan' = plan
          /\ apc' = apc /\ inbox' = inbox /\ outbox' = outbox
      BY <1>2 DEF HandshakeInv, driverVars, commandVars, threadVars, Wipe, Rename, processVars,
           pipeVars
    <2>2. CASE conn[o][h] = None
      BY <2>1, <2>2 DEF Handshake
    <2>3. CASE conn[o][h] # None
      <3>1. current'[h] # current[h] => Quiet(h)
        BY <1>2 DEF Wipe, Rename, Swap, TypeOK, AgentTypeOK, HostTypeOK
      <3>2. Pinned(o, h) => ahost[conn[o][h]] = h
        BY <2>3 DEF Pinned, ConnInv, Live
      <3>3. conn[o][h] \in Slot
        BY <1>c, <2>3
      <3>4. Pinned(o, h) => current'[h] = current[h]
        BY <3>1, <3>2, <3>3 DEF Quiet
      <3>5. QED
        BY <2>1, <2>3, <3>4, HandshakeFrame
    <2>4. QED
      BY <2>2, <2>3
  <1>3. ASSUME NEW o \in Operator, NEW h \in Host,
               ThreadStep(o, h) \/ ConnectFails(o, h) \/ ConnectionLost(o, h)
        PROVE  HandshakeInv'
    <2> SUFFICES ASSUME NEW p \in Operator, NEW g \in Host
                 PROVE  Handshake(p, g)'
      BY DEF HandshakeInv
    <2>1. Handshake(p, g)
      BY DEF HandshakeInv
    <2>2. CASE p = o /\ g = h
      BY <1>3, <2>1, <2>2, ThreadHandshake
    <2>3. CASE p # o \/ g # h
      <3>1. conn'[p][g] = conn[p][g]
        BY <1>3, <1>c, <2>3, ThreadConn DEF GoesOn, HangsUp
      <3>2. thread'[p][g] = thread[p][g] /\ plan' = plan
        BY <1>3, <2>3, ThreadMoves DEF Moves, commandVars
      <3>3. apc' = apc /\ current' = current
        BY <1>3, ThreadFrame DEF processVars, hostVars
      <3>4. CASE conn[p][g] = None
        BY <3>1, <3>4 DEF Handshake
      <3>5. CASE conn[p][g] # None
        <4>1. conn[p][g] \in Slot \ {conn[o][h]}
          BY <1>c, <2>3, <3>5 DEF ConnInv
        <4>2. inbox'[conn[p][g]] = inbox[conn[p][g]] /\ outbox'[conn[p][g]] = outbox[conn[p][g]]
          BY <1>3, <4>1, ThreadFrame
        <4>3. QED
          BY <2>1, <3>1, <3>2, <3>3, <3>5, <4>2, HandshakeFrame
      <3>6. QED
        BY <3>4, <3>5
    <2>4. QED
      BY <2>2, <2>3
  <1>4. ASSUME NEW o \in Operator, NEW h \in Host, NEW s \in Slot,
               ConnectAndLock(o, h, s) \/ ConnectForSync(o, h, s)
        PROVE  HandshakeInv'
    <2> SUFFICES ASSUME NEW p \in Operator, NEW g \in Host
                 PROVE  Handshake(p, g)'
      BY DEF HandshakeInv
    <2>1. Handshake(p, g)
      BY DEF HandshakeInv
    <2>2. conn' = [conn EXCEPT ![o][h] = s] \/ conn' = [conn EXCEPT ![o][h] = None]
      BY <1>4 DEF ConnectAndLock, ConnectForSync
    <2>3. plan' = plan /\ current' = current
      BY <1>4 DEF ConnectAndLock, ConnectForSync, commandVars, hostVars
    <2>4. \A t \in Slot \ {s} :
             apc'[t] = apc[t] /\ inbox'[t] = inbox[t] /\ outbox'[t] = outbox[t]
      BY <1>4 DEF ConnectAndLock, ConnectForSync, Spawn, TypeOK, ClusterTypeOK, ProcessTypeOK,
           PipeTypeOK
    <2>5. CASE p = o /\ g = h
      <3>1. CASE ConnectAndLock(o, h, s)
        <4>1. /\ thread'[o][h] = "lock" /\ conn'[o][h] = s
              /\ inbox'[s] = LockRequest(plan[o].expected[h]) /\ outbox'[s] = None
              /\ apc'[s] = "idle"
          BY <1>c, <1>t, <3>1 DEF ConnectAndLock, Spawn, TypeOK, ClusterTypeOK, ProcessTypeOK,
               PipeTypeOK
        <4>2. QED
          BY <2>3, <2>5, <4>1 DEF Handshake, HasMessage, LockRequest
      <3>2. CASE ConnectForSync(o, h, s)
        <4>1. thread'[o][h] \in {"stale", "uptodate"}
          BY <1>t, <3>2 DEF ConnectForSync
        <4>2. QED
          BY <2>5, <4>1 DEF Handshake
      <3>3. QED
        BY <1>4, <3>1, <3>2
    <2>6. CASE p # o \/ g # h
      <3>1. conn'[p][g] = conn[p][g]
        BY <1>c, <2>2, <2>6
      <3>2. thread'[p][g] = thread[p][g]
        BY <1>4, <2>6, ThreadMoves DEF Moves, Connect
      <3>3. CASE conn[p][g] = None
        BY <3>1, <3>3 DEF Handshake
      <3>4. CASE conn[p][g] # None
        <4>1. conn[p][g] \in Slot \ {s}
          BY <1>4, <1>c, <3>4 DEF ConnectAndLock, ConnectForSync, Spawn, Free, ConnInv
        <4>2. QED
          BY <2>1, <2>3, <2>4, <3>1, <3>2, <3>4, <4>1, HandshakeFrame
      <3>5. QED
        BY <3>3, <3>4
    <2>7. QED
      BY <2>5, <2>6
  <1>5. ASSUME NEW o \in Operator, OperatorStep(o) \/ CommandStep(o) \/ DriverCrash(o)
        PROVE  HandshakeInv'
    <2> SUFFICES ASSUME NEW p \in Operator, NEW g \in Host
                 PROVE  Handshake(p, g)'
      BY DEF HandshakeInv
    <2>1. Handshake(p, g)
      BY DEF HandshakeInv
    <2>2. apc' = apc /\ inbox' = inbox /\ current' = current
      BY <1>5, OperatorFrame DEF processVars, hostVars
    <2>3. ASSUME NEW H, StartThreads(o, H), UNCHANGED <<conn, outbox>>,
                 \E q : plan' = [plan EXCEPT ![o] = q]
          PROVE  Handshake(p, g)'
      <3>1. CASE p = o
        <4>1. thread'[o][g] \in {"none", "connect"}
          BY <1>t, <2>3 DEF StartThreads
        <4>2. QED
          BY <3>1, <4>1 DEF Handshake
      <3>2. CASE p # o
        <4>1. thread'[p] = thread[p] /\ plan'[p] = plan[p]
          BY <1>t, <1>p, <2>3, <3>2 DEF StartThreads
        <4>2. QED
          BY <2>1, <2>2, <2>3, <4>1 DEF Handshake, HasMessage, Got, Pinned, Live
      <3>3. QED
        BY <3>1, <3>2
    <2>4. ASSUME NEW f \in Config, NEW c \in Commit, NEW limit, MakePlan(o, f, limit, c)
          PROVE  Handshake(p, g)'
      BY <2>3, <2>4 DEF MakePlan, pipeVars
    <2>5. ASSUME NEW H, StartReapply(o, H) \/ StartSync(o, H)
          PROVE  Handshake(p, g)'
      BY <2>3, <2>5 DEF StartReapply, StartSync, Select, pipeVars
    <2>6. CASE Confirm(o) \/ StartFetching(o)
      BY <2>1, <2>2, <2>6 DEF Confirm, StartFetching, Handshake, HasMessage, Got, Pinned, Live,
           pipeVars, threadVars
    <2>7. CASE ProceedDeploy(o) \/ ProceedReapply(o)
      <3>1. /\ outbox' = outbox /\ conn' = conn /\ plan' = plan
            /\ \A h \in Host : thread'[o][h] = IF thread[o][h] # "none" THEN "push" ELSE "none"
            /\ \A q \in Operator : q # o => thread'[q] = thread[q]
        BY <1>t, <2>7, ProceedThreads DEF ProceedDeploy, ProceedReapply, StartApplying, pipeVars
      <3>2. \A h \in Host : thread[o][h] \in {"none", "locked"}
        BY <2>7 DEF ProceedDeploy, ProceedReapply, AllLocked, Planned
      <3>3. QED
        BY <2>1, <2>2, <3>1, <3>2 DEF Handshake, HasMessage, Got, Pinned, Live
    <2>8. CASE Decline(o) \/ RefuseReapply(o) \/ Finish(o) \/ DriverCrash(o)
      <3>1. EndCommand(o)
        BY <2>8 DEF Decline, RefuseReapply, Finish, DriverCrash
      <3>2. CASE p = o
        <4>1. conn'[o][g] = None
          BY <1>c, <3>1 DEF EndCommand
        <4>2. QED
          BY <3>2, <4>1 DEF Handshake
      <3>3. CASE p # o
        <4>1. /\ conn'[p] = conn[p] /\ thread'[p] = thread[p] /\ plan'[p] = plan[p]
              /\ \A s \in Slot \ Conns(o) : outbox'[s] = outbox[s]
          BY <1>c, <1>t, <1>p, <3>1, <3>3 DEF EndCommand, StartThreads, DropPipes
        <4>2. conn[p][g] # None => conn[p][g] \in Slot \ Conns(o)
          BY <1>c, <3>3 DEF ConnInv, Conns
        <4>3. QED
          BY <2>1, <2>2, <4>1, <4>2 DEF Handshake, HasMessage, Got, Pinned, Live
      <3>4. QED
        BY <3>2, <3>3
    <2>9. QED
      BY <1>5, <2>4, <2>5, <2>6, <2>7, <2>8 DEF OperatorStep, CommandStep
  <1>6. QED
    BY <1>0, <1>1, <1>2, <1>3, <1>4, <1>5
       DEF Next, HostSide, DriverSide, DriverFault, Connect
-----------------------------------------------------------------------------
(* LockInv holds at the start and every step preserves it. *)
LEMMA InitLockInv == Init => LockInv
  <1> SUFFICES ASSUME Init PROVE LockInv
    OBVIOUS
  <1>1. TypeOK
    BY InitType
  <1>2. ProcessInv /\ LockExclusive
    BY DEF Init, ClusterInit, ProcessInv, LockExclusive, Live, Holding, Asked
  <1>3. CommandInv /\ ConnInv /\ HandshakeInv
    BY DEF Init, DriverInit, CommandInv, ConnInv, HandshakeInv, Handshake, Connected
  <1>4. QED
    BY <1>1, <1>2, <1>3 DEF LockInv

(* LockInv is inductive. *)
LEMMA NextLockInv == LockInv /\ [Next]_vars => LockInv'
  BY NextType, NextProcess, NextCommand, NextConn, NextExclusive, NextHandshake DEF LockInv

(* The inductive invariant holds in every reachable state. *)
THEOREM LockInvariant == Spec => []LockInv
  BY InitLockInv, NextLockInv, PTL DEF Spec

(* Every reachable state is well typed.  In particular an agent that       *)
(* applies always has a target commit: the driver never sends an Apply     *)
(* without one, whatever the operators and the network did before.         *)
THEOREM TypeCorrect == Spec => []TypeOK
  <1>1. LockInv => TypeOK
    BY DEF LockInv
  <1>2. QED
    BY <1>1, LockInvariant, PTL

(* The flock keeps sessions apart: for any number of operators, hosts and  *)
(* agents, at most one session per host holds the deploy lock.             *)
THEOREM MutualExclusion == Spec => []LockExclusive
  <1>1. LockInv => LockExclusive
    BY DEF LockInv
  <1>2. QED
    BY <1>1, LockInvariant, PTL

(* The optimistic lock works: from the Locked answer until the Apply is    *)
(* taken up the host stays at the commit the plan was made for, whatever   *)
(* other operators, orphaned agents, crashes, lost connections and         *)
(* reprovisioned or renamed machines do.                                   *)
THEOREM LockPinsHost == Spec => []LockPins
  <1>1. LockInv => LockPins
    BY ConstantsAssumption
       DEF LockInv, LockPins, ConnInv, Connected, HandshakeInv, Handshake, Pinned, Holding, Live
  <1>2. QED
    BY <1>1, LockInvariant, PTL
=============================================================================
