------------------------------- MODULE Cluster -------------------------------
(***************************************************************************)
(* What the driver (an operator's `deptool` process) and the agents share: *)
(* the commits that exist, the pipes between a driver thread and the agent *)
(* process it started over SSH, and the protocol's requests and messages.  *)
(*                                                                         *)
(* An agent process is a Slot.  A slot is reused once its process has      *)
(* exited and no driver holds the connection, so |Slot| bounds how many    *)
(* agents run at once, not how many ever run.                              *)
(***************************************************************************)
EXTENDS CommitGraph, PlanDiff, FiniteSets

CONSTANTS
    Operator,   \* operators, each with a store of their own
    Host,       \* host names
    Commit,     \* the commits that can be created: the bound on deploys
    Slot,       \* agent processes that can exist at once
    Config,     \* states of the operators' configuration directory
    TreeOf,     \* Config -> the host trees in it, by host name
    Commands,   \* which commands the operators run
    Faults      \* which faults of the environment may happen

FaultKind == {"kill", "crash", "drop", "wipe", "rename", "io"}

CommandKind == {"deploy", "reapply", "sync"}

ASSUME ConstantsAssumption ==
    /\ IsFiniteSet(Host)
    /\ None \notin Operator \cup Host \cup Commit \cup Slot \cup Config
    /\ \A g \in Config : DOMAIN TreeOf[g] \subseteq Host
    /\ Commands \subseteq CommandKind
    /\ Faults \subseteq FaultKind

VARIABLES
    tree,       \* Commit -> the Config it records, None until it is created
    anc,        \* Commit -> its strict ancestors
    ahost,      \* Slot -> the host the agent process runs on, None once it exited
    apc,        \* Slot -> where the agent process is, "gone" when it exited
    inbox,      \* Slot -> the request waiting on the agent's stdin, or None
    outbox,     \* Slot -> the message waiting on its stdout, or None
    stdin,      \* Slot -> whether the driver still has its stdin open
    reader      \* Slot -> whether the driver still reads its stdout

graphVars == <<tree, anc>>
pipeVars == <<inbox, outbox, stdin, reader>>
processVars == <<ahost, apc>>
-----------------------------------------------------------------------------
Created == {c \in Commit : tree[c] # None}

OptCommit == Commit \cup {None}

HasEntry(c, h) == h \in DOMAIN TreeOf[tree[c]]

(* Store::get_host_apps of a commit's tree; diff_host takes an absent      *)
(* commit as an empty host.                                                *)
HostApps(c, h) ==
    IF c # None /\ HasEntry(c, h) THEN TreeOf[tree[c]][h] ELSE NoApps
-----------------------------------------------------------------------------
RequestType == {"Lock", "ReceivePack", "RequestObjects", "Deploy", "Reapply"}

(* protocol::Request.  commit is expected_current_commit, have_commit or   *)
(* target_commit; "Deploy" and "Reapply" are Apply with that ApplyMode.    *)
Request == [type : RequestType, commit : OptCommit,
            pack : SUBSET Commit, safe : BOOLEAN]

LockRequest(expected) ==
    [type |-> "Lock", commit |-> expected, pack |-> {}, safe |-> FALSE]
ReceivePackRequest(pack) ==
    [type |-> "ReceivePack", commit |-> None, pack |-> pack, safe |-> FALSE]
ObjectsRequest(have) ==
    [type |-> "RequestObjects", commit |-> have, pack |-> {}, safe |-> FALSE]
ApplyDeploy(target, safe) ==
    [type |-> "Deploy", commit |-> target, pack |-> {}, safe |-> safe]
ApplyReapply(target) ==
    [type |-> "Reapply", commit |-> target, pack |-> {}, safe |-> FALSE]

MessageType == {"Locked", "LockStale", "LockBusy", "LockHostnameChanged",
                "PackReceived", "SendPack", "ApplyComplete", "ApplyFailed",
                "RolledBack", "RollbackFailed", "ErrorPreApply"}

(* protocol::Message, without the ones that only feed the progress display *)
(* (Pong, WaitingForUnits, RollingBack and the tools' output).             *)
Message == [type : MessageType, commit : OptCommit, pack : SUBSET Commit]

Msg(type) == [type |-> type, commit |-> None, pack |-> {}]
MsgCommit(type, c) == [type |-> type, commit |-> c, pack |-> {}]
MsgPack(pack) == [type |-> "SendPack", commit |-> None, pack |-> pack]
-----------------------------------------------------------------------------
GraphTypeOK ==
    /\ tree \in [Commit -> Config \cup {None}]
    /\ anc \in [Commit -> SUBSET Commit]

ProcessTypeOK ==
    /\ ahost \in [Slot -> Host \cup {None}]
    /\ apc \in [Slot -> {"gone", "idle", "locked", "modify", "record", "rollback"}]

PipeTypeOK ==
    /\ inbox \in [Slot -> Request \cup {None}]
    /\ outbox \in [Slot -> Message \cup {None}]
    /\ stdin \in [Slot -> BOOLEAN]
    /\ reader \in [Slot -> BOOLEAN]

ClusterTypeOK == GraphTypeOK /\ ProcessTypeOK /\ PipeTypeOK

ClusterInit ==
    /\ tree = [c \in Commit |-> None]
    /\ anc = [c \in Commit |-> {}]
    /\ ahost = [s \in Slot |-> None]
    /\ apc = [s \in Slot |-> "gone"]
    /\ inbox = [s \in Slot |-> None]
    /\ outbox = [s \in Slot |-> None]
    /\ stdin = [s \in Slot |-> FALSE]
    /\ reader = [s \in Slot |-> FALSE]

Live(s) == apc[s] # "gone"

(* The flock is held from handle_lock's Locked until the process exits.    *)
Holding(s) == apc[s] \in {"locked", "modify", "record", "rollback"}

Free(s) == ~Live(s) /\ ~reader[s]
=============================================================================
