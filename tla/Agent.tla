-------------------------------- MODULE Agent --------------------------------
(***************************************************************************)
(* The agent (agent.rs, run_agent in main.rs) and the store of the host it *)
(* runs on.  An agent process serves one connection.  It reads a request,  *)
(* handles it to the end and answers, and it exits at end of file on its   *)
(* stdin.  A failed write to stdout is ignored, so an agent whose operator *)
(* has gone away finishes what it was asked to do.                         *)
(*                                                                         *)
(* An apply is several actions, because a crash can fall between them:     *)
(*   prepare_apply sets the target ref          "locked" -> "modify"       *)
(*   checkout and activation, then current      "modify" -> "record"       *)
(*   the deployed hostname, then the answer     "record" -> "locked"       *)
(*   a rollback after a failed activation       "modify" -> "rollback"     *)
(***************************************************************************)
EXTENDS Cluster

VARIABLES
    current,     \* Host -> refs/heads/current
    target,      \* Host -> refs/heads/target
    hobjects,    \* Host -> the commits in the host's store
    deployedAs,  \* Host -> deptool.hostname in the store's config
    job          \* Slot -> the ApplyContext while an apply is under way

refVars == <<current, target>>
hostVars == <<current, target, hobjects, deployedAs>>

Job == [mode : {"Deploy", "Reapply"}, base : OptCommit, commit : Commit]

HostTypeOK ==
    /\ current \in [Host -> OptCommit]
    /\ target \in [Host -> OptCommit]
    /\ hobjects \in [Host -> SUBSET Commit]
    /\ deployedAs \in [Host -> Host \cup {None}]

JobTypeOK == job \in [Slot -> Job \cup {None}]

AgentTypeOK == HostTypeOK /\ JobTypeOK

AgentInit ==
    /\ current = [h \in Host |-> None]
    /\ target = [h \in Host |-> None]
    /\ hobjects = [h \in Host |-> {}]
    /\ deployedAs = [h \in Host |-> None]
    /\ job = [s \in Slot |-> None]
-----------------------------------------------------------------------------
(* A message nobody reads any more is lost, the write error is ignored.    *)
Emit(s, m) == outbox' = [outbox EXCEPT ![s] = IF reader[s] THEN m ELSE None]

(* The request at the head of stdin is consumed and answered with m.       *)
Answer(s, m) ==
    /\ inbox' = [inbox EXCEPT ![s] = None]
    /\ Emit(s, m)
    /\ UNCHANGED <<stdin, reader>>

Asked(s, type) == inbox[s] # None /\ inbox[s].type = type

(* The process ends, and the kernel releases its flock with it.            *)
Exit(s) ==
    /\ apc' = [apc EXCEPT ![s] = "gone"]
    /\ ahost' = [ahost EXCEPT ![s] = None]
    /\ job' = [job EXCEPT ![s] = None]
    /\ inbox' = [inbox EXCEPT ![s] = None]
    /\ UNCHANGED <<outbox, stdin, reader>>
-----------------------------------------------------------------------------
(* Mutant of LockedBy: the lock dies with the connection, not the process. *)
LockedByConnected(h) == {t \in Slot : Holding(t) /\ ahost[t] = h /\ reader[t]}

(* try_flock_exclusive: non-blocking, another session's lock means busy.   *)
LockedBy(h) == {t \in Slot : Holding(t) /\ ahost[t] = h}

(* Mutant of HostnameChanged: only the old check, which a swap passes.     *)
HostnameChangedByEntry(h) == current[h] # None /\ ~HasEntry(current[h], h)

(* check_deployed_hostname: the host's state belongs to another name.      *)
HostnameChanged(h) ==
    /\ current[h] # None
    /\ IF deployedAs[h] # None
         THEN deployedAs[h] # h
         ELSE ~HasEntry(current[h], h)

(* Mutant of LockAnswer: does not take the flock. *)
LockAnswerNoFlock(h, expected) ==
    IF HostnameChanged(h) THEN Msg("LockHostnameChanged")
    ELSE IF current[h] # expected THEN MsgCommit("LockStale", current[h])
    ELSE Msg("Locked")

(* Mutant of LockAnswer: does not compare the commits. *)
LockAnswerIgnoresStale(h, expected) ==
    IF LockedBy(h) # {} THEN Msg("LockBusy")
    ELSE IF HostnameChanged(h) THEN Msg("LockHostnameChanged")
    ELSE Msg("Locked")

(* handle_lock's decision, in the order of its checks.                     *)
LockAnswer(h, expected) ==
    IF LockedBy(h) # {} THEN Msg("LockBusy")
    ELSE IF HostnameChanged(h) THEN Msg("LockHostnameChanged")
    ELSE IF current[h] # expected THEN MsgCommit("LockStale", current[h])
    ELSE Msg("Locked")

HandleLock(s) ==
    /\ apc[s] = "idle"
    /\ Asked(s, "Lock")
    /\ LET answer == LockAnswer(ahost[s], inbox[s].commit)
       IN  /\ Answer(s, answer)
           /\ apc' = [apc EXCEPT ![s] = IF answer.type = "Locked"
                                          THEN "locked" ELSE "idle"]
    /\ UNCHANGED <<graphVars, ahost, hostVars, job>>

HandleReceivePack(s) ==
    /\ Live(s)
    /\ Asked(s, "ReceivePack")
    /\ hobjects' = [hobjects EXCEPT ![ahost[s]] = @ \cup inbox[s].pack]
    /\ Answer(s, Msg("PackReceived"))
    /\ UNCHANGED <<graphVars, processVars, current, target, deployedAs, job>>

(* RequestObjects is served from the ref as it is now, without the lock.   *)
HandleRequestObjects(s) ==
    /\ Live(s)
    /\ Asked(s, "RequestObjects")
    /\ LET want == current[ahost[s]]
           have == inbox[s].commit
       IN  /\ want # None
           /\ Answer(s, IF CanPack(hobjects[ahost[s]], want, have)
                          THEN MsgPack(Pack(anc, want, have))
                          ELSE Msg("ErrorPreApply"))
    /\ UNCHANGED <<graphVars, processVars, hostVars, job>>

(* An I/O error while locking, storing a pack or preparing an apply.       *)
PreApplyError(s) ==
    /\ "io" \in Faults
    /\ \/ apc[s] = "idle" /\ Asked(s, "Lock")
       \/ Live(s) /\ (Asked(s, "ReceivePack") \/ Asked(s, "RequestObjects"))
       \/ apc[s] = "locked" /\ (Asked(s, "Deploy") \/ Asked(s, "Reapply"))
    /\ Answer(s, Msg("ErrorPreApply"))
    /\ UNCHANGED <<graphVars, processVars, hostVars, job>>
-----------------------------------------------------------------------------
(* diff_host resolves both commits in the host's store.                    *)
Resolves(s) == {current[ahost[s]], inbox[s].commit} \ {None} \subseteq hobjects[ahost[s]]

(* The assertions of prepare_apply in deploy mode.                         *)
DeployAssertions(s) ==
    LET h == ahost[s]
        base == current[h]
        goal == inbox[s].commit
    IN  /\ base # None => DescendsFrom(anc, goal, base)
        /\ inbox[s].safe =
             IsRollbackSafe(DiffHost(HostApps(base, h), HostApps(goal, h)))

(* The assertions of prepare_apply in reapply mode.                        *)
ReapplyAssertions(s) ==
    /\ current[ahost[s]] = inbox[s].commit
    /\ target[ahost[s]] = inbox[s].commit

(* Mutant of StartJob: the context's target is read from the current ref. *)
StartJobFromCurrent(s, mode) ==
    /\ job' = [job EXCEPT ![s] = [mode |-> mode, base |-> current[ahost[s]],
                                  commit |-> current[ahost[s]]]]
    /\ apc' = [apc EXCEPT ![s] = "modify"]
    /\ inbox' = [inbox EXCEPT ![s] = None]
    /\ UNCHANGED <<graphVars, ahost, outbox, stdin, reader, current, hobjects, deployedAs>>

(* The ApplyContext of an apply that passed its checks.                    *)
StartJob(s, mode) ==
    /\ job' = [job EXCEPT ![s] = [mode |-> mode, base |-> current[ahost[s]],
                                  commit |-> inbox[s].commit]]
    /\ apc' = [apc EXCEPT ![s] = "modify"]
    /\ inbox' = [inbox EXCEPT ![s] = None]
    /\ UNCHANGED <<graphVars, ahost, outbox, stdin, reader, current, hobjects, deployedAs>>

(* Mutant of PrepareDeploy: the target ref is not set. *)
PrepareDeployNoTarget(s) ==
    /\ apc[s] = "locked"
    /\ Asked(s, "Deploy")
    /\ Resolves(s)
    /\ DeployAssertions(s)
    /\ UNCHANGED target
    /\ StartJob(s, "Deploy")

(* prepare_apply in deploy mode: the target ref moves before anything else. *)
PrepareDeploy(s) ==
    /\ apc[s] = "locked"
    /\ Asked(s, "Deploy")
    /\ Resolves(s)
    /\ DeployAssertions(s)
    /\ target' = [target EXCEPT ![ahost[s]] = inbox[s].commit]
    /\ StartJob(s, "Deploy")

(* prepare_apply in reapply mode: no ref moves.                            *)
PrepareReapply(s) ==
    /\ apc[s] = "locked"
    /\ Asked(s, "Reapply")
    /\ Resolves(s)
    /\ ReapplyAssertions(s)
    /\ UNCHANGED target
    /\ StartJob(s, "Reapply")

(* A commit that does not resolve is an error, not a panic.                *)
PrepareUnresolved(s) ==
    /\ apc[s] = "locked"
    /\ Asked(s, "Deploy") \/ Asked(s, "Reapply")
    /\ ~Resolves(s)
    /\ Answer(s, Msg("ErrorPreApply"))
    /\ UNCHANGED <<graphVars, processVars, hostVars, job>>

(* The places where handle_request and prepare_apply assert.               *)
Panics(s) ==
    \/ Live(s) /\ Asked(s, "RequestObjects") /\ current[ahost[s]] = None
    \/ apc[s] = "idle" /\ (Asked(s, "Deploy") \/ Asked(s, "Reapply"))
    \/ apc[s] = "locked" /\ Asked(s, "Deploy") /\ Resolves(s) /\ ~DeployAssertions(s)
    \/ apc[s] = "locked" /\ Asked(s, "Reapply") /\ Resolves(s) /\ ~ReapplyAssertions(s)

AgentPanic(s) ==
    /\ Panics(s)
    /\ Exit(s)
    /\ UNCHANGED <<graphVars, hostVars>>
-----------------------------------------------------------------------------
(* The apply is over: the session answers and keeps its lock.              *)
EndJob(s, m) ==
    /\ apc' = [apc EXCEPT ![s] = "locked"]
    /\ job' = [job EXCEPT ![s] = None]
    /\ Emit(s, m)
    /\ UNCHANGED <<graphVars, ahost, inbox, stdin, reader, hobjects>>

(* Mutant of SetCurrent: the ref is not advanced. *)
SetCurrentForgotten(s) ==
    /\ apc[s] = "modify"
    /\ apc' = [apc EXCEPT ![s] = "record"]
    /\ UNCHANGED <<graphVars, ahost, pipeVars, hostVars, job>>

(* apply_modification: checkout and activation succeeded, current moves.   *)
SetCurrent(s) ==
    /\ apc[s] = "modify"
    /\ current' = [current EXCEPT ![ahost[s]] = job[s].commit]
    /\ apc' = [apc EXCEPT ![s] = "record"]
    /\ UNCHANGED <<graphVars, ahost, pipeVars, target, hobjects, deployedAs, job>>

(* ... then the hostname is recorded and the driver is told.               *)
RecordHostname(s) ==
    /\ apc[s] = "record"
    /\ deployedAs' = [deployedAs EXCEPT ![ahost[s]] = ahost[s]]
    /\ EndJob(s, MsgCommit("ApplyComplete", job[s].commit))
    /\ UNCHANGED refVars

(* The hostname could not be written: reported as a failed apply, although *)
(* current has moved.                                                      *)
RecordFails(s) ==
    /\ "io" \in Faults
    /\ apc[s] = "record"
    /\ EndJob(s, Msg("ApplyFailed"))
    /\ UNCHANGED <<refVars, deployedAs>>

(* Checkout failed, or activation failed and the diff is not safe to       *)
(* revert, or the current ref could not be written.                        *)
ApplyFails(s) ==
    /\ apc[s] = "modify"
    /\ EndJob(s, Msg("ApplyFailed"))
    /\ UNCHANGED <<refVars, deployedAs>>

(* rollback_on_failure of apply_modification.                              *)
RollbackOnFailure(s) ==
    /\ job[s].mode = "Deploy"
    /\ IsRollbackSafe(DiffHost(HostApps(job[s].base, ahost[s]),
                               HostApps(job[s].commit, ahost[s])))

(* Mutant of StartRollback: a failure to record the hostname is one, too. *)
StartRollbackLate(s) ==
    /\ apc[s] \in {"modify", "record"}
    /\ RollbackOnFailure(s)
    /\ apc' = [apc EXCEPT ![s] = "rollback"]
    /\ UNCHANGED <<graphVars, ahost, pipeVars, hostVars, job>>

(* Activation failed and handle_rollback takes over.                       *)
StartRollback(s) ==
    /\ apc[s] = "modify"
    /\ RollbackOnFailure(s)
    /\ apc' = [apc EXCEPT ![s] = "rollback"]
    /\ UNCHANGED <<graphVars, ahost, pipeVars, hostVars, job>>

(* try_rollback succeeded.  After a first deploy there is no commit to put *)
(* the target ref back to, and it stays where it is.                       *)
RollbackCompletes(s) ==
    /\ apc[s] = "rollback"
    /\ target' = [target EXCEPT ![ahost[s]] =
                     IF job[s].base # None THEN job[s].base ELSE @]
    /\ EndJob(s, Msg("RolledBack"))
    /\ UNCHANGED <<current, deployedAs>>

RollbackFails(s) ==
    /\ apc[s] = "rollback"
    /\ EndJob(s, Msg("RollbackFailed"))
    /\ UNCHANGED <<refVars, deployedAs>>
-----------------------------------------------------------------------------
(* Mutant of AgentExit: a session that holds the lock misses the EOF. *)
AgentExitWhenIdle(s) ==
    /\ apc[s] = "idle"
    /\ inbox[s] = None
    /\ ~stdin[s]
    /\ Exit(s)
    /\ UNCHANGED <<graphVars, hostVars>>

(* End of file on stdin ends the request loop of run_agent.                *)
AgentExit(s) ==
    /\ apc[s] \in {"idle", "locked"}
    /\ inbox[s] = None
    /\ ~stdin[s]
    /\ Exit(s)
    /\ UNCHANGED <<graphVars, hostVars>>

(* The process is killed, or its machine loses power, at any point.        *)
AgentKilled(s) ==
    /\ "kill" \in Faults
    /\ Live(s)
    /\ Exit(s)
    /\ UNCHANGED <<graphVars, hostVars>>

(* What the agent's own code does; it always has a next step unless it     *)
(* waits for a request.                                                    *)
AgentStep(s) ==
    \/ HandleLock(s)
    \/ HandleReceivePack(s)
    \/ HandleRequestObjects(s)
    \/ PreApplyError(s)
    \/ PrepareDeploy(s)
    \/ PrepareReapply(s)
    \/ PrepareUnresolved(s)
    \/ AgentPanic(s)
    \/ SetCurrent(s)
    \/ RecordHostname(s)
    \/ RecordFails(s)
    \/ ApplyFails(s)
    \/ StartRollback(s)
    \/ RollbackCompletes(s)
    \/ RollbackFails(s)
    \/ AgentExit(s)
-----------------------------------------------------------------------------
(* Nothing runs on the host, so nothing caches its name or its store.      *)
Quiet(h) == \A s \in Slot : ahost[s] # h

(* The host is reprovisioned, or its store is deleted.                     *)
Wipe(h) ==
    /\ "wipe" \in Faults
    /\ Quiet(h)
    /\ current[h] # None \/ target[h] # None \/ hobjects[h] # {}
    /\ current' = [current EXCEPT ![h] = None]
    /\ target' = [target EXCEPT ![h] = None]
    /\ hobjects' = [hobjects EXCEPT ![h] = {}]
    /\ deployedAs' = [deployedAs EXCEPT ![h] = None]
    /\ UNCHANGED <<graphVars, processVars, pipeVars, job>>

Swap(f, a, b) == [f EXCEPT ![a] = f[b], ![b] = f[a]]

(* Two machines exchange their names (/etc/hostname and DNS).  A machine   *)
(* that takes a new name exchanges with one that was never deployed to.    *)
Rename(a, b) ==
    /\ "rename" \in Faults
    /\ a # b
    /\ Quiet(a) /\ Quiet(b)
    /\ current' = Swap(current, a, b)
    /\ target' = Swap(target, a, b)
    /\ hobjects' = Swap(hobjects, a, b)
    /\ deployedAs' = Swap(deployedAs, a, b)
    /\ UNCHANGED <<graphVars, processVars, pipeVars, job>>
=============================================================================
