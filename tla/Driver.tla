-------------------------------- MODULE Driver --------------------------------
(***************************************************************************)
(* The driver: `deptool deploy`, `reapply` and `sync` as an operator runs  *)
(* them (main.rs, plan.rs, deploy.rs, reapply.rs, sync.rs), with the       *)
(* operator's store.  One command runs at a time per operator; it has one  *)
(* thread per host.                                                        *)
(*                                                                         *)
(* phase:  idle -> confirm -> locking -> applying -> idle                  *)
(*                                   \-> fetching -> idle                  *)
(***************************************************************************)
EXTENDS Agent

VARIABLES
    tracking,   \* Operator -> Host -> refs/remotes/<host>
    objects,    \* Operator -> the commits in the operator's store
    main,       \* Operator -> refs/heads/main
    cmd,        \* Operator -> the command that runs
    phase,      \* Operator -> how far it is
    plan,       \* Operator -> the Plan, the reapply or the sync selection
    thread,     \* Operator -> Host -> the state of the host's thread
    conn,       \* Operator -> Host -> the agent it is connected to, or None
    actual,     \* Operator -> Host -> StaleHost.actual_commit
    diverged    \* Operator -> Host -> Hello showed target # current (reapply)

storeVars == <<tracking, objects, main>>
commandVars == <<cmd, phase, plan>>
threadVars == <<thread, conn, actual, diverged>>
driverVars == <<storeVars, commandVars, threadVars>>

ThreadState == {"none", "connect", "lock", "locked", "refused", "stale",
                "uptodate", "fetch", "fetched", "push", "pushing", "applying",
                "applied", "done", "rolledback", "failed"}

Plan == [commit : OptCommit, expected : [Host -> OptCommit],
         safe : [Host -> BOOLEAN]]

NoPlan == [commit |-> None, expected |-> [h \in Host |-> None],
           safe |-> [h \in Host |-> FALSE]]

StoreTypeOK ==
    /\ tracking \in [Operator -> [Host -> OptCommit]]
    /\ objects \in [Operator -> SUBSET Commit]
    /\ main \in [Operator -> OptCommit]

CommandTypeOK ==
    /\ cmd \in [Operator -> CommandKind \cup {"none"}]
    /\ phase \in [Operator -> {"idle", "confirm", "locking", "fetching", "applying"}]
    /\ plan \in [Operator -> Plan]

ThreadTypeOK ==
    /\ thread \in [Operator -> [Host -> ThreadState]]
    /\ conn \in [Operator -> [Host -> Slot \cup {None}]]
    /\ actual \in [Operator -> [Host -> OptCommit]]
    /\ diverged \in [Operator -> [Host -> BOOLEAN]]

DriverTypeOK == StoreTypeOK /\ CommandTypeOK /\ ThreadTypeOK

DriverInit ==
    /\ tracking = [o \in Operator |-> [h \in Host |-> None]]
    /\ objects = [o \in Operator |-> {}]
    /\ main = [o \in Operator |-> None]
    /\ cmd = [o \in Operator |-> "none"]
    /\ phase = [o \in Operator |-> "idle"]
    /\ plan = [o \in Operator |-> NoPlan]
    /\ thread = [o \in Operator |-> [h \in Host |-> "none"]]
    /\ conn = [o \in Operator |-> [h \in Host |-> None]]
    /\ actual = [o \in Operator |-> [h \in Host |-> None]]
    /\ diverged = [o \in Operator |-> [h \in Host |-> FALSE]]
-----------------------------------------------------------------------------
(* Store::host_tracking_refs: a ref to a commit without an entry for the   *)
(* host is skipped, like a ref that does not exist.                        *)
Tracked(o, h) ==
    IF tracking[o][h] # None /\ HasEntry(tracking[o][h], h)
      THEN tracking[o][h] ELSE None

(* The command has hosts H, one thread each.                               *)
StartThreads(o, H) ==
    thread' = [thread EXCEPT ![o] = [h \in Host |-> IF h \in H THEN "connect" ELSE "none"]]

Planned(o) == {h \in Host : thread[o][h] # "none"}

(* make_plan: the hosts whose subtree differs from what is deployed.       *)
Changed(o, g, limit) ==
    {h \in limit : \/ Tracked(o, h) = None
                   \/ TreeOf[tree[Tracked(o, h)]][h] # TreeOf[g][h]}

(* compute_status, which looks at the same refs but compares app by app.   *)
HostStatus(o, g, h) ==
    IF Tracked(o, h) = None THEN "NewHost"
    ELSE IF DOMAIN DiffApps(HostApps(Tracked(o, h), h), TreeOf[g][h]) = {} THEN "UpToDate"
    ELSE "HasChanges"

(* Mutant of PlanParents: commit on top of main, whatever the hosts run. *)
PlanParentsFromMain(o, H) == {main[o]} \ {None}

(* make_plan: only the hosts in the plan contribute parents.               *)
PlanParents(o, H) == Frontier(anc, {Tracked(o, h) : h \in H} \ {None})

(* make_plan and finalize: diff the configuration against the tracked      *)
(* state of the selected hosts and commit it on top of what they run.      *)
MakePlan(o, g, limit, c) ==
    LET H == Changed(o, g, limit)
    IN  /\ phase[o] = "idle"
        /\ "deploy" \in Commands
        /\ limit \subseteq DOMAIN TreeOf[g]
        /\ c \notin Created
        /\ H # {}
        /\ tree' = [tree EXCEPT ![c] = g]
        /\ anc' = [anc EXCEPT ![c] = Ancestry(anc, PlanParents(o, H))]
        /\ objects' = [objects EXCEPT ![o] = @ \cup {c}]
        /\ cmd' = [cmd EXCEPT ![o] = "deploy"]
        /\ phase' = [phase EXCEPT ![o] = "confirm"]
        /\ plan' = [plan EXCEPT ![o] =
              [commit   |-> c,
               expected |-> [h \in Host |-> IF h \in H THEN Tracked(o, h) ELSE None],
               safe     |-> [h \in Host |->
                   h \in H /\ HostPlanSafe(HostApps(Tracked(o, h), h), TreeOf[g][h])]]]
        /\ StartThreads(o, H)
        /\ UNCHANGED <<tracking, main, conn, actual, diverged,
                       processVars, pipeVars, hostVars, job>>

(* Start a command that only needs the tracked commits of the hosts H.     *)
Select(o, command, first, H) ==
    /\ phase[o] = "idle"
    /\ command \in Commands
    /\ H # {}
    /\ cmd' = [cmd EXCEPT ![o] = command]
    /\ phase' = [phase EXCEPT ![o] = first]
    /\ plan' = [plan EXCEPT ![o] = [NoPlan EXCEPT !.expected =
                   [h \in Host |-> IF h \in H THEN Tracked(o, h) ELSE None]]]
    /\ StartThreads(o, H)
    /\ UNCHANGED <<storeVars, conn, actual, diverged, graphVars,
                   processVars, pipeVars, hostVars, job>>

(* select_hosts_to_reapply: every host must have a tracking ref.           *)
StartReapply(o, H) ==
    /\ \A h \in H : Tracked(o, h) # None
    /\ Select(o, "reapply", "confirm", H)

(* select_hosts_to_sync; --changed selects some of the hosts.              *)
StartSync(o, H) == Select(o, "sync", "locking", H)

(* The operator looks at the plan for as long as they like, then agrees.   *)
Confirm(o) ==
    /\ phase[o] = "confirm"
    /\ phase' = [phase EXCEPT ![o] = "locking"]
    /\ UNCHANGED <<storeVars, cmd, plan, threadVars, graphVars,
                   processVars, pipeVars, hostVars, job>>
-----------------------------------------------------------------------------
(* Dropping a connection closes the agent's stdin and our end of stdout.   *)
DropPipes(S) ==
    /\ stdin' = [s \in Slot |-> stdin[s] /\ s \notin S]
    /\ reader' = [s \in Slot |-> reader[s] /\ s \notin S]
    /\ outbox' = [s \in Slot |-> IF s \in S THEN None ELSE outbox[s]]

Conns(o) == {conn[o][h] : h \in Host} \ {None}

(* The command returns: every connection it still has is dropped.          *)
EndCommand(o) ==
    /\ DropPipes(Conns(o))
    /\ cmd' = [cmd EXCEPT ![o] = "none"]
    /\ phase' = [phase EXCEPT ![o] = "idle"]
    /\ plan' = [plan EXCEPT ![o] = NoPlan]
    /\ StartThreads(o, {})
    /\ conn' = [conn EXCEPT ![o] = [h \in Host |-> None]]
    /\ actual' = [actual EXCEPT ![o] = [h \in Host |-> None]]
    /\ diverged' = [diverged EXCEPT ![o] = [h \in Host |-> FALSE]]
    /\ UNCHANGED <<storeVars, graphVars, processVars, inbox, hostVars, job>>

(* The thread is done with its connection and ends in the given state.     *)
Hangup(o, h, state) ==
    /\ DropPipes({conn[o][h]})
    /\ conn' = [conn EXCEPT ![o][h] = None]
    /\ thread' = [thread EXCEPT ![o][h] = state]
    /\ UNCHANGED <<actual, diverged, inbox>>

(* Take the message off the pipe and go on with the connection.            *)
Receive(o, h, state) ==
    /\ outbox' = [outbox EXCEPT ![conn[o][h]] = None]
    /\ thread' = [thread EXCEPT ![o][h] = state]
    /\ UNCHANGED <<conn, diverged, inbox, stdin, reader>>

(* A request to an agent that has exited is lost; the next read sees EOF.  *)
SendTo(s, r) == inbox' = [inbox EXCEPT ![s] = IF Live(s) THEN r ELSE None]

Got(o, h) == outbox[conn[o][h]].type

HasMessage(o, h) == conn[o][h] # None /\ outbox[conn[o][h]] # None

(* The operator answers no, or only wanted to see the plan or the diff.    *)
Decline(o) == phase[o] = "confirm" /\ EndCommand(o)

(* The driver dies, or fails on its own store, while a command runs.       *)
DriverCrash(o) ==
    /\ "crash" \in Faults
    /\ phase[o] \notin {"idle", "confirm"}
    /\ EndCommand(o)
-----------------------------------------------------------------------------
(* An agent process is started on the host and sends its Hello.            *)
Spawn(h, s) ==
    /\ Free(s)
    /\ ahost' = [ahost EXCEPT ![s] = h]
    /\ apc' = [apc EXCEPT ![s] = "idle"]
    /\ outbox' = [outbox EXCEPT ![s] = None]

(* connect_and_lock up to the Lock request.  What the Hello says of the    *)
(* refs was read before the lock is taken.                                 *)
ConnectAndLock(o, h, s) ==
    /\ phase[o] = "locking"
    /\ cmd[o] # "sync"
    /\ thread[o][h] = "connect"
    /\ Spawn(h, s)
    /\ inbox' = [inbox EXCEPT ![s] = LockRequest(plan[o].expected[h])]
    /\ stdin' = [stdin EXCEPT ![s] = TRUE]
    /\ reader' = [reader EXCEPT ![s] = TRUE]
    /\ conn' = [conn EXCEPT ![o][h] = s]
    /\ thread' = [thread EXCEPT ![o][h] = "lock"]
    /\ diverged' = [diverged EXCEPT ![o][h] =
                       cmd[o] = "reapply" /\ target[h] # current[h]]
    /\ UNCHANGED <<storeVars, commandVars, actual, graphVars, hostVars, job>>

(* run_sync compares the Hello with the tracking ref, without a lock.  A   *)
(* host that is up to date is hung up on at once.                          *)
ConnectForSync(o, h, s) ==
    LET stale == current[h] # plan[o].expected[h]
    IN  /\ phase[o] = "locking"
        /\ cmd[o] = "sync"
        /\ thread[o][h] = "connect"
        /\ Spawn(h, s)
        /\ inbox' = [inbox EXCEPT ![s] = None]
        /\ stdin' = [stdin EXCEPT ![s] = stale]
        /\ reader' = [reader EXCEPT ![s] = stale]
        /\ conn' = [conn EXCEPT ![o][h] = IF stale THEN s ELSE None]
        /\ thread' = [thread EXCEPT ![o][h] = IF stale THEN "stale" ELSE "uptodate"]
        /\ actual' = [actual EXCEPT ![o][h] = IF stale THEN current[h] ELSE None]
        /\ UNCHANGED <<storeVars, commandVars, diverged, graphVars, hostVars, job>>

(* The host is unreachable, the agent cannot be installed, or the machine  *)
(* that answers has another hostname.                                      *)
ConnectFails(o, h) ==
    /\ "drop" \in Faults
    /\ phase[o] = "locking"
    /\ thread[o][h] = "connect"
    /\ thread' = [thread EXCEPT ![o][h] = "refused"]
    /\ UNCHANGED <<storeVars, commandVars, conn, actual, diverged, graphVars,
                   processVars, pipeVars, hostVars, job>>

(* The answer to Lock.                                                     *)
ReadLock(o, h) ==
    /\ thread[o][h] = "lock"
    /\ HasMessage(o, h)
    /\ \/ /\ Got(o, h) = "Locked"
          /\ Receive(o, h, "locked")
          /\ UNCHANGED actual
       \/ /\ Got(o, h) = "LockStale"
          /\ Receive(o, h, "stale")
          /\ actual' = [actual EXCEPT ![o][h] = outbox[conn[o][h]].commit]
       \/ /\ Got(o, h) \notin {"Locked", "LockStale"}
          /\ Hangup(o, h, "refused")
    /\ UNCHANGED <<storeVars, commandVars, graphVars, processVars, hostVars, job>>
-----------------------------------------------------------------------------
(* The thread scope of connect_and_lock (or of run_sync) is over.          *)
Joined(o) ==
    /\ phase[o] = "locking"
    /\ \A h \in Planned(o) : thread[o][h] \in {"locked", "refused", "stale", "uptodate"}

(* Mutant of AllLocked: go ahead with the hosts that were locked. *)
AllLockedSome(o) == \E h \in Planned(o) : thread[o][h] = "locked"

(* locked.len() = hosts.len().                                             *)
AllLocked(o) == \A h \in Planned(o) : thread[o][h] = "locked"

StartApplying(o) ==
    /\ phase' = [phase EXCEPT ![o] = "applying"]
    /\ thread' = [thread EXCEPT ![o] =
                     [h \in Host |-> IF thread[o][h] = "locked" THEN "push" ELSE thread[o][h]]]
    /\ UNCHANGED <<tracking, objects, cmd, plan, conn, actual, diverged, graphVars,
                   processVars, pipeVars, hostVars, job>>

(* run_deploy: every host is locked, the commit is anchored as main.       *)
ProceedDeploy(o) ==
    /\ Joined(o)
    /\ cmd[o] = "deploy"
    /\ AllLocked(o)
    /\ main' = [main EXCEPT ![o] = plan[o].commit]
    /\ StartApplying(o)

(* run_reapply: no host's Hello showed an incomplete deploy.               *)
ProceedReapply(o) ==
    /\ Joined(o)
    /\ cmd[o] = "reapply"
    /\ AllLocked(o)
    /\ \A h \in Planned(o) : ~diverged[o][h]
    /\ UNCHANGED main
    /\ StartApplying(o)

(* run_reapply: one did, so the whole run is refused.                      *)
RefuseReapply(o) ==
    /\ Joined(o)
    /\ cmd[o] = "reapply"
    /\ AllLocked(o)
    /\ \E h \in Planned(o) : diverged[o][h]
    /\ EndCommand(o)

(* Not every host is locked: the stale ones are fetched from, while the    *)
(* locks that were taken are still held.  A sync always gets here.         *)
StartFetching(o) ==
    /\ Joined(o)
    /\ ~AllLocked(o)
    /\ phase' = [phase EXCEPT ![o] = "fetching"]
    /\ UNCHANGED <<storeVars, cmd, plan, threadVars, graphVars, processVars,
                   pipeVars, hostVars, job>>
-----------------------------------------------------------------------------
(* Mutant of NothingToFetch: a host without a commit is asked for one. *)
NothingToFetchFresh(o, c) == c \in objects[o]

(* There is no commit to fetch, or we have it already.                     *)
NothingToFetch(o, c) == c = None \/ c \in objects[o]

(* What the tracking ref of a stale host is set to, None to delete it.     *)
FetchedRef(o, h) == actual[o][h]

(* fetch_from_stale_host, one host at a time: a host without a commit      *)
(* loses its tracking ref, a commit we have is adopted at once, another    *)
(* one is requested from the session that is still open.                   *)
FetchStale(o, h) ==
    /\ phase[o] = "fetching"
    /\ thread[o][h] = "stale"
    /\ \A g \in Host : thread[o][g] # "fetch"
    /\ IF NothingToFetch(o, actual[o][h])
         THEN /\ tracking' = [tracking EXCEPT ![o][h] = FetchedRef(o, h)]
              /\ Hangup(o, h, "fetched")
         ELSE /\ SendTo(conn[o][h], ObjectsRequest(plan[o].expected[h]))
              /\ thread' = [thread EXCEPT ![o][h] = "fetch"]
              /\ UNCHANGED <<tracking, conn, actual, diverged, outbox, stdin, reader>>
    /\ UNCHANGED <<objects, main, commandVars, graphVars, processVars, hostVars, job>>

(* The pack is stored and the tracking ref set; a ref cannot be set to a   *)
(* commit that is not in the store.                                        *)
ReadObjects(o, h) ==
    /\ thread[o][h] = "fetch"
    /\ HasMessage(o, h)
    /\ \/ /\ Got(o, h) = "SendPack"
          /\ objects' = [objects EXCEPT ![o] = @ \cup outbox[conn[o][h]].pack]
          /\ IF actual[o][h] \in objects'[o]
               THEN /\ tracking' = [tracking EXCEPT ![o][h] = FetchedRef(o, h)]
                    /\ Hangup(o, h, "fetched")
               ELSE /\ UNCHANGED tracking
                    /\ Hangup(o, h, "failed")
       \/ /\ Got(o, h) # "SendPack"
          /\ Hangup(o, h, "failed")
          /\ UNCHANGED <<objects, tracking>>
    /\ UNCHANGED <<main, commandVars, graphVars, processVars, hostVars, job>>
-----------------------------------------------------------------------------
(* push_and_apply_host: the pack holds what the commit adds to the one the *)
(* host is expected to have.                                               *)
SendPack(o, h) ==
    /\ cmd[o] = "deploy"
    /\ thread[o][h] = "push"
    /\ SendTo(conn[o][h],
              ReceivePackRequest(Pack(anc, plan[o].commit, plan[o].expected[h])))
    /\ thread' = [thread EXCEPT ![o][h] = "pushing"]
    /\ UNCHANGED <<storeVars, commandVars, conn, actual, diverged, graphVars,
                   processVars, outbox, stdin, reader, hostVars, job>>

(* Send Apply and close stdin: the agent exits after this request.         *)
SendApply(s, r) ==
    /\ SendTo(s, r)
    /\ stdin' = [stdin EXCEPT ![s] = FALSE]

(* The answer to ReceivePack; on success Apply follows.                    *)
ReadPackReceived(o, h) ==
    /\ thread[o][h] = "pushing"
    /\ HasMessage(o, h)
    /\ \/ /\ Got(o, h) = "PackReceived"
          /\ SendApply(conn[o][h], ApplyDeploy(plan[o].commit, plan[o].safe[h]))
          /\ outbox' = [outbox EXCEPT ![conn[o][h]] = None]
          /\ thread' = [thread EXCEPT ![o][h] = "applying"]
          /\ UNCHANGED <<conn, actual, diverged, reader>>
       \/ /\ Got(o, h) # "PackReceived"
          /\ Hangup(o, h, "failed")
    /\ UNCHANGED <<storeVars, commandVars, graphVars, processVars, hostVars, job>>

(* reapply_host: there is nothing to push.                                 *)
SendReapply(o, h) ==
    /\ cmd[o] = "reapply"
    /\ thread[o][h] = "push"
    /\ SendApply(conn[o][h], ApplyReapply(plan[o].expected[h]))
    /\ thread' = [thread EXCEPT ![o][h] = "applying"]
    /\ UNCHANGED <<storeVars, commandVars, conn, actual, diverged, graphVars,
                   processVars, outbox, reader, hostVars, job>>

(* read_apply_messages: ApplyComplete is remembered and reading goes on    *)
(* until the agent closes the stream; every other outcome ends it.         *)
ReadApply(o, h) ==
    /\ thread[o][h] = "applying"
    /\ HasMessage(o, h)
    /\ \/ /\ Got(o, h) = "ApplyComplete"
          /\ Receive(o, h, "applied")
          /\ UNCHANGED actual
       \/ /\ Got(o, h) = "RolledBack"
          /\ Hangup(o, h, "rolledback")
       \/ /\ Got(o, h) \notin {"ApplyComplete", "RolledBack"}
          /\ Hangup(o, h, "failed")
    /\ UNCHANGED <<storeVars, commandVars, graphVars, processVars, hostVars, job>>

(* The stream ends after ApplyComplete: a deploy advances the tracking ref.*)
ReadApplied(o, h) ==
    /\ thread[o][h] = "applied"
    /\ ~Live(conn[o][h])
    /\ tracking' = IF cmd[o] = "deploy"
                     THEN [tracking EXCEPT ![o][h] = plan[o].commit]
                     ELSE tracking
    /\ Hangup(o, h, "done")
    /\ UNCHANGED <<objects, main, commandVars, graphVars, processVars, hostVars, job>>

Waiting == {"lock", "fetch", "pushing", "applying"}

LostState(state) == IF state = "lock" THEN "refused" ELSE "failed"

(* Mutant of ReadEOF: only an apply notices that the agent is gone. *)
ReadEOFOnlyApplying(o, h) ==
    /\ thread[o][h] = "applying"
    /\ ~Live(conn[o][h])
    /\ outbox[conn[o][h]] = None
    /\ Hangup(o, h, LostState(thread[o][h]))
    /\ UNCHANGED <<storeVars, commandVars, graphVars, processVars, hostVars, job>>

(* The stream ends before the answer the thread waits for.                 *)
ReadEOF(o, h) ==
    /\ thread[o][h] \in Waiting
    /\ ~Live(conn[o][h])
    /\ outbox[conn[o][h]] = None
    /\ Hangup(o, h, LostState(thread[o][h]))
    /\ UNCHANGED <<storeVars, commandVars, graphVars, processVars, hostVars, job>>

(* The network fails while the thread waits.  The request may be lost with *)
(* it; the agent notices only an end of file, after what it works on.      *)
ConnectionLost(o, h) ==
    /\ "drop" \in Faults
    /\ thread[o][h] \in Waiting \cup {"applied"}
    /\ DropPipes({conn[o][h]})
    /\ inbox' \in {inbox, [inbox EXCEPT ![conn[o][h]] = None]}
    /\ conn' = [conn EXCEPT ![o][h] = None]
    /\ thread' = [thread EXCEPT ![o][h] = LostState(@)]
    /\ UNCHANGED <<actual, diverged>>
    /\ UNCHANGED <<storeVars, commandVars, graphVars, processVars, hostVars, job>>

(* The threads have ended, or the last stale host was handled.             *)
Finish(o) ==
    /\ \/ /\ phase[o] = "applying"
          /\ \A h \in Planned(o) : thread[o][h] \in {"done", "rolledback", "failed"}
       \/ /\ phase[o] = "fetching"
          /\ \A h \in Planned(o) : thread[o][h] \notin {"stale", "fetch"}
    /\ EndCommand(o)
-----------------------------------------------------------------------------
(* What the operator decides to do.                                        *)
OperatorStep(o) ==
    \/ \E g \in Config, c \in Commit :
         \E limit \in SUBSET DOMAIN TreeOf[g] : MakePlan(o, g, limit, c)
    \/ \E H \in SUBSET Host : StartReapply(o, H)
    \/ \E H \in SUBSET Host : StartSync(o, H)
    \/ Confirm(o)
    \/ Decline(o)

Connect(o, h) == \E s \in Slot : ConnectAndLock(o, h, s) \/ ConnectForSync(o, h, s)

(* What the thread of one host does once it is connected.                  *)
ThreadStep(o, h) ==
    \/ ReadLock(o, h)
    \/ FetchStale(o, h)
    \/ ReadObjects(o, h)
    \/ SendPack(o, h)
    \/ ReadPackReceived(o, h)
    \/ SendReapply(o, h)
    \/ ReadApply(o, h)
    \/ ReadApplied(o, h)
    \/ ReadEOF(o, h)

(* What the command does between its phases.                               *)
CommandStep(o) ==
    \/ ProceedDeploy(o)
    \/ ProceedReapply(o)
    \/ RefuseReapply(o)
    \/ StartFetching(o)
    \/ Finish(o)

DriverFault(o) ==
    \/ DriverCrash(o)
    \/ \E h \in Host : ConnectFails(o, h) \/ ConnectionLost(o, h)
=============================================================================
