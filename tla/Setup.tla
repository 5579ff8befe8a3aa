-------------------------------- MODULE Setup --------------------------------
(***************************************************************************)
(* The agent binaries of one host: how try_connect starts an agent,        *)
(* installs the binary when there seems to be none, and connects again;    *)
(* and how every agent, as it starts, removes old binaries of all          *)
(* versions.  Operators do this at the same time, with the same or with    *)
(* different versions, and an install goes on at the host when its driver  *)
(* has given up.                                                           *)
(*                                                                         *)
(* The name of a binary is its version.  Its contents are the chunks that  *)
(* were written; its size is the place of the last of them.                *)
(***************************************************************************)
EXTENDS Naturals, Sequences, FiniteSetsExt, SequencesExt

CONSTANTS
    Operator,
    Version,     \* builds of Deptool
    Chunks,      \* how many writes dd needs for a binary
    MaxSize,     \* GC_MAX_SIZE_BYTES
    Faults       \* which of FaultKinds can happen

FaultKinds ==
    {"ssh",       \* a connection cannot be made
     "drop",      \* a connection breaks during an install
     "dd",        \* the disk is full
     "store",     \* the agent cannot open its store, and exits with 1
     "missing"}   \* an operator has no binary for the host's platform

ASSUME SetupAssumption ==
    /\ IsFiniteSet(Version)
    /\ Chunks \in Nat \ {0} /\ MaxSize \in Nat
    /\ Faults \subseteq FaultKinds

VARIABLES
    order,     \* the versions in the bin dir, by mtime, oldest first
    data,      \* Version -> the chunks in its file
    exec,      \* the versions whose file is executable
    old,       \* the versions whose file is at least GC_MIN_AGE old
    build,     \* Operator -> the version it runs
    cache,     \* operators who have the binary for the host
    driver,    \* Operator -> where its try_connect is
    outcome,   \* Operator -> how the last one ended
    remote,    \* Operator -> what runs on the host on its behalf
    fed,       \* Operator -> the chunks its dd has written so far
    linked,    \* operators whose dd or agent has the file at its path open
    counted,   \* Operator -> the files that its agent's gc counts in total_size
    list,      \* Operator -> the files among them that it is going to remove
    raced,     \* operators whose install someone else interfered with
    cut        \* versions of which an install was cut short, and none completed since

dirVars     == <<order, data, exec, old>>
driverVars  == <<build, cache, driver, outcome>>
gcVars      == <<counted, list>>
historyVars == <<raced, cut>>
vars == <<dirVars, driverVars, remote, fed, linked, gcVars, historyVars>>

Present(v) == v \in Range(order)
Whole(v)   == data[v] = 1 .. Chunks
Size(v)    == Max(data[v] \cup {0})

(* The kernel's ETXTBSY, for those who write or execute the same file.     *)
Writers(v)  == {p \in linked : build[p] = v /\ remote[p] = "dd"}
Running(v)  == {p \in linked : build[p] = v /\ remote[p] \in {"list", "remove", "agent"}}
Runnable(v) == Present(v) /\ v \in exec /\ Whole(v) /\ Writers(v) = {}

Without(s, v) ==
    IF v \in Range(s) THEN RemoveAt(s, CHOOSE i \in DOMAIN s : s[i] = v) ELSE s

(* A write makes the file the newest.                                      *)
Touch(v) ==
    /\ order' = Append(Without(order, v), v)
    /\ old' = old \ {v}

(* The bin dir holds binaries of earlier deploys.                          *)
Init ==
    /\ order \in SetToAllKPermutations(Version)
    /\ data = [v \in Version |-> IF v \in Range(order) THEN 1 .. Chunks ELSE {}]
    /\ exec = Range(order) /\ old \in SUBSET Range(order)
    /\ build \in [Operator -> Version]
    /\ cache \in IF "missing" \in Faults THEN SUBSET Operator ELSE {Operator}
    /\ driver = [o \in Operator |-> "idle"]
    /\ outcome = [o \in Operator |-> "other"]
    /\ remote = [o \in Operator |-> "none"]
    /\ fed = [o \in Operator |-> 0]
    /\ linked = {}
    /\ counted = [o \in Operator |-> {}] /\ list = [o \in Operator |-> {}]
    /\ raced = {} /\ cut = {}
-----------------------------------------------------------------------------
(* An attempt is over.                                                     *)
Ends(o, how) ==
    /\ driver' = [driver EXCEPT ![o] = "idle"]
    /\ outcome' = [outcome EXCEPT ![o] = how]
    /\ raced' = raced \ {o}
    /\ UNCHANGED build

Goes(o, d) == driver' = [driver EXCEPT ![o] = d] /\ UNCHANGED <<build, outcome, raced>>

Stays == UNCHANGED <<build, driver, outcome, raced>>

Runs(o, r) == remote' = [remote EXCEPT ![o] = r]

(* An operator deploys, with whatever build of Deptool it has by now.      *)
(* A host gets a new command from an operator when the last one is over;   *)
(* what is left running meets the attempts of the other operators.         *)
Start(o) ==
    /\ driver[o] = "idle" /\ remote[o] = "none"
    /\ driver' = [driver EXCEPT ![o] = "connect"]
    /\ outcome' = [outcome EXCEPT ![o] = "other"]
    /\ \E v \in Version : build' = [build EXCEPT ![o] = v]
    /\ raced' = raced \ {o}
    /\ UNCHANGED <<dirVars, cache, remote, fed, linked, gcVars, cut>>

Connecting(o) == driver[o] \in {"connect", "reconnect"} /\ remote[o] = "none"

ConnectFails(o) ==
    /\ "ssh" \in Faults /\ Connecting(o)
    /\ Ends(o, "other")
    /\ UNCHANGED <<dirVars, cache, remote, fed, linked, gcVars, cut>>

(* The binary is there and runs.                                           *)
AgentStarts(o) ==
    /\ Connecting(o) /\ Runnable(build[o])
    /\ Runs(o, "list")
    /\ linked' = linked \cup {o}
    /\ UNCHANGED <<dirVars, driverVars, fed, gcVars, historyVars>>

(* sudo exits with 1 when it cannot execute the file.  One that is not     *)
(* whole may also be killed by a signal, and sudo runs an empty file as a  *)
(* shell script, which succeeds.                                           *)
ExitCodes(v) ==
    IF ~Present(v) \/ v \notin exec \/ Writers(v) # {} THEN {1}
    ELSE IF Whole(v) THEN {}
    ELSE IF Size(v) = 0 THEN {0} ELSE {1, 139}

(* RemoteSession::new and try_connect, when there is no hello: the first   *)
(* exit with 1 leads to an install.                                        *)
NoHello(o, code) ==
    IF code # 1 THEN Ends(o, "ProtocolError")
    ELSE IF driver[o] = "connect" THEN Goes(o, "install")
    ELSE Ends(o, "other")

BinaryFails(o) ==
    /\ Connecting(o)
    /\ \E code \in ExitCodes(build[o]) : NoHello(o, code)
    /\ UNCHANGED <<dirVars, cache, remote, fed, linked, gcVars, cut>>

(* run_agent fails after its gc, before the hello.                         *)
StoreFails(o) ==
    /\ "store" \in Faults /\ remote[o] = "agent" /\ driver[o] \in {"connect", "reconnect"}
    /\ NoHello(o, 1)
    /\ Runs(o, "none") /\ linked' = linked \ {o}
    /\ UNCHANGED <<dirVars, cache, fed, gcVars, cut>>

Hello(o) ==
    /\ remote[o] = "agent" /\ driver[o] \in {"connect", "reconnect"}
    /\ Goes(o, "session")
    /\ UNCHANGED <<dirVars, cache, remote, fed, linked, gcVars, cut>>

(* The command is over, or its connection broke: the agent reads EOF.      *)
Close(o) ==
    /\ driver[o] = "session"
    /\ Goes(o, "idle")
    /\ UNCHANGED <<dirVars, cache, remote, fed, linked, gcVars, cut>>

AgentExits(o) ==
    /\ remote[o] = "agent" /\ driver[o] = "idle"
    /\ Runs(o, "none") /\ linked' = linked \ {o}
    /\ UNCHANGED <<dirVars, driverVars, fed, gcVars, historyVars>>
-----------------------------------------------------------------------------
(* An agent's gc is going to remove the file.                              *)
Listing(v) == \E o \in Operator : \E f \in list[o] : f.version = v

(* dd truncates what is at the path, which fails if it is being executed,  *)
(* and needs nothing from the driver to do so.                             *)
Open(o) ==
    LET v == build[o]
    IN  /\ driver[o] = "install" /\ remote[o] = "none" /\ Running(v) = {}
        /\ Touch(v)
        /\ data' = [data EXCEPT ![v] = {}]
        /\ exec' = IF Present(v) THEN exec ELSE exec \ {v}
        /\ Runs(o, "dd") /\ linked' = linked \cup {o}
        /\ driver' = [driver EXCEPT ![o] = IF o \in cache THEN "send" ELSE "idle"]
        /\ outcome' = IF o \in cache THEN outcome ELSE [outcome EXCEPT ![o] = "MissingBinary"]
        /\ raced' = raced \cup {p \in Operator : /\ build[p] = v
                                                 /\ p # o /\ driver[p] \in {"send", "verify", "reconnect"}}
                         \cup {p \in cache : p = o /\ (Writers(v) # {} \/ Listing(v))}
        /\ cut' = IF o \in cache THEN cut ELSE cut \cup {v}
        /\ UNCHANGED <<build, cache, fed, gcVars>>

(* The chain ends without a checksum.                                      *)
OpenFails(o) ==
    /\ driver[o] = "install" /\ remote[o] = "none"
    /\ Running(build[o]) # {} \/ "ssh" \in Faults
    /\ Ends(o, IF o \in cache THEN "other" ELSE "MissingBinary")
    /\ UNCHANGED <<dirVars, cache, remote, fed, linked, gcVars, cut>>

(* dd copies what the driver sends, to a file that may be unlinked.        *)
Write(o) ==
    LET v == build[o]
    IN  /\ remote[o] = "dd" /\ driver[o] = "send" /\ fed[o] < Chunks
        /\ fed' = [fed EXCEPT ![o] = @ + 1]
        /\ IF o \in linked
           THEN Touch(v) /\ data' = [data EXCEPT ![v] = @ \cup {fed[o] + 1}]
           ELSE UNCHANGED <<order, old, data>>
        /\ UNCHANGED <<exec, driverVars, remote, linked, gcVars, historyVars>>

(* Mutant of EndOfInput: does not wait for the last write.                 *)
EndOfInputEarly(o) == driver[o] # "send" \/ fed[o] + 1 >= Chunks

(* The driver closes stdin after the last write, and so does a connection  *)
(* that is gone.                                                           *)
EndOfInput(o) == driver[o] # "send" \/ fed[o] = Chunks

DdEnds(o) ==
    /\ remote[o] = "dd" /\ EndOfInput(o)
    /\ Runs(o, "chmod") /\ linked' = linked \ {o} /\ fed' = [fed EXCEPT ![o] = 0]
    /\ IF driver[o] = "send" THEN Goes(o, "verify") ELSE Stays
    /\ UNCHANGED <<dirVars, cache, gcVars, cut>>

DdFails(o) ==
    /\ "dd" \in Faults /\ remote[o] = "dd"
    /\ Runs(o, "none") /\ linked' = linked \ {o} /\ fed' = [fed EXCEPT ![o] = 0]
    /\ IF driver[o] = "send" THEN Ends(o, "other") ELSE Stays
    /\ cut' = cut \cup {build[o]}
    /\ UNCHANGED <<dirVars, cache, gcVars>>

Chmod(o) ==
    /\ remote[o] = "chmod"
    /\ IF Present(build[o])
       THEN exec' = exec \cup {build[o]} /\ Runs(o, "sum") /\ Stays
       ELSE /\ Runs(o, "none") /\ UNCHANGED exec
            /\ IF driver[o] = "verify" THEN Ends(o, "other") ELSE Stays
    /\ UNCHANGED <<order, data, old, cache, fed, linked, gcVars, cut>>

(* sha256sum, and the driver's comparison.                                 *)
Sum(o) ==
    LET v == build[o]
    IN  /\ remote[o] = "sum" /\ Runs(o, "none")
        /\ IF driver[o] # "verify" THEN Stays
           ELSE IF Present(v) /\ Whole(v) THEN Goes(o, "reconnect")
           ELSE Ends(o, "other")
        /\ cut' = IF driver'[o] = "reconnect" THEN cut \ {v} ELSE cut
        /\ UNCHANGED <<dirVars, cache, fed, linked, gcVars>>

(* The driver gives up; the commands at the host go on.                    *)
Drop(o) ==
    /\ "drop" \in Faults /\ driver[o] \in {"send", "verify"}
    /\ Ends(o, "other")
    /\ cut' = cut \cup {build[o]}
    /\ UNCHANGED <<dirVars, cache, remote, fed, linked, gcVars>>

(* The operator does as the error message says.                            *)
Provide(o) ==
    /\ o \notin cache /\ outcome[o] = "MissingBinary"
    /\ cache' = cache \cup {o}
    /\ UNCHANGED <<dirVars, build, driver, outcome, remote, fed, linked, gcVars, historyVars>>
-----------------------------------------------------------------------------
(* Mutant of Deletable: its own binary too.                                *)
DeletableOwn(o) == old

(* Mutant of Deletable: the age does not matter.                           *)
DeletableAnyAge(o) == Range(order) \ {build[o]}

(* gc_bin_dir, for an agent of this operator.                              *)
Deletable(o) == old \ {build[o]}

(* The files in the bin dir, with the sizes that are seen now.             *)
Files == {[version |-> order[i], place |-> i, size |-> Size(order[i])] : i \in DOMAIN order}

TotalSize(o) == MapThenSumSet(LAMBDA f : f.size, counted[o])

GcLists(o) ==
    /\ remote[o] = "list" /\ Runs(o, "remove")
    /\ counted' = [counted EXCEPT ![o] = Files]
    /\ list' = [list EXCEPT ![o] = {f \in Files : f.version \in Deletable(o)}]
    /\ UNCHANGED <<dirVars, driverVars, fed, linked, historyVars>>

(* Oldest first, by the times that were seen.                              *)
CanRemove(o, f) ==
    /\ TotalSize(o) > MaxSize
    /\ f \in list[o] /\ \A g \in list[o] : f.place <= g.place
    /\ Present(f.version)

GcRemoves(o) ==
    /\ remote[o] = "remove"
    /\ \E f \in list[o] :
         LET v == f.version
         IN  /\ CanRemove(o, f)
             /\ order' = Without(order, v) /\ old' = old \ {v} /\ exec' = exec \ {v}
             /\ data' = [data EXCEPT ![v] = {}]
             /\ linked' = {p \in linked : build[p] # v}
             /\ counted' = [counted EXCEPT ![o] = @ \ {f}]
             /\ list' = [list EXCEPT ![o] = @ \ {f}]
    /\ UNCHANGED <<driverVars, remote, fed, historyVars>>

(* It is done, or stops at a file that is gone, which is only printed.     *)
GcEnds(o) ==
    /\ remote[o] = "remove" /\ \A f \in list[o] : ~CanRemove(o, f)
    /\ Runs(o, "agent")
    /\ counted' = [counted EXCEPT ![o] = {}] /\ list' = [list EXCEPT ![o] = {}]
    /\ UNCHANGED <<dirVars, driverVars, fed, linked, historyVars>>

(* A day passes; no attempt takes as long as that.                         *)
Day ==
    /\ \A o \in Operator : driver[o] \in {"idle", "session"} /\ remote[o] \in {"none", "agent"}
    /\ old # Range(order)
    /\ old' = Range(order)
    /\ UNCHANGED <<order, data, exec, driverVars, remote, fed, linked, gcVars, historyVars>>

Connect(o) ==
    \/ Start(o) \/ ConnectFails(o) \/ AgentStarts(o) \/ BinaryFails(o)
    \/ StoreFails(o) \/ Hello(o) \/ Close(o) \/ AgentExits(o)

Install(o) ==
    \/ Open(o) \/ OpenFails(o) \/ Write(o) \/ DdEnds(o) \/ DdFails(o)
    \/ Chmod(o) \/ Sum(o) \/ Drop(o) \/ Provide(o)

Gc(o) == GcLists(o) \/ GcRemoves(o) \/ GcEnds(o)

Next == Day \/ \E o \in Operator : Connect(o) \/ Install(o) \/ Gc(o)

Spec == Init /\ [][Next]_vars
-----------------------------------------------------------------------------
File == [version : Version, place : Nat \ {0}, size : 0 .. Chunks]

(* Every variable has its type.  gc's list never names its own version,    *)
(* and holds nothing that total_size (a u64) does not count, so that it    *)
(* cannot fall below zero.                                                 *)
TypeOK ==
    /\ order \in Seq(Version) /\ IsInjective(order)
    /\ data \in [Version -> SUBSET (1 .. Chunks)]
    /\ exec \subseteq Range(order) /\ old \subseteq Range(order)
    /\ build \in [Operator -> Version]
    /\ {cache, linked, raced} \subseteq SUBSET Operator /\ cut \subseteq Version
    /\ driver \in [Operator -> {"idle", "connect", "install", "send", "verify", "reconnect", "session"}]
    /\ outcome \in [Operator -> {"other", "MissingBinary", "ProtocolError"}]
    /\ remote \in [Operator -> {"none", "dd", "chmod", "sum", "list", "remove", "agent"}]
    /\ fed \in [Operator -> 0 .. Chunks]
    /\ counted \in [Operator -> SUBSET File] /\ list \in [Operator -> SUBSET File]
    /\ \A o \in Operator : list[o] \subseteq {f \in counted[o] : f.version # build[o]}

(* install returns Ok only for a binary that the next connect can run, and *)
(* no gc of another version takes it away in between, unless an operator   *)
(* of the same version installs over it, or a gc had listed the file       *)
(* before the install began.                                               *)
VerifiedRuns ==
    \A o \in Operator : driver[o] = "reconnect" /\ o \notin raced => Runnable(build[o])

(* Operators never lock each other out of a host: a binary can be run or   *)
(* installed, unless an install of that version was cut short and no other *)
(* one was verified since.                                                 *)
OnlyCutShort ==
    [][\A o \in Operator :
         outcome[o] # "ProtocolError" /\ outcome'[o] = "ProtocolError" => build[o] \in cut]_vars

(* HostError::explanation: "Build or download such a binary for each       *)
(* platform below, and place it at the path shown".  When that is done and *)
(* nothing fails, the agent is installed.                                  *)
HintHelps == \A o \in Operator : o \in cache => outcome[o] # "ProtocolError"
=============================================================================
