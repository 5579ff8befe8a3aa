------------------------------ MODULE HostApply ------------------------------
(***************************************************************************)
(* One host's disk while an agent that holds the lock applies commits to   *)
(* it: the checkouts, the symlinks on the host and the enablement of       *)
(* systemd units, one filesystem step at a time, so that an apply can fail *)
(* or die between any two of them.  Refs, locks and connections are in     *)
(* Agent; here one apply runs at a time, which the lock guarantees.        *)
(*                                                                         *)
(* A commit is its index in `commits', the sequence of the host trees that *)
(* were deployed; 0 is no commit.  An app is a number, so that the apps    *)
(* have the order in which checkout() visits them.                         *)
(***************************************************************************)
EXTENDS PlanDiff, Naturals, Sequences, FiniteSets, FiniteSetsExt

CONSTANTS Configs,     \* the host trees the operators deploy
          MaxCommits,  \* bound on the number of deploys
          Faults       \* which of FaultKinds can happen

FaultKinds == {"unit", "disk", "crash", "drift"}

App    == UNION {DOMAIN t : t \in Configs}
Path   == UNION {UNION {DOMAIN t[a].symlinks : a \in DOMAIN t} : t \in Configs}
Name   == UNION {UNION {UNION {DOMAIN t[a].dirs[d] : d \in Subdir} : a \in DOMAIN t} : t \in Configs}
Unit   == UNION {UNION {t[a].enabled : a \in DOMAIN t} : t \in Configs}

(* Store::validate: no two apps of a host provide the same file or link.   *)
(* Which units the manifests enable is not checked.                        *)
Valid(tree) ==
    \A a, b \in DOMAIN tree : a # b =>
        /\ \A d \in Subdir : DOMAIN tree[a].dirs[d] \cap DOMAIN tree[b].dirs[d] = {}
        /\ DOMAIN tree[a].symlinks \cap DOMAIN tree[b].symlinks = {}

ASSUME ConfigsAssumption ==
    /\ \A t \in Configs : Valid(t)
    /\ App \subseteq Nat \ {0}
    /\ MaxCommits \in Nat
    /\ Faults \subseteq FaultKinds

VARIABLES
    commits,   \* the deployed host trees, in the order of their commits
    current,   \* refs/heads/current
    target,    \* refs/heads/target
    version,   \* version[a][c]: the directory of app a for commit c
    link,      \* link[a]: where the app's symlinks point
    manifest,  \* manifest[p]: what is at the link path p
    managed,   \* managed[d][n]: the app that the link n in d points into, or 0
    enabled,   \* enabled[u]: the checkout that systemd's enablement names
    job,       \* the apply in progress
    phase,     \* the phase it is in, "idle" without one
    left,      \* what the phase still has to do
    outcome,   \* how the last apply ended
    tried,     \* trees whose last apply neither completed nor was rolled back
    drifted    \* since the last completed reapply someone changed the disk, a
               \* reapply did not complete, or a rollback trusted an incomplete
               \* checkout

refVars  == <<commits, current, target>>
diskVars == <<version, link, manifest, managed, enabled>>
jobVars  == <<job, phase, left, outcome>>
vars     == <<refVars, diskVars, jobVars, tried, drifted>>

Mode    == {"deploy", "reapply"}
Outcome == {"none", "done", "failed", "rolled_back", "rollback_failed", "died"}
Commits == 0 .. MaxCommits
NoLinks == [current |-> 0, previous |-> 0, next |-> 0]

(* What can be at a manifest link's path: nothing, a link through an app's *)
(* `current' directory, or something that is not Deptool's.                *)
Absent  == <<>>
File    == <<"file">>
Foreign == <<"foreign_symlink">>
Links   == UNION {UNION {{<<a, t[a].symlinks[p]>> : p \in DOMAIN t[a].symlinks} :
                            a \in DOMAIN t} : t \in Configs}

Tree(c) == IF c = 0 THEN NoApps ELSE commits[c]

(* desired_subdir_symlinks: the app that provides file n of directory d.   *)
Owner(tree, d, n) ==
    LET owners == {a \in DOMAIN tree : n \in DOMAIN tree[a].dirs[d]}
    IN  IF owners = {} THEN 0 ELSE Max(owners)

(* desired_symlinks: what a tree wants at a link path.                     *)
DesiredLink(tree, p) ==
    LET owners == {a \in DOMAIN tree : p \in DOMAIN tree[a].symlinks}
    IN  IF owners = {} THEN Absent ELSE LET a == Max(owners) IN <<a, tree[a].symlinks[p]>>

(* A deploy goes from the current commit to the new one, a reapply from    *)
(* the empty tree, and a rollback from the failed commit back.             *)
From(j) == Tree(IF j.rollback THEN j.goal ELSE IF j.mode = "deploy" THEN j.base ELSE 0)
ToCommit(j) == IF j.rollback THEN j.base ELSE j.goal
To(j) == Tree(ToCommit(j))
System(j) == DiffHost(From(j), To(j))

(* Every unit the plan touches, newly enabled or merely restarted.         *)
Touched(system) == system.units.enable \cup system.units.restart

(* Mutant of Phases: reconciles the unit links before it disables units.   *)
PhasesReconcileFirst ==
    <<"checkout", "remove", "change", "create", "networkd", "networkctl",
      "quadlets", "sysusers", "run_sysusers", "systemd", "disable",
      "enable", "restart", "record", "gc">>

(* The order of apply_modification and of activate.                        *)
Phases ==
    <<"checkout", "remove", "change", "create", "networkd", "networkctl",
      "quadlets", "sysusers", "run_sysusers", "disable", "systemd",
      "enable", "restart", "record", "gc">>

(* collect_managed_symlinks: the links in directory d that go through an   *)
(* app's `current'.  Those that systemctl made name a checkout, they are   *)
(* in `enabled' and do not count.                                          *)
Managed(d) == {n \in Name : managed[d][n] # 0}

(* What phase p of apply j, with this diff, has to do on the disk it finds. *)
Work(j, system, p) ==
    CASE p = "checkout" ->
            {<<a, IF a \in DOMAIN To(j) THEN "unpack" ELSE "remove">> :
                a \in DOMAIN DiffApps(From(j), To(j))}
      [] p \in {"remove", "change", "create"} -> system.symlinks[p]
      [] p \in Subdir ->
            LET wanted == {n \in Name : Owner(To(j), p, n) # 0}
            IN  (Managed(p) \ wanted) \cup {n \in wanted : managed[p][n] # Owner(To(j), p, n)}
      [] p = "networkctl" ->
            IF system.dirs["networkd"].content_changed THEN {"reload"} ELSE {}
      [] p = "run_sysusers" ->
            IF system.dirs["sysusers"].content_changed THEN {"run"} ELSE {}
      [] p = "disable" -> system.units.disable
      [] p = "enable" -> Touched(system)
      [] p = "restart" -> IF Touched(system) = {} THEN {} ELSE {"jobs"}
      [] p = "record" -> {"refs"}
      [] p = "gc" -> IF j.rollback THEN {} ELSE App
-----------------------------------------------------------------------------
Init ==
    /\ commits = <<>> /\ current = 0 /\ target = 0
    /\ version = [a \in App |-> [c \in 1 .. MaxCommits |-> "none"]]
    /\ link = [a \in App |-> NoLinks]
    /\ manifest = [p \in Path |-> Absent]
    /\ managed = [d \in Subdir |-> [n \in Name |-> 0]]
    /\ enabled = [u \in Unit |-> <<>>]
    /\ job = [mode |-> "deploy", base |-> 0, goal |-> 0, rollback |-> FALSE]
    /\ phase = "idle" /\ left = {} /\ outcome = "none"
    /\ tried = {} /\ drifted = FALSE

(* prepare_apply has fixed what the apply is to do; "prepared" comes       *)
(* before the first of Phases.                                             *)
Begin(mode, goal) ==
    /\ phase = "idle"
    /\ job' = [mode |-> mode, base |-> current, goal |-> goal, rollback |-> FALSE]
    /\ phase' = "prepared" /\ left' = {} /\ outcome' = "none"
    /\ UNCHANGED <<current, diskVars>>

(* Mutant of Deploy: the commit's objects never reached the host.          *)
DeployUnreceived(tree) ==
    LET c == Len(commits) + 1
    IN  /\ c <= MaxCommits /\ tree # Tree(current)
        /\ Begin("deploy", c)
        /\ target' = c
        /\ tried' = tried \cup {tree}
        /\ UNCHANGED <<commits, drifted>>

(* Mutant of Deploy: leaves the target ref where it is.                    *)
DeployNoTarget(tree) ==
    LET c == Len(commits) + 1
    IN  /\ c <= MaxCommits /\ tree # Tree(current)
        /\ Begin("deploy", c)
        /\ commits' = Append(commits, tree)
        /\ tried' = tried \cup {tree}
        /\ UNCHANGED <<drifted, target>>

(* The driver plans a host only when its tree changes, and makes a commit  *)
(* for every deploy.                                                       *)
Deploy(tree) ==
    LET c == Len(commits) + 1
    IN  /\ c <= MaxCommits /\ tree # Tree(current)
        /\ Begin("deploy", c)
        /\ commits' = Append(commits, tree)
        /\ target' = c
        /\ tried' = tried \cup {tree}
        /\ UNCHANGED drifted

(* Mutant of Reapply: it takes up again what an apply left half done. *)
ReapplyDiverged ==
    /\ current # 0
    /\ Begin("reapply", current)
    /\ drifted' = TRUE
    /\ UNCHANGED <<commits, target, tried>>

(* A reapply is refused while the target ref has diverged.                 *)
Reapply ==
    /\ current # 0 /\ current = target
    /\ Begin("reapply", current)
    /\ drifted' = TRUE
    /\ UNCHANGED <<commits, target, tried>>

(* Go to the first phase that has work for apply j, from number i on.      *)
Enter(j, i) ==
    LET system == System(j)
        busy == {k \in i .. Len(Phases) : Work(j, system, Phases[k]) # {}}
    IN  /\ job' = j
        /\ IF busy = {}
           THEN /\ phase' = "idle" /\ left' = {}
                /\ outcome' = IF j.rollback THEN "rolled_back" ELSE "done"
                /\ tried' = tried \ {commits[j.goal]}
                /\ drifted' = (drifted /\ j.mode = "deploy")
           ELSE /\ phase' = Phases[Min(busy)] /\ left' = Work(j, system, Phases[Min(busy)])
                /\ UNCHANGED <<outcome, tried, drifted>>

Number(p) == IF p = "prepared" THEN 0 ELSE CHOOSE k \in DOMAIN Phases : Phases[k] = p

Proceed ==
    /\ phase # "idle" /\ left = {}
    /\ Enter(job, Number(phase) + 1)
    /\ UNCHANGED <<refVars, diskVars>>

(* The phase has done item x of its work, and has the items of more to do. *)
Did(x, more) ==
    /\ left' = (left \ {x}) \cup more
    /\ UNCHANGED <<job, phase, outcome, tried, drifted>>
-----------------------------------------------------------------------------
(* checkout: the apps one by one, in order.                                *)
Visit(a, step) ==
    /\ phase = "checkout"
    /\ <<a, step>> \in left
    /\ \A x \in left : a <= x[1]

RemoveApp(a) ==
    /\ Visit(a, "remove")
    /\ version' = [version EXCEPT ![a] = [c \in 1 .. MaxCommits |-> "none"]]
    /\ link' = [link EXCEPT ![a] = NoLinks]
    /\ Did(<<a, "remove">>, {})
    /\ UNCHANGED <<refVars, manifest, managed, enabled>>

(* Mutant of NeedsCheckout: trusts whatever directory it finds.            *)
NeedsCheckoutReuse(a) == version[a][ToCommit(job)] = "none"

(* CheckoutMode::Fresh going forward, CheckoutMode::Reuse going back.      *)
NeedsCheckout(a) == ~job.rollback \/ version[a][ToCommit(job)] = "none"

Unpack(a) ==
    /\ Visit(a, "unpack")
    /\ IF NeedsCheckout(a)
       THEN /\ version' = [version EXCEPT ![a][ToCommit(job)] = "partial"]
            /\ Did(<<a, "unpack">>, {<<a, "fill">>})
       ELSE /\ left' = (left \ {<<a, "unpack">>}) \cup {<<a, "next">>}
            /\ drifted' = (drifted \/ version[a][ToCommit(job)] # "full")
            /\ UNCHANGED <<job, phase, outcome, tried, version>>
    /\ UNCHANGED <<refVars, link, manifest, managed, enabled>>

Fill(a) ==
    /\ Visit(a, "fill")
    /\ version' = [version EXCEPT ![a][ToCommit(job)] = "full"]
    /\ Did(<<a, "fill">>, {<<a, "next">>})
    /\ UNCHANGED <<refVars, link, manifest, managed, enabled>>

(* Mutant of AlreadyCurrent: rotates the links on a reapply as well.       *)
AlreadyCurrentNever(a) == FALSE

AlreadyCurrent(a) == link[a].current = ToCommit(job)

LinkNext(a) ==
    /\ Visit(a, "next")
    /\ IF AlreadyCurrent(a)
       THEN Did(<<a, "next">>, {}) /\ UNCHANGED link
       ELSE /\ link' = [link EXCEPT ![a].next = ToCommit(job)]
            /\ Did(<<a, "next">>, {<<a, "retire">>})
    /\ UNCHANGED <<refVars, version, manifest, managed, enabled>>

(* rename(current, previous), when there is a current.                     *)
Retire(a) ==
    /\ Visit(a, "retire")
    /\ link' = IF link[a].current = 0 THEN link
               ELSE [link EXCEPT ![a].previous = link[a].current, ![a].current = 0]
    /\ Did(<<a, "retire">>, {<<a, "swap">>})
    /\ UNCHANGED <<refVars, version, manifest, managed, enabled>>

(* rename(next, current).                                                  *)
SwapIn(a) ==
    /\ Visit(a, "swap")
    /\ link' = [link EXCEPT ![a].current = link[a].next, ![a].next = 0]
    /\ Did(<<a, "swap">>, {})
    /\ UNCHANGED <<refVars, version, manifest, managed, enabled>>
-----------------------------------------------------------------------------
(* activate: the manifest's links first.  A link that is Deptool's, or a   *)
(* regular file, is removed; a foreign symlink stops the apply (Fails).    *)
RemoveLink(p) ==
    /\ phase = "remove" /\ p \in left
    /\ manifest[p] # Foreign
    /\ manifest' = [manifest EXCEPT ![p] = Absent]
    /\ Did(p, {})
    /\ UNCHANGED <<refVars, version, link, managed, enabled>>

(* First what is there is removed, then the new link is made.              *)
ChangeLink(x) ==
    /\ phase = "change" /\ x \in left
    /\ manifest[x[1]] # Foreign
    /\ IF manifest[x[1]] = Absent
       THEN /\ manifest' = [manifest EXCEPT ![x[1]] = <<x[2], x[3]>>]
            /\ Did(x, {})
       ELSE /\ manifest' = [manifest EXCEPT ![x[1]] = Absent]
            /\ UNCHANGED <<jobVars, tried, drifted>>
    /\ UNCHANGED <<refVars, version, link, managed, enabled>>

(* Whatever is there is replaced if its contents are those of the source;  *)
(* if they are not, the apply stops (Fails).                               *)
CreateLink(x) ==
    /\ phase = "create" /\ x \in left
    /\ manifest' = [manifest EXCEPT ![x[1]] = <<x[2], x[3]>>]
    /\ Did(x, {})
    /\ UNCHANGED <<refVars, version, link, managed, enabled>>

(* reconcile_managed_symlinks, one link at a time.                         *)
Reconcile(n) ==
    /\ phase \in Subdir /\ n \in left
    /\ managed' = [managed EXCEPT ![phase][n] = Owner(To(job), phase, n)]
    /\ Did(n, {})
    /\ UNCHANGED <<refVars, version, link, manifest, enabled>>

(* `systemctl disable' removes the enablement, and the linked unit itself. *)
Disable(u) ==
    /\ phase = "disable" /\ u \in left
    /\ enabled' = [enabled EXCEPT ![u] = <<>>]
    /\ managed' = [managed EXCEPT !["systemd"] =
                      [n \in Name |-> IF n = u THEN 0 ELSE managed["systemd"][n]]]
    /\ Did(u, {})
    /\ UNCHANGED <<refVars, version, link, manifest>>

(* The checkout that a unit's link resolves to, through `current'.         *)
Resolved(u) ==
    IF u \notin Name \/ managed["systemd"][u] = 0 THEN <<>>
    ELSE LET a == managed["systemd"][u]
             c == link[a].current
         IN  IF c = 0 \/ version[a][c] = "none" \/ a \notin DOMAIN Tree(c)
                \/ u \notin DOMAIN Tree(c)[a].dirs["systemd"]
             THEN <<>> ELSE <<a, c>>

(* `systemctl enable' records that checkout.  Its failure is ignored.      *)
Enable(u) ==
    /\ phase = "enable" /\ u \in left
    /\ LET r == Resolved(u)
       IN  \/ r # <<>> /\ enabled' = [enabled EXCEPT ![u] = r]
           \/ r = <<>> /\ UNCHANGED enabled
    /\ Did(u, {})
    /\ UNCHANGED <<refVars, version, link, manifest, managed>>

(* networkctl, systemd-sysusers and the units' jobs, when they succeed.    *)
RunCommand ==
    /\ phase \in {"networkctl", "run_sysusers", "restart"} /\ left # {}
    /\ \E x \in left : Did(x, {})
    /\ UNCHANGED <<refVars, diskVars>>

Record ==
    /\ phase = "record" /\ left # {}
    /\ IF job.rollback
       THEN /\ target' = IF job.base = 0 THEN target ELSE job.base
            /\ UNCHANGED current
       ELSE current' = job.goal /\ UNCHANGED target
    /\ Did("refs", {})
    /\ UNCHANGED <<commits, diskVars>>

Kept(a) == {link[a].current, link[a].previous}

Gc(a) ==
    /\ phase = "gc" /\ a \in left
    /\ version' = [version EXCEPT ![a] =
                      [c \in 1 .. MaxCommits |-> IF c \in Kept(a) THEN version[a][c] ELSE "none"]]
    /\ Did(a, {})
    /\ UNCHANGED <<refVars, link, manifest, managed, enabled>>
-----------------------------------------------------------------------------
(* An error that the phase can return in the state it is in.               *)
CanFail ==
    \/ "disk" \in Faults /\ phase \in {"checkout", "remove", "change", "create", "record"} \cup Subdir
    \/ "unit" \in Faults /\ phase \in {"networkctl", "run_sysusers", "restart"}
    \/ phase = "remove" /\ \E p \in left : manifest[p] = Foreign
    \/ phase = "change" /\ \E x \in left : manifest[x[1]] = Foreign
    \/ phase = "create" /\ \E x \in left : manifest[x[1]] \notin {Absent, <<x[2], x[3]>>}

(* Only a failed activation of a rollback-safe deploy is rolled back.      *)
RollsBack ==
    /\ job.mode = "deploy" /\ ~job.rollback
    /\ phase \notin {"checkout", "record"}
    /\ IsRollbackSafe(System(job))

Fails ==
    /\ left # {} /\ CanFail
    /\ IF RollsBack
       THEN Enter([job EXCEPT !.rollback = TRUE], 1)
       ELSE /\ phase' = "idle" /\ left' = {}
            /\ outcome' = IF job.rollback THEN "rollback_failed" ELSE "failed"
            /\ UNCHANGED <<job, tried, drifted>>
    /\ UNCHANGED <<refVars, diskVars>>

(* The agent or the host dies; what is on the disk stays.                  *)
Crash ==
    /\ "crash" \in Faults /\ phase # "idle"
    /\ phase' = "idle" /\ left' = {} /\ outcome' = "died"
    /\ UNCHANGED <<refVars, diskVars, job, tried, drifted>>

(* Someone changes the disk by hand, once until the next reapply.          *)
Drift ==
    /\ "drift" \in Faults /\ phase = "idle" /\ ~drifted
    /\ drifted' = TRUE /\ outcome' = "none"
    /\ \/ /\ \E p \in Path, x \in {Absent, File, Foreign} :
               manifest[p] \in Links /\ manifest' = [manifest EXCEPT ![p] = x]
          /\ UNCHANGED <<version, managed, enabled>>
       \/ /\ \E d \in Subdir, n \in Name :
               managed[d][n] # 0 /\ managed' = [managed EXCEPT ![d][n] = 0]
          /\ UNCHANGED <<version, manifest, enabled>>
       \/ /\ \E u \in Unit : enabled[u] # <<>> /\ enabled' = [enabled EXCEPT ![u] = <<>>]
          /\ UNCHANGED <<version, manifest, managed>>
       \/ /\ \E a \in App :
               /\ link[a].current # 0 /\ version[a][link[a].current] = "full"
               /\ version' = [version EXCEPT ![a][link[a].current] = "partial"]
          /\ UNCHANGED <<manifest, managed, enabled>>
    /\ UNCHANGED <<refVars, link, job, phase, left, tried>>
-----------------------------------------------------------------------------
CheckoutStep ==
    \E a \in App : RemoveApp(a) \/ Unpack(a) \/ Fill(a) \/ LinkNext(a) \/ Retire(a) \/ SwapIn(a)

ActivateStep ==
    \/ \E x \in left : RemoveLink(x) \/ ChangeLink(x) \/ CreateLink(x) \/ Reconcile(x)
    \/ \E u \in left : Disable(u) \/ Enable(u)
    \/ RunCommand

Next ==
    \/ \E t \in Configs : Deploy(t)
    \/ Reapply
    \/ Proceed
    \/ CheckoutStep
    \/ ActivateStep
    \/ Record
    \/ \E a \in App : Gc(a)
    \/ Fails
    \/ Crash
    \/ Drift

Spec == Init /\ [][Next]_vars
-----------------------------------------------------------------------------
(* Types of the host's state.                                              *)
DiskTypeOK ==
    /\ version \in [App -> [1 .. MaxCommits -> {"none", "partial", "full"}]]
    /\ link \in [App -> [current : Commits, previous : Commits, next : Commits]]
    /\ manifest \in [Path -> {Absent, File, Foreign} \cup Links]
    /\ managed \in [Subdir -> [Name -> {0} \cup App]]
    /\ enabled \in [Unit -> {<<>>} \cup (App \X (1 .. MaxCommits))]

(* Every variable has its type: in particular the refs and the apply only  *)
(* name commits whose objects have reached the host.                       *)
TypeOK ==
    /\ commits \in Seq(Configs) /\ Len(commits) <= MaxCommits
    /\ current \in 0 .. Len(commits) /\ target \in 0 .. Len(commits)
    /\ DiskTypeOK
    /\ job \in [mode : Mode, base : 0 .. Len(commits), goal : 0 .. Len(commits), rollback : BOOLEAN]
    /\ phase \in {"idle", "prepared"} \cup {Phases[k] : k \in DOMAIN Phases}
    /\ outcome \in Outcome
    /\ tried \subseteq Configs /\ drifted \in BOOLEAN

(* What the disk of a host at this tree is to be: every app checked out    *)
(* whole under `current' and no other app, exactly the tree's links, and   *)
(* exactly its units enabled, each from its app's current checkout.        *)
AppsMatch(tree) ==
    \A a \in App :
        IF a \notin DOMAIN tree THEN link[a] = NoLinks
        ELSE LET c == link[a].current
             IN  c # 0 /\ version[a][c] = "full" /\ a \in DOMAIN Tree(c) /\ Tree(c)[a] = tree[a]

LinksMatch(tree) ==
    /\ \A p \in Path : manifest[p] = DesiredLink(tree, p)
    /\ \A d \in Subdir, n \in Name : managed[d][n] = Owner(tree, d, n)

UnitsMatch(tree) ==
    \A u \in Unit : enabled[u] = IF \E a \in DOMAIN tree : u \in tree[a].enabled
                                 THEN Resolved(u) ELSE <<>>

Matches(tree) == AppsMatch(tree) /\ LinksMatch(tree) /\ UnitsMatch(tree)

Ended == phase = "idle" /\ outcome \in {"done", "rolled_back"}

(* The retry promise: once every interrupted or failed attempt has been    *)
(* retried to completion or rolled back, and drift has been repaired by a  *)
(* reapply, an apply or rollback that reports success leaves exactly the   *)
(* current tree on the host, whatever was left half done before. An        *)
(* incomplete checkout that a rollback trusts is drift, too.               *)
Converges == Ended /\ tried = {} /\ ~drifted => Matches(Tree(current))

(* Whatever earlier attempts left behind and whatever someone changed, a   *)
(* completed apply leaves exactly the wanted links in the managed          *)
(* directories: disabling a unit never costs another app's link.           *)
ManagedExact ==
    phase = "idle" /\ outcome = "done" =>
        \A d \in Subdir, n \in Name : managed[d][n] = Owner(Tree(current), d, n)

(* The rollback target survives: after a completed apply, and with no      *)
(* attempt left half done, `previous' of every app still is a directory,   *)
(* and another one than `current'.  An attempt that dies between the two   *)
(* renames has `previous' at the version that a reapply then makes         *)
(* `current' again, until a later deploy completes.                        *)
PreviousKept ==
    phase = "idle" /\ outcome = "done" /\ tried = {} =>
        \A a \in App : LET prev == link[a].previous
                       IN  prev # 0 => version[a][prev] # "none" /\ prev # link[a].current

(* The refs agree again exactly when nothing was left half done: after a   *)
(* completed apply, and after the rollback of anything but a first deploy. *)
RefsTell == Ended /\ (outcome = "done" \/ job.base # 0) => current = target

(* The apply has recorded its outcome in the refs; what is left is to      *)
(* collect old checkouts.                                                  *)
Recorded == phase = "gc" \/ (phase = "record" /\ left = {})

Progress ==
    CASE phase = "idle" -> "rest"
      [] phase # "idle" /\ job.rollback  -> IF Recorded THEN "rest" ELSE "back"
      [] phase # "idle" /\ ~job.rollback -> IF Recorded THEN "there" ELSE "going"

(* The same specification of an apply that the agents of Deploy implement, *)
(* for this one host: the steps on the disk make up such an apply.         *)
Refs == INSTANCE Attempt WITH
    Host <- {"host"}, Commit <- 1 .. MaxCommits, None <- 0,
    value <- [h \in {"host"} |-> current],
    goal <- [h \in {"host"} |-> target],
    at <- [h \in {"host"} |-> Progress]

Attempts == Refs!Spec

(* docs/index.md: "You define the desired state of your cluster, Deptool   *)
(* materializes that state."  After a completed apply, every app of the    *)
(* current tree is checked out as the tree has it.                         *)
Materialized ==
    phase = "idle" /\ outcome = "done" =>
        \A a \in DOMAIN Tree(current) :
            LET c == link[a].current
            IN  c # 0 /\ a \in DOMAIN Tree(c) /\ Tree(c)[a] = Tree(current)[a]

(* docs/deployment_phases.md: "Without the re-enable, systemd would keep   *)
(* references to app directories for revisions that have since been        *)
(* garbage collected."  No enabled unit names a directory that is gone.    *)
PinsResolve ==
    phase = "idle" => \A u \in Unit : enabled[u] = <<>> \/ version[enabled[u][1]][enabled[u][2]] # "none"
=============================================================================
