--------------------------- MODULE HostApply_proofs ---------------------------
(***************************************************************************)
(* Every invariant of HostApply, for any set of host trees, any number of  *)
(* commits and all faults together.  The proof follows an apply through    *)
(* its phases: ShapeInv says where it is, RefInv what it goes between,     *)
(* ManagedInv, CheckoutInv, LinksDone and UnitsDone what the phases so far *)
(* have done.  Across applies AppInv, LinkInv and UnitInv keep the books:  *)
(* whatever is not as the current tree says is excused by drift or by a    *)
(* tree that was tried, and the apply that takes the excuse away has       *)
(* repaired what it excused.                                               *)
(***************************************************************************)
EXTENDS HostApply, WellFoundedInduction, FiniteSetTheorems, TLAPS

(* What the trees of the configurations consist of.                        *)
LEMMA Paths ==
    ASSUME NEW t \in Configs, NEW a \in DOMAIN t
    PROVE  /\ a \in App
           /\ DOMAIN t[a].symlinks \subseteq Path
           /\ \A d \in Subdir : DOMAIN t[a].dirs[d] \subseteq Name
           /\ t[a].enabled \subseteq Unit
           /\ \A p \in DOMAIN t[a].symlinks : <<a, t[a].symlinks[p]>> \in Links
<1>1. a \in App
  BY DEF App
<1>2. DOMAIN t[a].symlinks \subseteq Path
  BY <1>1 DEF Path
<1>3. \A d \in Subdir : DOMAIN t[a].dirs[d] \subseteq Name
  BY <1>1 DEF Name
<1>4. t[a].enabled \subseteq Unit
  BY <1>1 DEF Unit
<1>5. \A p \in DOMAIN t[a].symlinks : <<a, t[a].symlinks[p]>> \in Links
  BY <1>1, <1>2 DEF Links
<1> QED BY <1>1, <1>2, <1>3, <1>4, <1>5

(* Min is the least element of a set of numbers, by the well-foundedness   *)
(* of <.                                                                   *)
LEMMA Smallest ==
    ASSUME NEW S \in SUBSET Nat, S # {}
    PROVE  /\ Min(S) \in S
           /\ \A k \in S : Min(S) <= k
<1> DEFINE R == OpToRel(<, Nat)
<1>1. \E x \in S : \A y \in S : ~(<<y, x>> \in R)
  <2>1. IsWellFoundedOn(R, Nat)
    BY NatLessThanWellFounded
  <2> HIDE DEF R
  <2> QED BY <2>1, WFMin
<1>2. \E x \in S : \A y \in S : x =< y
  <2>1. PICK x \in S : \A y \in S : ~(<<y, x>> \in R)
    BY <1>1
  <2>2. \A y \in S : ~(y < x)
    BY <2>1 DEF OpToRel
  <2> QED BY <2>2
<1> QED BY <1>2 DEF Min

(* The order of the phases, by number and by name.                         *)
LEMMA PhaseAt ==
    /\ DOMAIN Phases = 1 .. 15 /\ Len(Phases) = 15
    /\ Phases[1] = "checkout" /\ Phases[2] = "remove" /\ Phases[3] = "change"
    /\ Phases[4] = "create" /\ Phases[5] = "networkd" /\ Phases[6] = "networkctl"
    /\ Phases[7] = "quadlets" /\ Phases[8] = "sysusers" /\ Phases[9] = "run_sysusers"
    /\ Phases[10] = "disable" /\ Phases[11] = "systemd" /\ Phases[12] = "enable"
    /\ Phases[13] = "restart" /\ Phases[14] = "record" /\ Phases[15] = "gc"
  BY DEF Phases

LEMMA Upto ==
    ASSUME NEW k \in 1 .. 15
    PROVE  \/ k = 1 \/ k = 2 \/ k = 3 \/ k = 4 \/ k = 5 \/ k = 6 \/ k = 7 \/ k = 8
           \/ k = 9 \/ k = 10 \/ k = 11 \/ k = 12 \/ k = 13 \/ k = 14 \/ k = 15
  BY SMT

LEMMA PhaseNumbers ==
    /\ Number("prepared") = 0
    /\ Number("checkout") = 1 /\ Number("remove") = 2 /\ Number("change") = 3
    /\ Number("create") = 4 /\ Number("networkd") = 5 /\ Number("networkctl") = 6
    /\ Number("quadlets") = 7 /\ Number("sysusers") = 8 /\ Number("run_sysusers") = 9
    /\ Number("disable") = 10 /\ Number("systemd") = 11 /\ Number("enable") = 12
    /\ Number("restart") = 13 /\ Number("record") = 14 /\ Number("gc") = 15
    /\ \A k \in 1 .. 15 : Number(Phases[k]) = k /\ Phases[k] \notin {"idle", "prepared"}
<1>1. ASSUME NEW k \in 1 .. 15
      PROVE  /\ Phases[k] \notin {"idle", "prepared"}
             /\ \A m \in 1 .. 15 : Phases[m] = Phases[k] => m = k
  BY PhaseAt, Upto
<1>2. \A k \in 1 .. 15 : Number(Phases[k]) = k
  BY <1>1, PhaseAt DEF Number
<1>3. Number("prepared") = 0
  BY DEF Number
<1> HIDE DEF Number
<1> QED BY <1>1, <1>2, <1>3, PhaseAt
-----------------------------------------------------------------------------
(* What the diff of two trees consists of, one app at a time.              *)
LEMMA DiffMembers ==
    ASSUME NEW t, NEW u
    PROVE  LET D     == DOMAIN DiffApps(t, u)
               links == DiffHost(t, u).symlinks
               units == DiffHost(t, u).units
               Old(a) == AppTree(t, a)
               New(a) == AppTree(u, a)
           IN  /\ \A p : p \in links.remove <=>
                      \E a \in D : p \in DOMAIN Old(a).symlinks \ DOMAIN New(a).symlinks
               /\ \A x : x \in links.create <=>
                      \E a \in D : \E p \in DOMAIN New(a).symlinks \ DOMAIN Old(a).symlinks :
                          x = <<p, a, New(a).symlinks[p]>>
               /\ \A x : x \in links.change <=>
                      \E a \in D : \E p \in DOMAIN New(a).symlinks \cap DOMAIN Old(a).symlinks :
                          Old(a).symlinks[p] # New(a).symlinks[p] /\ x = <<p, a, New(a).symlinks[p]>>
               /\ \A n : n \in units.disable <=>
                      \E a \in D : n \in Old(a).enabled \ New(a).enabled
               /\ \A n : n \in units.enable \cup units.restart <=>
                      \E a \in D : n \in New(a).enabled
  <1> DEFINE D     == DOMAIN DiffApps(t, u)
             links == DiffHost(t, u).symlinks
             units == DiffHost(t, u).units
             Old(a) == AppTree(t, a)
             New(a) == AppTree(u, a)
             sys(a) == ComputeSystemDiff(a, DiffApps(t, u)[a])
  <1>1. ASSUME NEW a \in D
        PROVE  /\ sys(a).symlinks.remove = DOMAIN Old(a).symlinks \ DOMAIN New(a).symlinks
               /\ sys(a).symlinks.create =
                    {<<p, a, New(a).symlinks[p]>> : p \in DOMAIN New(a).symlinks \ DOMAIN Old(a).symlinks}
               /\ sys(a).symlinks.change =
                    {<<p, a, New(a).symlinks[p]>> :
                        p \in {m \in DOMAIN New(a).symlinks \cap DOMAIN Old(a).symlinks :
                                  Old(a).symlinks[m] # New(a).symlinks[m]}}
               /\ sys(a).units.disable = Old(a).enabled \ New(a).enabled
               /\ sys(a).units.enable = New(a).enabled \ Old(a).enabled
               /\ sys(a).units.restart = New(a).enabled \cap Old(a).enabled
    <2>1. /\ DiffApps(t, u)[a].old = Old(a)
          /\ DiffApps(t, u)[a].new = New(a)
      BY DEF DiffApps
    <2> HIDE DEF D, Old, New
    <2>2. /\ sys(a).symlinks = DiffSymlinks(a, Old(a).symlinks, New(a).symlinks)
          /\ sys(a).units = DiffEnabled(Old(a).enabled, New(a).enabled)
      BY <2>1 DEF ComputeSystemDiff
    <2> HIDE DEF sys
    <2> QED BY <2>2 DEF DiffSymlinks, DiffEnabled
  <1>2. /\ links.remove = UNION {sys(a).symlinks.remove : a \in D}
        /\ links.create = UNION {sys(a).symlinks.create : a \in D}
        /\ links.change = UNION {sys(a).symlinks.change : a \in D}
        /\ units.disable = UNION {sys(a).units.disable : a \in D}
        /\ units.enable = UNION {sys(a).units.enable : a \in D}
        /\ units.restart = UNION {sys(a).units.restart : a \in D}
    BY DEF DiffHost, AppendAll
  <1> HIDE DEF D, links, units, sys, Old, New
  <1>3. \A p : p \in links.remove <=>
            \E a \in D : p \in DOMAIN Old(a).symlinks \ DOMAIN New(a).symlinks
    BY <1>1, <1>2
  <1>4. \A x : x \in links.create <=>
            \E a \in D : \E p \in DOMAIN New(a).symlinks \ DOMAIN Old(a).symlinks :
                x = <<p, a, New(a).symlinks[p]>>
    BY <1>1, <1>2
  <1>5. \A x : x \in links.change <=>
            \E a \in D : \E p \in DOMAIN New(a).symlinks \cap DOMAIN Old(a).symlinks :
                Old(a).symlinks[p] # New(a).symlinks[p] /\ x = <<p, a, New(a).symlinks[p]>>
    BY <1>1, <1>2
  <1>6. \A n : n \in units.disable <=> \E a \in D : n \in Old(a).enabled \ New(a).enabled
    BY <1>1, <1>2
  <1>7. \A n : n \in units.enable \cup units.restart <=> \E a \in D : n \in New(a).enabled
    BY <1>1, <1>2
  <1> QED BY <1>3, <1>4, <1>5, <1>6, <1>7 DEF D, links, units, Old, New

(* The trees an apply goes between are deployed ones or empty.             *)
Trees == Configs \cup {NoApps}

(* A diff names apps, paths and units of the configurations only.          *)
LEMMA DiffTypes ==
    ASSUME NEW t \in Trees, NEW u \in Trees
    PROVE  /\ DOMAIN DiffApps(t, u) \subseteq App
           /\ DiffHost(t, u).symlinks.remove \subseteq Path
           /\ \A x \in DiffHost(t, u).symlinks.create \cup DiffHost(t, u).symlinks.change :
                 x[1] \in Path /\ <<x[2], x[3]>> \in Links
           /\ DiffHost(t, u).units.disable \subseteq Unit
           /\ DiffHost(t, u).units.enable \cup DiffHost(t, u).units.restart \subseteq Unit
<1>1. \A v \in Trees : DOMAIN v \subseteq App
  <2>1. DOMAIN NoApps = {}
    BY DEF NoApps, NoEntries
  <2>2. \A v \in Configs : DOMAIN v \subseteq App
    BY DEF App
  <2> QED BY <2>1, <2>2 DEF Trees
<1>2. DOMAIN DiffApps(t, u) \subseteq App
  BY <1>1 DEF DiffApps
<1>3. ASSUME NEW v \in Trees, NEW a \in App
      PROVE  /\ DOMAIN AppTree(v, a).symlinks \subseteq Path
             /\ \A p \in DOMAIN AppTree(v, a).symlinks : <<a, AppTree(v, a).symlinks[p]>> \in Links
             /\ AppTree(v, a).enabled \subseteq Unit
  <2>1. CASE a \in DOMAIN v
    <3>1. v \in Configs
      BY <2>1 DEF Trees, NoApps, NoEntries
    <3> QED BY <2>1, <3>1, Paths DEF AppTree
  <2>2. CASE a \notin DOMAIN v
    BY <2>2 DEF AppTree, EmptyTree, NoEntries
  <2> QED BY <2>1, <2>2
<1>4. DiffHost(t, u).symlinks.remove \subseteq Path
  BY <1>2, <1>3, DiffMembers
<1>5. \A x \in DiffHost(t, u).symlinks.create : x[1] \in Path /\ <<x[2], x[3]>> \in Links
  BY <1>2, <1>3, DiffMembers
<1>6. ASSUME NEW x \in DiffHost(t, u).symlinks.change
      PROVE  x[1] \in Path /\ <<x[2], x[3]>> \in Links
  <2>1. PICK a \in DOMAIN DiffApps(t, u) :
            \E p \in DOMAIN AppTree(u, a).symlinks : x = <<p, a, AppTree(u, a).symlinks[p]>>
    BY DiffMembers
  <2>2. PICK p \in DOMAIN AppTree(u, a).symlinks : x = <<p, a, AppTree(u, a).symlinks[p]>>
    BY <2>1
  <2> QED BY <1>2, <1>3, <2>2
<1>7. /\ DiffHost(t, u).units.disable \subseteq Unit
      /\ DiffHost(t, u).units.enable \cup DiffHost(t, u).units.restart \subseteq Unit
  BY <1>2, <1>3, DiffMembers
<1> QED BY <1>2, <1>4, <1>5, <1>6, <1>7
-----------------------------------------------------------------------------
(* What each phase has to do.  A reconcile looks at all names in its       *)
(* directory, the other phases at the diff only.                           *)
LEMMA WorkOf ==
    ASSUME NEW j, NEW s
    PROVE  /\ Work(j, s, "checkout") =
                {<<a, IF a \in DOMAIN To(j) THEN "unpack" ELSE "remove">> :
                    a \in DOMAIN DiffApps(From(j), To(j))}
           /\ Work(j, s, "remove") = s.symlinks.remove
           /\ Work(j, s, "change") = s.symlinks.change
           /\ Work(j, s, "create") = s.symlinks.create
           /\ \A d \in Subdir : \A n : n \in Work(j, s, d) <=>
                 n \in Name /\ managed[d][n] # Owner(To(j), d, n)
           /\ Work(j, s, "disable") = s.units.disable
           /\ Work(j, s, "enable") = Touched(s)
           /\ Work(j, s, "record") = {"refs"}
           /\ Work(j, s, "gc") = IF j.rollback THEN {} ELSE App
<1>1. ASSUME NEW d \in Subdir, NEW n
      PROVE  n \in Work(j, s, d) <=> n \in Name /\ managed[d][n] # Owner(To(j), d, n)
  <2> DEFINE wanted == {m \in Name : Owner(To(j), d, m) # 0}
  <2>1. d \notin {"checkout", "remove", "change", "create", "networkctl", "run_sysusers",
                  "disable", "enable", "restart", "record", "gc"}
    BY DEF Subdir
  <2>2. Work(j, s, d) = (Managed(d) \ wanted) \cup {m \in wanted : managed[d][m] # Owner(To(j), d, m)}
    BY <2>1 DEF Work
  <2> QED BY <2>2 DEF Managed
<1>2. /\ Work(j, s, "checkout") =
           {<<a, IF a \in DOMAIN To(j) THEN "unpack" ELSE "remove">> :
               a \in DOMAIN DiffApps(From(j), To(j))}
      /\ Work(j, s, "remove") = s.symlinks.remove
      /\ Work(j, s, "change") = s.symlinks.change
      /\ Work(j, s, "create") = s.symlinks.create
  BY DEF Work, Subdir
<1>3. /\ Work(j, s, "disable") = s.units.disable
      /\ Work(j, s, "enable") = Touched(s)
      /\ Work(j, s, "record") = {"refs"}
      /\ Work(j, s, "gc") = IF j.rollback THEN {} ELSE App
  BY DEF Work, Subdir
<1> QED BY <1>1, <1>2, <1>3

(* Enter ends the apply when no phase from number i on has work, and       *)
(* otherwise goes to the first that has.                                   *)
LEMMA EnterSteps ==
    ASSUME NEW j, NEW i \in 1 .. 16, Enter(j, i)
    PROVE  /\ job' = j
           /\ \/ /\ phase' = "idle" /\ left' = {} /\ i > 14
                 /\ outcome' = IF j.rollback THEN "rolled_back" ELSE "done"
                 /\ tried' = tried \ {commits[j.goal]}
                 /\ drifted' = (drifted /\ j.mode = "deploy")
              \/ \E k \in i .. 15 :
                    /\ phase' = Phases[k] /\ left' = Work(j, System(j), Phases[k]) /\ left' # {}
                    /\ \A m \in i .. k - 1 : Work(j, System(j), Phases[m]) = {}
                    /\ UNCHANGED <<outcome, tried, drifted>>
<1> DEFINE busy == {k \in i .. Len(Phases) : Work(j, System(j), Phases[k]) # {}}
<1>1. busy \in SUBSET Nat /\ busy \subseteq i .. 15
  BY PhaseAt
<1>2. CASE busy = {}
  <2>1. i > 14
    <3>1. SUFFICES ASSUME ~(i > 14) PROVE FALSE
      OBVIOUS
    <3>2. 14 \in i .. Len(Phases)
      BY <3>1, PhaseAt
    <3>3. Work(j, System(j), Phases[14]) # {}
      <4>1. Work(j, System(j), "record") = {"refs"}
        BY WorkOf
      <4> QED BY <4>1, PhaseAt
    <3> QED BY <1>2, <3>2, <3>3
  <2> QED BY <1>2, <2>1 DEF Enter
<1>3. CASE busy # {}
  <2> DEFINE k == Min(busy)
  <2>1. k \in busy /\ \A m \in busy : k <= m
    BY <1>1, <1>3, Smallest
  <2>2. k \in i .. 15 /\ Work(j, System(j), Phases[k]) # {}
    BY <1>1, <2>1
  <2>3. /\ job' = j /\ phase' = Phases[k] /\ left' = Work(j, System(j), Phases[k])
        /\ UNCHANGED <<outcome, tried, drifted>>
    BY <1>3 DEF Enter
  <2> HIDE DEF k, busy
  <2>4. ASSUME NEW m \in i .. k - 1
        PROVE  Work(j, System(j), Phases[m]) = {}
    <3>1. m \notin busy /\ m \in i .. Len(Phases)
      BY <2>1, <2>2, PhaseAt
    <3> QED BY <3>1 DEF busy
  <2> QED BY <2>2, <2>3, <2>4
<1> QED BY <1>2, <1>3
-----------------------------------------------------------------------------
(* An apply is in progress, or waits for its first phase.                  *)
Busy == phase # "idle"

(* The apps that the apply in progress visits.                             *)
Visits == DOMAIN DiffApps(From(job), To(job))

(* A deploy goes to a later commit, and its tree counts as tried until it  *)
(* ends well; while a reapply runs, the disk counts as drifted.            *)
JobInv ==
    Busy => /\ job.goal # 0
            /\ job.mode = "deploy" => job.base < job.goal /\ commits[job.goal] \in tried
            /\ job.mode = "reapply" => job.base = job.goal /\ ~job.rollback /\ drifted
            /\ phase = "prepared" => ~job.rollback

(* What is left is work of the phase, and an app in it is at one step.     *)
LeftInv ==
    /\ phase \in {"idle", "prepared"} => left = {}
    /\ phase = "checkout" =>
          /\ left \subseteq Visits \X {"remove", "unpack", "fill", "next", "retire", "swap"}
          /\ \A x, y \in left : x[1] = y[1] => x = y
          /\ \A x \in left : x[2] = "remove" <=> x[1] \notin DOMAIN To(job)
    /\ phase \in Subdir => left \subseteq Name
    /\ phase = "remove" => left \subseteq System(job).symlinks.remove
    /\ phase = "change" => left \subseteq System(job).symlinks.change
    /\ phase = "create" => left \subseteq System(job).symlinks.create
    /\ phase = "disable" => left \subseteq System(job).units.disable
    /\ phase = "enable" => left \subseteq Touched(System(job))
    /\ phase = "record" => left \subseteq {"refs"}
    /\ phase = "gc" => left \subseteq App

LEMMA PhaseNames ==
    ASSUME TypeOK
    PROVE  phase \in {"idle", "prepared", "checkout", "remove", "change", "create", "networkd",
                      "networkctl", "quadlets", "sysusers", "run_sysusers", "disable", "systemd",
                      "enable", "restart", "record", "gc"}
<1>1. \A k \in DOMAIN Phases :
          Phases[k] \in {"checkout", "remove", "change", "create", "networkd", "networkctl",
                         "quadlets", "sysusers", "run_sysusers", "disable", "systemd", "enable",
                         "restart", "record", "gc"}
  BY PhaseAt, Upto
<1> QED BY <1>1 DEF TypeOK

(* An apply goes between deployed trees, and to a commit that exists.      *)
LEMMA JobTrees ==
    ASSUME TypeOK
    PROVE  /\ \A c \in 0 .. Len(commits) : Tree(c) \in Trees
           /\ ToCommit(job) \in 0 .. Len(commits) /\ ToCommit(job) \in Commits
           /\ From(job) \in Trees /\ To(job) \in Trees
           /\ To(job) = Tree(ToCommit(job))
<1>1. \A c \in 0 .. Len(commits) : Tree(c) \in Trees
  BY DEF TypeOK, Tree, Trees
<1>2. ToCommit(job) \in 0 .. Len(commits) /\ ToCommit(job) \in Commits
  BY ConfigsAssumption DEF TypeOK, ToCommit, Commits
<1>3. From(job) \in Trees
  <2>1. job.base \in 0 .. Len(commits) /\ job.goal \in 0 .. Len(commits) /\ 0 \in 0 .. Len(commits)
    BY DEF TypeOK
  <2> QED BY <1>1, <2>1 DEF From
<1> QED BY <1>1, <1>2, <1>3 DEF To

(* Trees and diffs depend on the commits and the apply alone.              *)
LEMMA SameTrees ==
    ASSUME NEW j, commits' = commits, job' = j
    PROVE  /\ \A c : Tree(c)' = Tree(c)
           /\ From(job)' = From(j) /\ To(job)' = To(j) /\ ToCommit(job)' = ToCommit(j)
           /\ System(job)' = System(j)
           /\ Visits' = DOMAIN DiffApps(From(j), To(j))
<1>1. \A c : Tree(c)' = Tree(c)
  BY DEF Tree
<1>2. From(job)' = From(j) /\ ToCommit(job)' = ToCommit(j)
  BY <1>1 DEF From, ToCommit, Tree
<1>3. To(job)' = To(j)
  BY <1>1, <1>2 DEF To, Tree, ToCommit
<1>4. System(job)' = System(j)
  BY <1>2, <1>3 DEF System
<1>5. Visits' = DOMAIN DiffApps(From(j), To(j))
  BY <1>2, <1>3 DEF Visits
<1> QED BY <1>1, <1>2, <1>3, <1>4, <1>5

(* A deploy adds a commit and leaves the others.                           *)
LEMMA OldTrees ==
    ASSUME TypeOK, NEW tree \in Configs, commits' = Append(commits, tree)
    PROVE  /\ Len(commits') = Len(commits) + 1
           /\ commits' \in Seq(Configs)
           /\ \A c \in 0 .. Len(commits) : Tree(c)' = Tree(c)
           /\ \A c \in 1 .. Len(commits) : commits'[c] = commits[c]
           /\ commits'[Len(commits) + 1] = tree
  BY DEF TypeOK, Tree

(* A name in a managed directory is for an app or for none.                *)
LEMMA Owners ==
    ASSUME NEW t \in Trees
    PROVE  \A d \in Subdir : \A n : Owner(t, d, n) \in {0} \cup App
<1> SUFFICES ASSUME NEW d \in Subdir, NEW n
             PROVE  Owner(t, d, n) \in {0} \cup App
  OBVIOUS
<1> DEFINE owners == {a \in DOMAIN t : n \in DOMAIN t[a].dirs[d]}
<1>1. DOMAIN t \subseteq App
  BY Paths DEF Trees, NoApps, NoEntries, App
<1>2. owners # {} => Max(owners) \in owners
  <2>1. \A a, b \in owners : a = b
    BY ConfigsAssumption DEF Valid, Trees, NoApps, NoEntries
  <2>2. owners # {} => \E a : owners = {a}
    BY <2>1
  <2>3. ASSUME NEW a, owners = {a}
        PROVE  Max(owners) \in owners
    <3>1. a \in Nat
      BY <1>1, <2>3, ConfigsAssumption
    <3>2. a >= a
      BY <3>1
    <3> QED BY <2>3, <3>2 DEF Max
  <2> QED BY <2>2, <2>3
<1> QED BY <1>1, <1>2 DEF Owner

(* The type invariant, action by action: what the start of an apply, its   *)
(* steps and its changes of phase write.                                   *)
LEMMA Begins ==
    ASSUME TypeOK, NEW mode \in Mode, NEW goal \in 0 .. Len(commits'), Begin(mode, goal),
           commits' \in Seq(Configs), Len(commits') <= MaxCommits, Len(commits) <= Len(commits'),
           target' \in 0 .. Len(commits'), tried' \subseteq Configs, drifted' \in BOOLEAN
    PROVE  TypeOK'
<1>1. current' \in 0 .. Len(commits')
  BY DEF TypeOK, Begin
<1>2. job' \in [mode : Mode, base : 0 .. Len(commits'), goal : 0 .. Len(commits'), rollback : BOOLEAN]
  BY DEF TypeOK, Begin
<1>3. DiskTypeOK'
  BY DEF TypeOK, Begin, DiskTypeOK, diskVars
<1>4. phase' = "prepared" /\ outcome' \in Outcome
  BY DEF Begin, Outcome
<1> QED BY <1>1, <1>2, <1>3, <1>4 DEF TypeOK

(* The type of the version directories.                                    *)
Versions == [App -> [1 .. MaxCommits -> {"none", "partial", "full"}]]

LEMMA VersionTypes ==
    ASSUME NEW f \in Versions, NEW a \in App
    PROVE  /\ \A g \in [1 .. MaxCommits -> {"none", "partial", "full"}] : [f EXCEPT ![a] = g] \in Versions
           /\ \A c : \A x \in {"none", "partial", "full"} : [f EXCEPT ![a][c] = x] \in Versions
<1> DEFINE V == [1 .. MaxCommits -> {"none", "partial", "full"}]
<1>1. f \in [App -> V] /\ f[a] \in V
  BY DEF Versions
<1>2. \A g \in V : [f EXCEPT ![a] = g] \in Versions
  <2> HIDE DEF V
  <2>1. \A g \in V : [f EXCEPT ![a] = g] \in [App -> V]
    BY <1>1
  <2> QED BY <2>1 DEF V, Versions
<1>3. ASSUME NEW c, NEW x \in {"none", "partial", "full"}
      PROVE  [f EXCEPT ![a][c] = x] \in Versions
  <2>1. [f[a] EXCEPT ![c] = x] \in V
    BY <1>1
  <2>2. [f EXCEPT ![a][c] = x] = [f EXCEPT ![a] = [f[a] EXCEPT ![c] = x]]
    OBVIOUS
  <2> QED BY <1>2, <2>1, <2>2
<1> QED BY <1>2, <1>3

(* Each filesystem step of a checkout keeps the types of the disk.         *)
LEMMA CheckoutTypes ==
    ASSUME TypeOK, CheckoutStep
    PROVE  TypeOK'
<1>1. ToCommit(job) \in Commits
  BY JobTrees
<1> PICK a \in App : RemoveApp(a) \/ Unpack(a) \/ Fill(a) \/ LinkNext(a) \/ Retire(a) \/ SwapIn(a)
  BY DEF CheckoutStep
<1>2. UNCHANGED <<commits, current, target, manifest, managed, enabled, job, phase, outcome, tried>>
  BY DEF RemoveApp, Unpack, Fill, LinkNext, Retire, SwapIn, Did, refVars
<1>3. drifted' \in BOOLEAN
  BY DEF RemoveApp, Unpack, Fill, LinkNext, Retire, SwapIn, Did, TypeOK
<1>4. version' \in Versions
  <2>9. version \in Versions
    BY DEF TypeOK, DiskTypeOK, Versions
  <2>0. [c \in 1 .. MaxCommits |-> "none"] \in [1 .. MaxCommits -> {"none", "partial", "full"}]
    OBVIOUS
  <2>1. CASE RemoveApp(a)
    <3>1. version' = [version EXCEPT ![a] = [c \in 1 .. MaxCommits |-> "none"]]
      BY <2>1 DEF RemoveApp
    <3> QED BY <2>9, <2>0, <3>1, VersionTypes
  <2>2. CASE Unpack(a)
    <3>1. version' = version \/ version' = [version EXCEPT ![a][ToCommit(job)] = "partial"]
      BY <2>2 DEF Unpack
    <3>2. [version EXCEPT ![a][ToCommit(job)] = "partial"] \in Versions
      BY <2>9, VersionTypes
    <3> QED BY <2>9, <3>1, <3>2
  <2>3. CASE Fill(a) BY <2>9, <2>3, VersionTypes DEF Fill
  <2>4. CASE LinkNext(a) \/ Retire(a) \/ SwapIn(a) BY <2>9, <2>4 DEF LinkNext, Retire, SwapIn
  <2> QED BY <2>1, <2>2, <2>3, <2>4
<1>5. link' \in [App -> [current : Commits, previous : Commits, next : Commits]]
  <2> USE DEF TypeOK, DiskTypeOK
  <2>0. 0 \in Commits /\ NoLinks \in [current : Commits, previous : Commits, next : Commits]
    BY ConfigsAssumption DEF Commits, NoLinks
  <2>1. CASE RemoveApp(a) BY <2>0, <2>1 DEF RemoveApp
  <2>2. CASE Unpack(a) \/ Fill(a) BY <2>2 DEF Unpack, Fill
  <2>3. CASE LinkNext(a) BY <1>1, <2>3 DEF LinkNext
  <2>4. CASE Retire(a) BY <2>0, <2>4 DEF Retire
  <2>5. CASE SwapIn(a) BY <2>0, <2>5 DEF SwapIn
  <2> QED BY <2>1, <2>2, <2>3, <2>4, <2>5
<1> QED BY <1>2, <1>3, <1>4, <1>5 DEF TypeOK, DiskTypeOK, Versions

LEMMA Resolves ==
    ASSUME TypeOK, NEW u
    PROVE  Resolved(u) \in {<<>>} \cup (App \X (1 .. MaxCommits))
<1> DEFINE a == managed["systemd"][u]
           c == link[a].current
<1>1. SUFFICES ASSUME Resolved(u) # <<>>
               PROVE  Resolved(u) \in App \X (1 .. MaxCommits)
  OBVIOUS
<1>2. u \in Name /\ a # 0 /\ c # 0 /\ Resolved(u) = <<a, c>>
  BY <1>1 DEF Resolved
<1>3. a \in App /\ c \in Commits
  BY <1>2 DEF TypeOK, DiskTypeOK, Subdir
<1> QED BY <1>2, <1>3, ConfigsAssumption DEF Commits

LEMMA ActivateTypes ==
    ASSUME TypeOK, LeftInv, ActivateStep
    PROVE  TypeOK'
<1>1. /\ From(job) \in Trees /\ To(job) \in Trees
  BY JobTrees
<1>2. UNCHANGED <<commits, current, target, version, link, job, phase, outcome, tried, drifted>>
  BY DEF ActivateStep, RemoveLink, ChangeLink, CreateLink, Reconcile, Disable, Enable, RunCommand,
         Did, refVars, diskVars, jobVars
<1> DEFINE Typed ==
             /\ manifest' \in [Path -> {Absent, File, Foreign} \cup Links]
             /\ managed' \in [Subdir -> [Name -> {0} \cup App]]
             /\ enabled' \in [Unit -> {<<>>} \cup (App \X (1 .. MaxCommits))]
<1>3. Typed
  <2> USE DEF TypeOK, DiskTypeOK
  <2>1. ASSUME NEW x \in left, RemoveLink(x) \/ ChangeLink(x) \/ CreateLink(x)
        PROVE  Typed
    <3>1. phase = "change" \/ phase = "create" => x[1] \in Path /\ <<x[2], x[3]>> \in Links
      BY <1>1, DiffTypes DEF LeftInv, System
    <3> QED BY <2>1, <3>1 DEF RemoveLink, ChangeLink, CreateLink
  <2>2. ASSUME NEW n \in left, Reconcile(n)
        PROVE  Typed
    <3>1. Owner(To(job), phase, n) \in {0} \cup App
      BY <1>1, <2>2, Owners DEF Reconcile
    <3> QED BY <2>2, <3>1 DEF Reconcile
  <2>3. ASSUME NEW u \in left, Disable(u)
        PROVE  Typed
    BY <2>3 DEF Disable, Subdir
  <2>4. ASSUME NEW u \in left, Enable(u)
        PROVE  Typed
    BY <2>4, Resolves DEF Enable
  <2>5. CASE RunCommand
    BY <2>5 DEF RunCommand, diskVars
  <2> QED BY <2>1, <2>2, <2>3, <2>4, <2>5 DEF ActivateStep
<1> QED BY <1>2, <1>3 DEF TypeOK, DiskTypeOK

LEMMA EnterTypes ==
    ASSUME TypeOK, UNCHANGED <<refVars, diskVars>>, NEW i \in 1 .. 16,
           NEW j \in [mode : Mode, base : 0 .. Len(commits), goal : 0 .. Len(commits), rollback : BOOLEAN],
           Enter(j, i)
    PROVE  TypeOK'
<1>1. phase' \in {"idle"} \cup {Phases[k] : k \in DOMAIN Phases}
  <2>1. i .. 15 \subseteq DOMAIN Phases
    BY PhaseAt
  <2> QED BY <2>1, EnterSteps
<1>2. job' = j /\ outcome' \in Outcome /\ tried' \subseteq Configs /\ drifted' \in BOOLEAN
  <2>1. job' = j
    BY DEF Enter
  <2>2. outcome' \in Outcome /\ tried' \subseteq Configs /\ drifted' \in BOOLEAN
    BY EnterSteps DEF TypeOK, Outcome
  <2> QED BY <2>1, <2>2
<1>3. UNCHANGED <<commits, current, target, version, link, manifest, managed, enabled>>
  BY DEF refVars, diskVars
<1> QED BY <1>1, <1>2, <1>3 DEF TypeOK, DiskTypeOK

LEMMA TypeStep ==
    ASSUME TypeOK, LeftInv, [Next]_vars
    PROVE  TypeOK'
<1>1. ASSUME NEW tree \in Configs, Deploy(tree)
      PROVE  TypeOK'
  <2>1. /\ Len(commits') = Len(commits) + 1 /\ Len(commits') <= MaxCommits
        /\ commits' \in Seq(Configs)
    BY <1>1, OldTrees, ConfigsAssumption DEF Deploy, TypeOK
  <2>2. Begin("deploy", Len(commits')) /\ target' = Len(commits') /\ tried' = tried \cup {tree}
        /\ drifted' = drifted
    BY <1>1, <2>1 DEF Deploy
  <2>3. "deploy" \in Mode /\ Len(commits') \in 0 .. Len(commits') /\ Len(commits) <= Len(commits')
        /\ tried' \subseteq Configs /\ drifted' \in BOOLEAN
    BY <2>1, <2>2 DEF TypeOK, Mode
  <2> QED BY <2>1, <2>2, <2>3, Begins
<1>2. CASE Reapply
  <2>1. Begin("reapply", current) /\ UNCHANGED <<commits, target, tried>> /\ drifted' = TRUE
    BY <1>2 DEF Reapply
  <2>2. "reapply" \in Mode /\ current \in 0 .. Len(commits')
    BY <2>1 DEF TypeOK, Mode
  <2>3. /\ commits' \in Seq(Configs) /\ Len(commits') <= MaxCommits /\ Len(commits) <= Len(commits')
        /\ target' \in 0 .. Len(commits') /\ tried' \subseteq Configs /\ drifted' \in BOOLEAN
    BY <2>1 DEF TypeOK
  <2> QED BY <2>1, <2>2, <2>3, Begins
<1>3. CASE Proceed
  <2>1. Number(phase) + 1 \in 1 .. 16
    BY <1>3, PhaseNames, PhaseNumbers DEF Proceed
  <2> QED BY <1>3, <2>1, EnterTypes DEF Proceed, TypeOK
<1>4. CASE CheckoutStep
  BY <1>4, CheckoutTypes
<1>5. CASE ActivateStep
  BY <1>5, ActivateTypes
<1>6. CASE Record
  BY <1>6 DEF Record, Did, TypeOK, DiskTypeOK, diskVars
<1>7. ASSUME NEW a \in App, Gc(a)
      PROVE  TypeOK'
  <2>1. version' \in Versions
    <3> DEFINE kept == [c \in 1 .. MaxCommits |-> IF c \in Kept(a) THEN version[a][c] ELSE "none"]
    <3>1. version \in Versions
      BY DEF TypeOK, DiskTypeOK, Versions
    <3>2. kept \in [1 .. MaxCommits -> {"none", "partial", "full"}]
      BY <1>7, <3>1 DEF Versions
    <3>3. version' = [version EXCEPT ![a] = kept]
      BY <1>7 DEF Gc
    <3> HIDE DEF kept
    <3> QED BY <1>7, <3>1, <3>2, <3>3, VersionTypes
  <2>2. UNCHANGED <<commits, current, target, link, manifest, managed, enabled, job, phase, outcome,
                    tried, drifted>>
    BY <1>7 DEF Gc, Did, refVars
  <2> QED BY <2>1, <2>2 DEF TypeOK, DiskTypeOK, Versions
<1>8. CASE Fails
  <2>1. CASE RollsBack
    <3>1. [job EXCEPT !.rollback = TRUE] \in
              [mode : Mode, base : 0 .. Len(commits), goal : 0 .. Len(commits), rollback : BOOLEAN]
      BY DEF TypeOK
    <3> QED BY <1>8, <2>1, <3>1, EnterTypes DEF Fails
  <2>2. CASE ~RollsBack
    BY <1>8, <2>2 DEF Fails, TypeOK, DiskTypeOK, refVars, diskVars, Outcome
  <2> QED BY <2>1, <2>2
<1>9. CASE Crash
  BY <1>9 DEF Crash, TypeOK, DiskTypeOK, refVars, diskVars, Outcome
<1>10. CASE Drift
  <2>1. /\ UNCHANGED <<commits, current, target, link, job, phase, tried>>
        /\ drifted' = TRUE /\ outcome' = "none"
    BY <1>10 DEF Drift, refVars
  <2>2. DiskTypeOK
    BY DEF TypeOK
  <2>3. manifest' \in [Path -> {Absent, File, Foreign} \cup Links]
    BY <1>10, <2>2 DEF Drift, DiskTypeOK
  <2>4. managed' \in [Subdir -> [Name -> {0} \cup App]]
    BY <1>10, <2>2 DEF Drift, DiskTypeOK
  <2>5. enabled' \in [Unit -> {<<>>} \cup (App \X (1 .. MaxCommits))]
    BY <1>10, <2>2 DEF Drift, DiskTypeOK
  <2>6. version' \in Versions
    <3>1. CASE UNCHANGED version
      BY <2>2, <3>1 DEF DiskTypeOK, Versions
    <3>2. CASE \E a \in App : version' = [version EXCEPT ![a][link[a].current] = "partial"]
      BY <2>2, <3>2, VersionTypes DEF DiskTypeOK, Versions
    <3> QED BY <1>10, <3>1, <3>2 DEF Drift
  <2>7. link' \in [App -> [current : Commits, previous : Commits, next : Commits]]
    BY <2>1, <2>2 DEF DiskTypeOK
  <2> QED BY <2>1, <2>3, <2>4, <2>5, <2>6, <2>7 DEF TypeOK, DiskTypeOK, Outcome, Versions
<1>11. CASE UNCHANGED vars
  BY <1>11 DEF vars, TypeOK, DiskTypeOK, refVars, diskVars, jobVars
<1> QED BY <1>1, <1>2, <1>3, <1>4, <1>5, <1>6, <1>7, <1>8, <1>9, <1>10, <1>11 DEF Next
-----------------------------------------------------------------------------
(* Steps of the checkout leave everything but the links, the directories   *)
(* and what is left alone, and take one app from one step to the next.     *)
LEMMA CheckoutSteps ==
    ASSUME CheckoutStep
    PROVE  \E a \in App : \E s, r :
              /\ Visit(a, s) /\ left' \subseteq (left \ {<<a, s>>}) \cup {<<a, r>>}
              /\ left \ {<<a, s>>} \subseteq left'
              /\ \/ s = "remove" /\ RemoveApp(a) /\ left' = left \ {<<a, s>>}
                 \/ s # "remove" /\ r \in {"fill", "next", "retire", "swap"}
              /\ drifted => drifted'
              /\ UNCHANGED <<refVars, job, phase, outcome, tried, manifest, managed, enabled>>
<1> PICK a \in App : RemoveApp(a) \/ Unpack(a) \/ Fill(a) \/ LinkNext(a) \/ Retire(a) \/ SwapIn(a)
  BY DEF CheckoutStep
<1> DEFINE Goes(s, r) ==
              /\ Visit(a, s) /\ left' \subseteq (left \ {<<a, s>>}) \cup {<<a, r>>}
              /\ left \ {<<a, s>>} \subseteq left'
              /\ \/ s = "remove" /\ RemoveApp(a) /\ left' = left \ {<<a, s>>}
                 \/ s # "remove" /\ r \in {"fill", "next", "retire", "swap"}
              /\ drifted => drifted'
              /\ UNCHANGED <<refVars, job, phase, outcome, tried, manifest, managed, enabled>>
<1>1. CASE RemoveApp(a)
  <2>1. Goes("remove", "fill")
    BY <1>1 DEF RemoveApp, Did
  <2> QED BY <2>1
<1>2. CASE Unpack(a)
  <2>1. Goes("unpack", "fill") \/ Goes("unpack", "next")
    BY <1>2 DEF Unpack, Did
  <2> QED BY <2>1
<1>3. CASE Fill(a)
  <2>1. Goes("fill", "next")
    BY <1>3 DEF Fill, Did
  <2> QED BY <2>1
<1>4. CASE LinkNext(a)
  <2>1. Goes("next", "retire")
    BY <1>4 DEF LinkNext, Did
  <2> QED BY <2>1
<1>5. CASE Retire(a)
  <2>1. Goes("retire", "swap")
    BY <1>5 DEF Retire, Did
  <2> QED BY <2>1
<1>6. CASE SwapIn(a)
  <2>1. Goes("swap", "swap")
    BY <1>6 DEF SwapIn, Did
  <2> QED BY <2>1
<1> QED BY <1>1, <1>2, <1>3, <1>4, <1>5, <1>6

(* Activation changes links, managed links and units only.                 *)
LEMMA ActivateSteps ==
    ASSUME ActivateStep
    PROVE  /\ phase # "idle" /\ phase # "prepared" /\ phase # "checkout"
           /\ left' \subseteq left
           /\ UNCHANGED <<refVars, version, link, job, phase, outcome, tried, drifted>>
<1>1. phase # "idle" /\ phase # "prepared" /\ phase # "checkout"
  BY DEF ActivateStep, RemoveLink, ChangeLink, CreateLink, Reconcile, Disable, Enable, RunCommand,
         Subdir
<1>2. left' \subseteq left
  BY DEF ActivateStep, RemoveLink, ChangeLink, CreateLink, Reconcile, Disable, Enable, RunCommand,
         Did, jobVars
<1>3. UNCHANGED <<refVars, version, link, job, phase, outcome, tried, drifted>>
  BY DEF ActivateStep, RemoveLink, ChangeLink, CreateLink, Reconcile, Disable, Enable, RunCommand,
         Did, diskVars, jobVars
<1> QED BY <1>1, <1>2, <1>3

(* What entering a phase leaves to do.                                     *)
LEMMA EnterLeft ==
    ASSUME TypeOK, TypeOK', NEW i \in 1 .. 16, NEW j, Enter(j, i), UNCHANGED <<refVars, diskVars>>
    PROVE  LeftInv'
<1>1. /\ job' = j /\ commits' = commits
  BY DEF Enter, refVars
<1>2. /\ From(job)' = From(j) /\ To(job)' = To(j) /\ System(job)' = System(j)
      /\ Visits' = DOMAIN DiffApps(From(j), To(j))
  BY <1>1, SameTrees
<1>3. CASE phase' = "idle" /\ left' = {}
  BY <1>3 DEF LeftInv, Subdir
<1>4. ASSUME NEW k \in i .. 15, phase' = Phases[k], left' = Work(j, System(j), Phases[k])
      PROVE  LeftInv'
  <2>1. left' = Work(j, System(j), phase')
    BY <1>4
  <2>2. phase' \notin {"idle", "prepared"}
    <3>1. k \in 1 .. 15
      BY <1>4
    <3> QED BY <1>4, <3>1, PhaseNumbers
  <2>3. ASSUME phase' = "checkout"
        PROVE  /\ left' \subseteq Visits' \X {"remove", "unpack", "fill", "next", "retire", "swap"}
               /\ \A x, y \in left' : x[1] = y[1] => x = y
               /\ \A x \in left' : x[2] = "remove" <=> x[1] \notin DOMAIN To(job)'
    <3>1. left' = {<<a, IF a \in DOMAIN To(j) THEN "unpack" ELSE "remove">> : a \in Visits'}
      BY <1>2, <2>1, <2>3, WorkOf
    <3> QED BY <1>2, <3>1
  <2>4. phase' \in Subdir => left' \subseteq Name
    BY <2>1, WorkOf
  <2>5. /\ phase' = "remove" => left' \subseteq System(job)'.symlinks.remove
        /\ phase' = "change" => left' \subseteq System(job)'.symlinks.change
        /\ phase' = "create" => left' \subseteq System(job)'.symlinks.create
        /\ phase' = "disable" => left' \subseteq System(job)'.units.disable
        /\ phase' = "enable" => left' \subseteq Touched(System(j))
        /\ phase' = "record" => left' \subseteq {"refs"}
        /\ phase' = "gc" => left' \subseteq App
    BY <1>2, <2>1, WorkOf
  <2>6. Touched(System(job))' = Touched(System(j))
    BY <1>2 DEF Touched
  <2> QED BY <1>2, <2>2, <2>3, <2>4, <2>5, <2>6 DEF LeftInv
<1> QED BY <1>3, <1>4, EnterSteps

(* To get on with the work of a phase keeps LeftInv.                       *)
LEMMA LessLeft ==
    ASSUME LeftInv, UNCHANGED <<commits, job, phase>>, left' \subseteq left
    PROVE  LeftInv'
<1>1. /\ From(job)' = From(job) /\ To(job)' = To(job) /\ System(job)' = System(job) /\ Visits' = Visits
  BY SameTrees DEF Visits
<1>2. Touched(System(job))' = Touched(System(job))
  BY <1>1 DEF Touched
<1> QED BY <1>1, <1>2 DEF LeftInv

LEMMA LeftStep ==
    ASSUME TypeOK, TypeOK', LeftInv, [Next]_vars
    PROVE  LeftInv'
<1>1. ASSUME NEW mode, NEW goal, Begin(mode, goal)
      PROVE  LeftInv'
  BY <1>1 DEF Begin, LeftInv, Subdir
<1>2. CASE Proceed
  <2>1. Number(phase) + 1 \in 1 .. 16
    BY <1>2, PhaseNames, PhaseNumbers DEF Proceed
  <2> QED BY <1>2, <2>1, EnterLeft DEF Proceed
<1>3. CASE CheckoutStep
  <2>1. PICK a \in App : \E s, r :
              /\ Visit(a, s) /\ left' \subseteq (left \ {<<a, s>>}) \cup {<<a, r>>}
              /\ \/ s = "remove" /\ left' = left \ {<<a, s>>}
                 \/ s # "remove" /\ r \in {"fill", "next", "retire", "swap"}
              /\ UNCHANGED <<refVars, job, phase>>
    BY <1>3, CheckoutSteps
  <2>2. PICK s, r : /\ Visit(a, s) /\ left' \subseteq (left \ {<<a, s>>}) \cup {<<a, r>>}
                    /\ \/ s = "remove" /\ left' = left \ {<<a, s>>}
                       \/ s # "remove" /\ r \in {"fill", "next", "retire", "swap"}
                    /\ UNCHANGED <<refVars, job, phase>>
    BY <2>1
  <2>3. /\ phase = "checkout" /\ phase' = "checkout" /\ <<a, s>> \in left
        /\ UNCHANGED <<commits, job>>
    BY <2>2 DEF Visit, refVars
  <2>4. To(job)' = To(job) /\ Visits' = Visits
    BY <2>3, SameTrees DEF Visits
  <2>5. /\ a \in Visits /\ (s = "remove" <=> a \notin DOMAIN To(job))
        /\ \A x \in left : x[1] = a => x = <<a, s>>
    <3>1. <<a, s>>[1] = a /\ <<a, s>>[2] = s
      OBVIOUS
    <3> QED BY <2>3, <3>1 DEF LeftInv
  <2>6. /\ left' \subseteq Visits \X {"remove", "unpack", "fill", "next", "retire", "swap"}
        /\ \A x, y \in left' : x[1] = y[1] => x = y
        /\ \A x \in left' : x[2] = "remove" <=> x[1] \notin DOMAIN To(job)
    <3>1. left \subseteq Visits \X {"remove", "unpack", "fill", "next", "retire", "swap"}
      BY <2>3 DEF LeftInv
    <3>2. /\ \A x, y \in left : x[1] = y[1] => x = y
          /\ \A x \in left : x[2] = "remove" <=> x[1] \notin DOMAIN To(job)
      BY <2>3 DEF LeftInv
    <3>3. \A x \in left' :
              \/ x \in left /\ x # <<a, s>>
              \/ x = <<a, r>> /\ s # "remove" /\ r \in {"fill", "next", "retire", "swap"}
      BY <2>2
    <3> QED BY <2>5, <3>1, <3>2, <3>3
  <2> QED BY <2>3, <2>4, <2>6 DEF LeftInv, Subdir
<1>4. CASE ActivateStep
  BY <1>4, ActivateSteps, LessLeft DEF refVars
<1>5. CASE Record
  BY <1>5, LessLeft DEF Record, Did
<1>6. ASSUME NEW a \in App, Gc(a)
      PROVE  LeftInv'
  BY <1>6, LessLeft DEF Gc, Did, refVars
<1>7. CASE Fails
  <2>1. CASE RollsBack
    BY <1>7, <2>1, EnterLeft DEF Fails
  <2>2. CASE ~RollsBack
    BY <1>7, <2>2 DEF Fails, LeftInv, Subdir
  <2> QED BY <2>1, <2>2
<1>8. CASE Crash
  BY <1>8 DEF Crash, LeftInv, Subdir
<1>9. CASE Drift
  BY <1>9, LessLeft DEF Drift, refVars
<1>10. CASE UNCHANGED vars
  BY <1>10, LessLeft DEF vars, refVars, jobVars
<1> QED BY <1>1, <1>2, <1>3, <1>4, <1>5, <1>6, <1>7, <1>8, <1>9, <1>10 DEF Next, Deploy, Reapply

LEMMA JobStep ==
    ASSUME TypeOK, TypeOK', LeftInv, JobInv, [Next]_vars
    PROVE  JobInv'
<1>1. ASSUME NEW tree \in Configs, Deploy(tree)
      PROVE  JobInv'
  <2>1. commits'[Len(commits) + 1] = tree /\ job'.goal = Len(commits) + 1 /\ job'.mode = "deploy"
    BY <1>1, OldTrees DEF Deploy, Begin
  <2>2. job'.base = current /\ tree \in tried'
    BY <1>1 DEF Deploy, Begin
  <2>3. ~job'.rollback
    BY <1>1 DEF Deploy, Begin
  <2> QED BY <2>1, <2>2, <2>3 DEF JobInv, TypeOK
<1>2. CASE Reapply
  BY <1>2 DEF Reapply, Begin, JobInv
<1>3. ASSUME NEW i \in 1 .. 16, NEW j, j \in {job, [job EXCEPT !.rollback = TRUE]}, Busy,
             j.rollback => job.mode = "deploy",
             Enter(j, i), UNCHANGED refVars
      PROVE  JobInv'
  <2>1. SUFFICES ASSUME phase' # "idle" PROVE JobInv'
    BY DEF JobInv, Busy
  <2>2. job' = j /\ UNCHANGED <<commits, outcome, tried, drifted>>
    BY <1>3, <2>1, EnterSteps DEF refVars
  <2>3. j.mode = job.mode /\ j.base = job.base /\ j.goal = job.goal
    BY <1>3 DEF TypeOK
  <2>4. phase' # "prepared"
    <3>1. \A k \in 1 .. 15 : Phases[k] # "prepared"
      BY PhaseNumbers
    <3>2. \E k \in i .. 15 : phase' = Phases[k]
      BY <1>3, <2>1, EnterSteps
    <3> QED BY <1>3, <3>1, <3>2
  <2> QED BY <1>3, <2>2, <2>3, <2>4 DEF JobInv, TypeOK, Mode
<1>4. CASE Proceed
  <2>1. Number(phase) + 1 \in 1 .. 16
    BY <1>4, PhaseNames, PhaseNumbers DEF Proceed
  <2>2. job.rollback => job.mode = "deploy"
    BY <1>4 DEF JobInv, Proceed, Busy, TypeOK, Mode
  <2> QED BY <1>3, <1>4, <2>1, <2>2 DEF Proceed, Busy
<1>5. CASE Fails
  <2>1. CASE RollsBack
    <3>1. Busy /\ job.mode = "deploy"
      BY <1>5, <2>1 DEF Fails, LeftInv, Busy, RollsBack
    <3> QED BY <1>3, <1>5, <2>1, <3>1 DEF Fails
  <2>2. CASE ~RollsBack
    BY <1>5, <2>2 DEF Fails, JobInv, Busy
  <2> QED BY <2>1, <2>2
<1>6. CASE CheckoutStep
  BY <1>6, CheckoutSteps DEF JobInv, Busy, refVars, TypeOK
<1>7. CASE ActivateStep
  BY <1>7, ActivateSteps DEF JobInv, Busy, refVars
<1>8. CASE Record \/ \E a \in App : Gc(a)
  BY <1>8 DEF Record, Gc, Did, JobInv, Busy, refVars
<1>9. CASE Crash \/ Drift
  BY <1>9 DEF Crash, Drift, JobInv, Busy
<1>10. CASE UNCHANGED vars
  BY <1>10 DEF vars, refVars, jobVars, JobInv, Busy
<1> QED BY <1>1, <1>2, <1>4, <1>5, <1>6, <1>7, <1>8, <1>9, <1>10 DEF Next

(* The shape of the state, on which all that follows rests.                *)
ShapeInv == TypeOK /\ LeftInv /\ JobInv

LEMMA ShapeInit ==
    ASSUME Init
    PROVE  ShapeInv
<1>1. DiskTypeOK
  BY ConfigsAssumption DEF Init, DiskTypeOK, NoLinks, Commits
<1>2. /\ commits \in Seq(Configs) /\ Len(commits) = 0
      /\ job \in [mode : Mode, base : 0 .. Len(commits), goal : 0 .. Len(commits), rollback : BOOLEAN]
  BY DEF Init, Mode
<1>3. /\ current \in 0 .. Len(commits) /\ target \in 0 .. Len(commits) /\ Len(commits) <= MaxCommits
      /\ phase = "idle" /\ outcome \in Outcome /\ tried \subseteq Configs /\ drifted \in BOOLEAN
  <2>1. current = 0 /\ target = 0 /\ phase = "idle" /\ outcome = "none" /\ tried = {} /\ drifted = FALSE
    BY DEF Init
  <2>2. 0 <= MaxCommits
    BY ConfigsAssumption
  <2>3. Len(commits) <= MaxCommits /\ 0 \in 0 .. Len(commits)
    BY <1>2, <2>2
  <2> QED BY <2>1, <2>3, Zenon DEF Outcome
<1>4. TypeOK
  BY <1>1, <1>2, <1>3 DEF TypeOK
<1> QED BY <1>4 DEF Init, ShapeInv, LeftInv, JobInv, Busy, Subdir

(* Type correctness of the host: its refs and its apply only ever name     *)
(* commits whose objects it has, and its links point at such commits.      *)
THEOREM TypeCorrect == Spec => []TypeOK
<1>1. Init => ShapeInv
  BY ShapeInit
<1>2. ShapeInv /\ [Next]_vars => ShapeInv'
  BY TypeStep, LeftStep, JobStep DEF ShapeInv
<1>3. ShapeInv => TypeOK
  BY DEF ShapeInv
<1> QED BY <1>1, <1>2, <1>3, PTL DEF Spec
-----------------------------------------------------------------------------
(* Where the refs are until the apply has recorded its outcome in them,    *)
(* and from then on.                                                       *)
RefInv ==
    /\ RefsTell
    /\ Busy => IF ~Recorded THEN current = job.base /\ target = job.goal
               ELSE IF job.rollback THEN current = job.base /\ (job.base # 0 => target = job.base)
               ELSE current = job.goal /\ target = job.goal

(* No apply ends, and none collects garbage, without recording first.      *)
LEMMA RecordsFirst ==
    ASSUME NEW j, NEW i \in 1 .. 16, Enter(j, i)
    PROVE  /\ phase' = "idle" => i > 14
           /\ phase' = "gc" => i > 14
           /\ phase' = "record" => left' # {} /\ i < 15
<1>1. CASE phase' = "idle"
  <2>1. \A k \in 1 .. 15 : Phases[k] # "idle"
    BY PhaseNumbers
  <2> QED BY <1>1, <2>1, EnterSteps
<1>2. ASSUME NEW k \in i .. 15, phase' = Phases[k], left' # {},
             \A m \in i .. k - 1 : Work(j, System(j), Phases[m]) = {}
      PROVE  (phase' = "gc" => i > 14) /\ (phase' = "record" => left' # {} /\ i < 15)
  <2>1. Number(phase') = k
    BY <1>2, PhaseNumbers
  <2>2. Work(j, System(j), Phases[14]) # {}
    <3>1. Work(j, System(j), "record") = {"refs"}
      BY WorkOf
    <3> QED BY <3>1, PhaseAt
  <2>3. phase' = "gc" => k = 15
    BY <2>1, PhaseNumbers
  <2>4. phase' = "record" => k = 14
    BY <2>1, PhaseNumbers
  <2>5. k = 15 => i > 14
    BY <1>2, <2>2
  <2> QED BY <1>2, <2>3, <2>4, <2>5
<1> QED BY <1>1, <1>2, EnterSteps

(* An apply goes from where current is to where target is, until it        *)
(* records; nobody else moves the refs meanwhile.                          *)
LEMMA RefStep ==
    ASSUME ShapeInv, RefInv, [Next]_vars
    PROVE  RefInv'
<1> USE DEF ShapeInv
<1>1. ASSUME NEW tree \in Configs, Deploy(tree)
      PROVE  RefInv'
  BY <1>1 DEF Deploy, Begin, RefInv, Recorded, RefsTell, Ended, Busy
<1>2. CASE Reapply
  BY <1>2 DEF Reapply, Begin, RefInv, Recorded, RefsTell, Ended, Busy
<1>3. ASSUME NEW i \in 1 .. 16, NEW j, j \in {job, [job EXCEPT !.rollback = TRUE]}, Busy,
             Enter(j, i), UNCHANGED refVars,
             i > 14 => Recorded /\ j = job, i < 15 => ~Recorded
      PROVE  RefInv'
  <2>1. j.base = job.base /\ j.goal = job.goal /\ job' = j /\ UNCHANGED <<current, target>>
    BY <1>3, EnterSteps DEF TypeOK, refVars
  <2>2. CASE phase' = "idle"
    <3>1. i > 14
      BY <1>3, <2>2, RecordsFirst
    <3>2. outcome' = IF j.rollback THEN "rolled_back" ELSE "done"
      <4>1. \A k \in 1 .. 15 : Phases[k] # "idle"
        BY PhaseNumbers
      <4> QED BY <1>3, <2>2, <4>1, EnterSteps
    <3> QED BY <1>3, <2>1, <2>2, <3>1, <3>2 DEF RefInv, RefsTell, Ended, Busy
  <2>3. CASE phase' # "idle"
    <3>1. Recorded' => i > 14
      BY <1>3, RecordsFirst DEF Recorded
    <3>2. i > 14 => Recorded'
      <4>1. SUFFICES ASSUME i > 14 PROVE phase' = "gc"
        BY DEF Recorded
      <4>2. PICK k \in i .. 15 : phase' = Phases[k]
        BY <1>3, <2>3, EnterSteps
      <4> QED BY <4>1, <4>2, PhaseAt
    <3> QED BY <1>3, <2>1, <2>3, <3>1, <3>2 DEF RefInv, RefsTell, Ended, Busy
  <2> QED BY <2>2, <2>3
<1>4. CASE Proceed
  <2>1. Number(phase) + 1 \in 1 .. 16
    BY <1>4, PhaseNames, PhaseNumbers DEF Proceed
  <2>2. /\ Number(phase) + 1 > 14 => Recorded
        /\ Number(phase) + 1 < 15 => ~Recorded
    BY <1>4, PhaseNames, PhaseNumbers DEF Proceed, Recorded
  <2> QED BY <1>3, <1>4, <2>1, <2>2 DEF Proceed, Busy
<1>5. CASE Fails
  <2>1. CASE RollsBack
    <3>1. ~Recorded /\ Busy
      BY <1>5, <2>1 DEF Fails, RollsBack, CanFail, Recorded, Busy, Subdir, LeftInv
    <3> QED BY <1>3, <1>5, <2>1, <3>1 DEF Fails
  <2>2. CASE ~RollsBack
    BY <1>5, <2>2 DEF Fails, RefInv, RefsTell, Ended, Busy
  <2> QED BY <2>1, <2>2
<1>6. CASE CheckoutStep
  <2>1. phase = "checkout" /\ UNCHANGED <<refVars, job, phase, outcome>>
    BY <1>6, CheckoutSteps DEF Visit
  <2> QED BY <2>1 DEF RefInv, RefsTell, Ended, Busy, Recorded, refVars
<1>7. CASE ActivateStep
  <2>1. phase # "record" /\ UNCHANGED <<refVars, job, phase, outcome>>
    BY <1>7 DEF ActivateStep, RemoveLink, ChangeLink, CreateLink, Reconcile, Disable, Enable,
                RunCommand, Did, jobVars, Subdir
  <2> QED BY <2>1 DEF RefInv, RefsTell, Ended, Busy, Recorded, refVars
<1>8. CASE Record
  <2>1. left' = {} /\ phase = "record" /\ left # {} /\ UNCHANGED <<job, phase, outcome>>
    BY <1>8 DEF Record, Did, LeftInv
  <2> QED BY <1>8, <2>1 DEF Record, RefInv, RefsTell, Ended, Busy, Recorded
<1>9. CASE \E a \in App : Gc(a)
  BY <1>9 DEF Gc, Did, RefInv, RefsTell, Ended, Busy, Recorded, refVars
<1>10. CASE Crash \/ Drift
  BY <1>10 DEF Crash, Drift, RefInv, RefsTell, Ended, Busy, refVars
<1>11. CASE UNCHANGED vars
  BY <1>11 DEF vars, refVars, jobVars, RefInv, RefsTell, Ended, Busy, Recorded
<1> QED BY <1>1, <1>2, <1>4, <1>5, <1>6, <1>7, <1>8, <1>9, <1>10, <1>11 DEF Next

-----------------------------------------------------------------------------
(* The steps of an apply, by what they are in the abstract one.            *)
LEMMA AttemptSteps ==
    ASSUME Progress \in Refs!Stage
    PROVE  /\ UNCHANGED <<current, target>> /\ Progress' = Progress => UNCHANGED Refs!vars
           /\ UNCHANGED <<current, target>> /\ Progress' = "rest" => Refs!Next
           /\ UNCHANGED <<current, target>> /\ Progress = "going" /\ Progress' = "back" => Refs!Next
           /\ \A c \in 1 .. MaxCommits :
                /\ Progress = "rest" /\ Progress' = "going"
                /\ current' = current /\ target' = c
                /\ c = current => target = c
                => Refs!Next
           /\ /\ Progress = "going" /\ Progress' = "there"
              /\ current' = target /\ target' = target
              => Refs!Next
           /\ /\ Progress = "back" /\ Progress' = "rest"
              /\ current' = current
              /\ target' = IF current = 0 THEN target ELSE current
              => Refs!Next
<1> DEFINE f(x) == [h \in {"host"} |-> x]
<1>1. \A x, y : [f(x) EXCEPT !["host"] = y] = f(y)
  OBVIOUS
<1>2. ASSUME UNCHANGED <<current, target>>, Progress' = Progress
      PROVE  UNCHANGED Refs!vars
  BY <1>2 DEF Refs!vars
<1>3. ASSUME UNCHANGED <<current, target>>, Progress' = "rest"
      PROVE  Refs!Next
  <2>1. Refs!Stop("host")
    BY <1>3 DEF Refs!Stop, Refs!Moves
  <2> QED BY <2>1 DEF Refs!Next
<1>4. ASSUME UNCHANGED <<current, target>>, Progress = "going", Progress' = "back"
      PROVE  Refs!Next
  <2>1. Refs!TurnBack("host")
    BY <1>4 DEF Refs!TurnBack, Refs!Moves
  <2> QED BY <2>1 DEF Refs!Next
<1>5. ASSUME NEW c \in 1 .. MaxCommits, c = current => target = c, Progress = "rest",
             current' = current, target' = c, Progress' = "going"
      PROVE  Refs!Next
  <2>1. Refs!Begin("host", c)
    BY <1>5 DEF Refs!Begin, Refs!Moves
  <2> QED BY <2>1 DEF Refs!Next
<1>6. ASSUME current' = target, target' = target, Progress = "going", Progress' = "there"
      PROVE  Refs!Next
  <2>1. Refs!Arrive("host")
    BY <1>6 DEF Refs!Arrive, Refs!Moves
  <2> QED BY <2>1 DEF Refs!Next
<1>7. ASSUME current' = current, target' = IF current = 0 THEN target ELSE current,
             Progress = "back", Progress' = "rest"
      PROVE  Refs!Next
  <2>1. Refs!TakeBack("host")
    BY <1>7 DEF Refs!TakeBack, Refs!Moves
  <2> QED BY <2>1 DEF Refs!Next
<1> QED BY <1>2, <1>3, <1>4, <1>5, <1>6, <1>7

(* Every step on the disk is a step of the abstract apply, or none.  That  *)
(* an apply arrives where it said it would, and that a rollback takes the  *)
(* goal back to where current still is, is RefInv.                         *)
LEMMA NextAttempt ==
    ASSUME ShapeInv, RefInv, [Next]_vars
    PROVE  [Refs!Next]_Refs!vars
<1> USE DEF ShapeInv
<1>p. /\ job.rollback \in BOOLEAN /\ Progress \in Refs!Stage
      /\ Busy /\ ~Recorded => Progress = IF job.rollback THEN "back" ELSE "going"
      /\ Busy /\ Recorded => Progress = IF job.rollback THEN "rest" ELSE "there"
      /\ ~Busy => Progress = "rest"
  BY DEF Progress, Refs!Stage, Busy, TypeOK
<1>q. /\ Busy' /\ ~Recorded' => Progress' = IF job'.rollback THEN "back" ELSE "going"
      /\ Busy' /\ Recorded' => Progress' = IF job'.rollback THEN "rest" ELSE "there"
      /\ ~Busy' => Progress' = "rest"
  <2>1. job'.rollback \in BOOLEAN
    BY TypeStep DEF TypeOK
  <2> QED BY <2>1 DEF Progress, Busy
<1>1. ASSUME NEW tree \in Configs, Deploy(tree)
      PROVE  Refs!Next
  <2> DEFINE c == Len(commits) + 1
  <2>1. c \in 1 .. MaxCommits /\ c # current
    BY <1>1, ConfigsAssumption DEF Deploy, TypeOK
  <2>2. /\ ~Busy /\ Busy' /\ ~Recorded' /\ ~job'.rollback
        /\ current' = current /\ target' = c
    BY <1>1 DEF Deploy, Begin, Busy, Recorded
  <2> QED BY <1>p, <1>q, <2>1, <2>2, AttemptSteps
<1>2. CASE Reapply
  <2>1. current \in 1 .. MaxCommits
    BY <1>2, ConfigsAssumption DEF Reapply, TypeOK
  <2>2. /\ ~Busy /\ Busy' /\ ~Recorded' /\ ~job'.rollback
        /\ current' = current /\ target' = target /\ current = target
    BY <1>2 DEF Reapply, Begin, Busy, Recorded
  <2> QED BY <1>p, <1>q, <2>1, <2>2, AttemptSteps
<1>3. ASSUME NEW i \in 1 .. 16, NEW j, j \in {job, [job EXCEPT !.rollback = TRUE]}, Busy,
             Enter(j, i), UNCHANGED refVars,
             i > 14 => Recorded /\ j = job, i < 15 => ~Recorded
      PROVE  [Refs!Next]_Refs!vars
  <2>1. job' = j /\ UNCHANGED <<current, target>>
    BY <1>3, EnterSteps DEF refVars
  <2>2. CASE ~Busy'
    BY <1>p, <1>q, <2>1, <2>2, AttemptSteps
  <2>3. CASE Busy'
    <3>1. Recorded' => i > 14
      BY <1>3, RecordsFirst DEF Recorded
    <3>2. i > 14 => Recorded'
      <4>1. SUFFICES ASSUME i > 14 PROVE phase' = "gc"
        BY DEF Recorded
      <4>2. PICK k \in i .. 15 : phase' = Phases[k]
        BY <1>3, <2>3, EnterSteps DEF Busy
      <4> QED BY <4>1, <4>2, PhaseAt
    <3>3. j.rollback = job.rollback \/ (i < 15 /\ ~job.rollback /\ j.rollback)
      <4>1. CASE j = job
        BY <4>1
      <4>2. CASE j # job
        <5>1. i < 15
          BY <1>3, <4>2
        <5>2. j.rollback
          BY <1>3, <4>2 DEF TypeOK
        <5> QED BY <1>p, <5>1, <5>2
      <4> QED BY <4>1, <4>2
    <3>4. \/ Progress' = Progress
          \/ Progress = "going" /\ Progress' = "back"
      BY <1>3, <1>p, <1>q, <2>1, <2>3, <3>1, <3>2, <3>3
    <3> QED BY <1>p, <2>1, <3>4, AttemptSteps
  <2> QED BY <2>2, <2>3
<1>4. CASE Proceed
  <2>1. Number(phase) + 1 \in 1 .. 16
    BY <1>4, PhaseNames, PhaseNumbers DEF Proceed
  <2>2. /\ Number(phase) + 1 > 14 => Recorded
        /\ Number(phase) + 1 < 15 => ~Recorded
    BY <1>4, PhaseNames, PhaseNumbers DEF Proceed, Recorded
  <2> QED BY <1>3, <1>4, <2>1, <2>2 DEF Proceed, Busy
<1>5. CASE Fails
  <2>1. CASE RollsBack
    <3>1. ~Recorded /\ Busy
      BY <1>5, <2>1 DEF Fails, RollsBack, CanFail, Recorded, Busy, Subdir, LeftInv
    <3> QED BY <1>3, <1>5, <2>1, <3>1 DEF Fails
  <2>2. CASE ~RollsBack
    <3>1. ~Busy' /\ UNCHANGED <<current, target>>
      BY <1>5, <2>2 DEF Fails, Busy, refVars
    <3> QED BY <1>p, <1>q, <3>1, AttemptSteps
  <2> QED BY <2>1, <2>2
<1>6. ASSUME UNCHANGED <<refVars, job, phase>>, Recorded' <=> Recorded
      PROVE  UNCHANGED Refs!vars
  <2>1. Progress' = Progress /\ UNCHANGED <<current, target>>
    BY <1>6, <1>p, <1>q DEF Busy, refVars
  <2> QED BY <1>p, <2>1, AttemptSteps
<1>7. CASE CheckoutStep
  <2>1. phase = "checkout" /\ UNCHANGED <<refVars, job, phase>>
    BY <1>7, CheckoutSteps DEF Visit
  <2> QED BY <1>6, <2>1 DEF Recorded
<1>8. CASE ActivateStep
  <2>1. phase # "record" /\ UNCHANGED <<refVars, job, phase>>
    BY <1>8 DEF ActivateStep, RemoveLink, ChangeLink, CreateLink, Reconcile, Disable, Enable,
                RunCommand, Did, jobVars, Subdir
  <2> QED BY <1>6, <2>1 DEF Recorded
<1>9. CASE Record
  <2>1. /\ Busy /\ ~Recorded /\ Busy' /\ Recorded' /\ job' = job
        /\ job.base = current /\ job.goal = target
    BY <1>9 DEF Record, Did, LeftInv, Recorded, Busy, RefInv
  <2>2. IF job.rollback
        THEN target' = (IF current = 0 THEN target ELSE current) /\ current' = current
        ELSE current' = target /\ target' = target
    BY <1>9, <2>1 DEF Record
  <2> QED BY <1>p, <1>q, <2>1, <2>2, AttemptSteps
<1>10. CASE \E a \in App : Gc(a)
  BY <1>6, <1>10 DEF Gc, Did, Recorded
<1>11. CASE Crash
  <2>1. ~Busy' /\ UNCHANGED <<current, target>>
    BY <1>11 DEF Crash, Busy, refVars
  <2> QED BY <1>p, <1>q, <2>1, AttemptSteps
<1>12. CASE Drift \/ UNCHANGED vars
  <2>1. UNCHANGED <<refVars, job, phase, left>>
    BY <1>12 DEF Drift, vars, jobVars
  <2> QED BY <1>6, <2>1 DEF Recorded
<1> QED BY <1>1, <1>2, <1>4, <1>5, <1>7, <1>8, <1>9, <1>10, <1>11, <1>12 DEF Next

(* The steps on a host's disk are an apply as Deploy's agents make it: the *)
(* goal is written before the disk is touched, current follows when all is *)
(* in place, and a rollback leaves the refs as they were.                  *)
THEOREM StepsMakeAnAttempt == Spec => Attempts
<1>1. Init => ShapeInv /\ RefInv /\ Refs!Init
  BY ShapeInit DEF Init, RefInv, RefsTell, Ended, Busy, Refs!Init, Progress
<1>2. ShapeInv /\ RefInv /\ [Next]_vars => ShapeInv' /\ RefInv'
  BY TypeStep, LeftStep, JobStep, RefStep DEF ShapeInv
<1>3. ShapeInv /\ RefInv /\ [Next]_vars => [Refs!Next]_Refs!vars
  BY NextAttempt
<1> QED BY <1>1, <1>2, <1>3, PTL DEF Spec, Attempts, Refs!Spec
-----------------------------------------------------------------------------
(* The apply is beyond phase number n.                                     *)
Past(n) == Busy /\ Number(phase) > n

(* From the time its own reconciliation has come to it until the apply     *)
(* ends, and from then on until something else happens, a managed link is  *)
(* what the apply goes to.                                                 *)
ManagedInv ==
    /\ Ended => \A d \in Subdir, n \in Name : managed[d][n] = Owner(Tree(current), d, n)
    /\ \A d \in Subdir, n \in Name :
          Past(Number(d)) \/ (phase = d /\ n \notin left) => managed[d][n] = Owner(To(job), d, n)

(* The phases that reconcile a managed directory.                          *)
LEMMA SubdirNumbers ==
    \A d \in Subdir : /\ Number(d) \in 5 .. 11 /\ Phases[Number(d)] = d
                      /\ d \notin {"idle", "prepared", "checkout", "remove", "change", "create",
                                   "disable", "enable", "record", "gc"}
                      /\ IF d = "systemd" THEN Number(d) = 11 ELSE Number(d) < 10
  BY PhaseNumbers, PhaseAt DEF Subdir

(* A phase that is left out has nothing to do: the directories whose       *)
(* phases were skipped are exact.                                          *)
LEMMA ManagedEnter ==
    ASSUME ShapeInv, NEW i \in 1 .. 16, NEW j, Enter(j, i), UNCHANGED <<refVars, diskVars>>,
           \A d \in Subdir, n \in Name : Number(d) < i => managed[d][n] = Owner(To(j), d, n)
    PROVE  /\ Busy' => \A d \in Subdir, n \in Name :
                 Past(Number(d))' \/ (phase' = d /\ n \notin left') =>
                     managed'[d][n] = Owner(To(job)', d, n)
           /\ ~Busy' => \A d \in Subdir, n \in Name : managed'[d][n] = Owner(To(j), d, n)
<1>1. managed' = managed /\ job' = j /\ To(job)' = To(j)
  <2>1. job' = j /\ commits' = commits /\ managed' = managed
    BY DEF Enter, refVars, diskVars
  <2> QED BY <2>1, SameTrees
<1>2. ASSUME NEW d \in Subdir, NEW n \in Name, Work(j, System(j), d) = {}
      PROVE  managed[d][n] = Owner(To(j), d, n)
  BY <1>2, WorkOf
<1>3. ASSUME ~Busy', NEW d \in Subdir, NEW n \in Name
      PROVE  managed'[d][n] = Owner(To(j), d, n)
  <2>1. i > 14
    BY <1>3, RecordsFirst DEF Busy
  <2> QED BY <1>1, <2>1, SubdirNumbers
<1>4. ASSUME Busy', NEW d \in Subdir, NEW n \in Name,
             Past(Number(d))' \/ (phase' = d /\ n \notin left')
      PROVE  managed'[d][n] = Owner(To(job)', d, n)
  <2>1. PICK k \in i .. 15 :
            /\ phase' = Phases[k] /\ left' = Work(j, System(j), Phases[k])
            /\ \A m \in i .. k - 1 : Work(j, System(j), Phases[m]) = {}
    BY <1>4, EnterSteps DEF Busy
  <2>2. Number(phase') = k
    BY <2>1, PhaseNumbers
  <2>3. CASE Number(d) < i
    BY <1>1, <2>3
  <2>4. CASE Number(d) >= i /\ Number(d) < k
    <3>1. Number(d) \in i .. k - 1
      BY <2>1, <2>4, SubdirNumbers
    <3>2. Work(j, System(j), Phases[Number(d)]) = {}
      BY <2>1, <3>1
    <3>3. Work(j, System(j), d) = {}
      BY <3>2, SubdirNumbers
    <3> QED BY <1>1, <1>2, <3>3
  <2>5. CASE Number(d) >= k
    <3>1. phase' = d /\ n \notin left'
      BY <1>4, <2>1, <2>2, <2>5, SubdirNumbers DEF Past
    <3>2. n \notin Work(j, System(j), d)
      BY <2>1, <3>1
    <3> QED BY <1>1, <3>2, WorkOf
  <2> QED BY <2>1, <2>3, <2>4, <2>5, SubdirNumbers
<1> QED BY <1>3, <1>4

LEMMA ManagedStep ==
    ASSUME ShapeInv, RefInv, RefInv', ManagedInv, [Next]_vars
    PROVE  ManagedInv'
<1> USE DEF ShapeInv
<1> DEFINE Set(d, n) == Past(Number(d)) \/ (phase = d /\ n \notin left)
           Exact(d, n) == managed[d][n] = Owner(To(job), d, n)
<1>1. ASSUME phase' = "prepared"
      PROVE  ManagedInv'
  <2>1. ~Ended' /\ \A d \in Subdir : ~Past(Number(d))' /\ phase' # d
    BY <1>1, SubdirNumbers, PhaseNumbers DEF Ended, Past
  <2> QED BY <2>1 DEF ManagedInv
<1>2. ASSUME phase' = "idle", outcome' \notin {"done", "rolled_back"}
      PROVE  ManagedInv'
  BY <1>2, SubdirNumbers DEF ManagedInv, Ended, Past, Busy
<1>3. ASSUME NEW i \in 1 .. 16, NEW j, Enter(j, i), UNCHANGED <<refVars, diskVars>>,
             j \in {job, [job EXCEPT !.rollback = TRUE]},
             \A d \in Subdir, n \in Name : Number(d) < i => managed[d][n] = Owner(To(j), d, n),
             i > 14 => j = job /\ Recorded, Busy
      PROVE  ManagedInv'
  <2>1. CASE Busy'
    BY <1>3, <2>1, ManagedEnter DEF ManagedInv, Ended, Busy
  <2>2. CASE ~Busy'
    <3>1. i > 14
      BY <1>3, <2>2, RecordsFirst DEF Busy
    <3>2. current = ToCommit(job) \/ outcome' \notin {"done", "rolled_back"}
      BY <1>3, <3>1 DEF RefInv, ToCommit
    <3>3. current' = current /\ Tree(current)' = Tree(current) /\ To(j) = Tree(ToCommit(job))
      BY <1>3, <3>1, JobTrees DEF refVars, Tree
    <3>4. \A d \in Subdir, n \in Name : managed'[d][n] = Owner(To(j), d, n)
      BY <1>3, <2>2, ManagedEnter
    <3> QED BY <2>2, <3>2, <3>3, <3>4, SubdirNumbers DEF ManagedInv, Ended, Busy, Past
  <2> QED BY <2>1, <2>2
<1>4. CASE Proceed
  <2>1. Number(phase) + 1 \in 1 .. 16
    BY <1>4, PhaseNames, PhaseNumbers DEF Proceed
  <2>2. ASSUME NEW d \in Subdir, NEW n \in Name, Number(d) < Number(phase) + 1
        PROVE  managed[d][n] = Owner(To(job), d, n)
    <3>1. Number(d) = Number(phase) => phase = d
      BY <1>4, PhaseNames, PhaseNumbers DEF Proceed, Subdir
    <3>2. Number(phase) \in 0 .. 15 /\ Busy /\ left = {}
      BY <1>4, PhaseNames, PhaseNumbers DEF Proceed, Busy
    <3>3. Number(d) < Number(phase) \/ Number(d) = Number(phase)
      BY <2>2, <3>2, SubdirNumbers
    <3>4. Set(d, n)
      BY <3>1, <3>2, <3>3 DEF Past
    <3> QED BY <3>4 DEF ManagedInv
  <2>3. Number(phase) + 1 > 14 => Recorded
    BY <1>4, PhaseNames, PhaseNumbers DEF Proceed, Recorded
  <2> QED BY <1>3, <1>4, <2>1, <2>2, <2>3 DEF Proceed, Busy
<1>5. CASE Fails
  <2>1. CASE RollsBack
    <3>1. \A d \in Subdir : ~(Number(d) < 1)
      BY SubdirNumbers
    <3>2. Busy
      BY <1>5 DEF Fails, LeftInv, Busy
    <3> QED BY <1>3, <1>5, <2>1, <3>1, <3>2 DEF Fails
  <2>2. CASE ~RollsBack
    BY <1>2, <1>5, <2>2 DEF Fails
  <2> QED BY <2>1, <2>2
<1>6. ASSUME UNCHANGED <<commits, job, phase, managed>>, Busy,
             phase \in Subdir => left' = left
      PROVE  ManagedInv'
  <2>1. To(job)' = To(job)
    BY <1>6, SameTrees
  <2> QED BY <1>6, <2>1, SubdirNumbers DEF ManagedInv, Ended, Past, Busy
<1>7. CASE CheckoutStep
  BY <1>6, <1>7, CheckoutSteps, SubdirNumbers DEF Visit, Busy, refVars
<1>8. CASE ActivateStep
  <2>1. UNCHANGED <<commits, job, phase>> /\ Busy
    BY <1>8, ActivateSteps DEF refVars, Busy
  <2>2. To(job)' = To(job)
    BY <2>1, SameTrees
  <2>3. ASSUME NEW x \in left, RemoveLink(x) \/ ChangeLink(x) \/ CreateLink(x) \/ Enable(x)
        PROVE  ManagedInv'
    BY <1>6, <2>1, <2>3, SubdirNumbers DEF RemoveLink, ChangeLink, CreateLink, Enable
  <2>4. CASE RunCommand
    BY <1>6, <2>1, <2>4 DEF RunCommand, diskVars, Subdir
  <2>5. ASSUME NEW m \in left, Reconcile(m)
        PROVE  ManagedInv'
    <3>1. managed' = [managed EXCEPT ![phase][m] = Owner(To(job), phase, m)]
          /\ left' = left \ {m} /\ phase \in Subdir
      BY <2>5 DEF Reconcile, Did
    <3>2. m \in Name
      BY <3>1 DEF LeftInv
    <3>3. \A d \in Subdir, n \in Name :
              managed'[d][n] = IF d = phase /\ n = m THEN Owner(To(job), phase, m) ELSE managed[d][n]
      BY <3>1, <3>2 DEF TypeOK, DiskTypeOK
    <3> QED BY <2>1, <2>2, <3>1, <3>3 DEF ManagedInv, Ended, Past, Busy
  <2>6. ASSUME NEW u \in left, Disable(u)
        PROVE  ManagedInv'
    <3>1. /\ phase = "disable"
          /\ managed' = [managed EXCEPT !["systemd"] =
                            [n \in Name |-> IF n = u THEN 0 ELSE managed["systemd"][n]]]
      BY <2>6 DEF Disable
    <3>2. \A d \in Subdir \ {"systemd"} : managed'[d] = managed[d]
      BY <3>1 DEF TypeOK, DiskTypeOK
    <3>3. ~Past(Number("systemd")) /\ Number(phase) = 10
      BY <3>1, PhaseNumbers DEF Past
    <3> QED BY <2>1, <2>2, <3>1, <3>2, <3>3, SubdirNumbers DEF ManagedInv, Ended, Past, Busy
  <2> QED BY <1>8, <2>3, <2>4, <2>5, <2>6 DEF ActivateStep
<1>9. CASE Record
  BY <1>6, <1>9 DEF Record, Did, diskVars, Subdir, Busy
<1>10. CASE \E a \in App : Gc(a)
  BY <1>6, <1>10 DEF Gc, Did, refVars, Subdir, Busy
<1>11. CASE UNCHANGED vars
  <2>1. UNCHANGED <<commits, current, job, phase, managed, left, outcome>>
    BY <1>11 DEF vars, refVars, jobVars, diskVars
  <2>2. To(job)' = To(job) /\ Tree(current)' = Tree(current)
    BY <2>1, SameTrees DEF Tree
  <2> QED BY <2>1, <2>2 DEF ManagedInv, Ended, Past, Busy
<1> QED BY <1>1, <1>2, <1>4, <1>5, <1>7, <1>8, <1>9, <1>10, <1>11
        DEF Next, Deploy, Reapply, Begin, Crash, Drift
-----------------------------------------------------------------------------
(* `current' and `previous' name directories that are there.               *)
Dirs(a) ==
    /\ link[a].current # 0 => version[a][link[a].current] # "none"
    /\ link[a].previous # 0 => version[a][link[a].previous] # "none"

(* Links name old commits; only a rollback makes a deploy's own commit the *)
(* previous one.                                                           *)
Known(a) ==
    /\ link[a].current <= Len(commits) /\ link[a].previous <= Len(commits)
    /\ link[a].next <= Len(commits)
    /\ Busy /\ job.mode = "deploy" /\ ~job.rollback => link[a].previous # job.goal

(* Where an app's directory and links are when step s of it is next.       *)
Stage(a, s) ==
    /\ s \in {"fill", "next", "retire", "swap"} => version[a][ToCommit(job)] # "none"
    /\ s \in {"next", "retire", "swap"} =>
          version[a][ToCommit(job)] = "full" \/ (job.rollback /\ drifted)
    /\ s \in {"retire", "swap"} => link[a].next = ToCommit(job)
    /\ s = "retire" => link[a].current # ToCommit(job)
    /\ s = "swap" => /\ link[a].current = 0
                     /\ job.mode = "deploy" => link[a].previous # ToCommit(job)
    /\ job.rollback /\ s # "swap" =>
          IF a \in DOMAIN From(job) THEN link[a].current = job.goal
          ELSE link[a].current = 0 /\ link[a].previous = 0

(* What the checkout makes of an app that it visits.                       *)
Landed(a) ==
    IF a \notin DOMAIN To(job) THEN link[a] = NoLinks
    ELSE /\ link[a].current = ToCommit(job)
         /\ job.mode = "deploy" => link[a].previous # ToCommit(job)
         /\ version[a][ToCommit(job)] = "full" \/ (job.rollback /\ drifted)

(* The checkout is done with the app.                                      *)
Visited(a) == Past(1) \/ (phase = "checkout" /\ \A x \in left : x[1] # a)

(* The directories and symlinks of every app, wherever its checkout is,    *)
(* and where the checkout has left those it is done with.                  *)
CheckoutInv ==
    /\ \A a \in App : Dirs(a) /\ Known(a)
    /\ phase = "checkout" => \A x \in left : Stage(x[1], x[2])
    /\ Busy => \A a \in Visits : Visited(a) => Landed(a)

LEMMA VisitsAreApps ==
    ASSUME TypeOK
    PROVE  /\ Visits \subseteq App
           /\ \A a \in DOMAIN To(job) : ToCommit(job) \in 1 .. MaxCommits
<1>1. Visits \subseteq App
  BY JobTrees, DiffTypes DEF Visits
<1>2. ASSUME NEW a \in DOMAIN To(job)
      PROVE  ToCommit(job) \in 1 .. MaxCommits
  <2>1. ToCommit(job) # 0
    BY <1>2 DEF To, Tree, NoApps, NoEntries
  <2> QED BY <2>1, JobTrees, ConfigsAssumption DEF Commits
<1> QED BY <1>1, <1>2

(* A step of one app's checkout leaves the others as they are.             *)
LEMMA OneApp ==
    ASSUME ShapeInv, CheckoutInv, NEW a \in App, NEW s, NEW r,
           Visit(a, s), left \ {<<a, s>>} \subseteq left', left' \subseteq (left \ {<<a, s>>}) \cup {<<a, r>>},
           UNCHANGED <<commits, job, phase>>, drifted => drifted',
           \A b \in App : b # a => version'[b] = version[b] /\ link'[b] = link[b],
           Dirs(a)', Known(a)',
           <<a, r>> \in left' => Stage(a, r)',
           <<a, r>> \notin left' => Landed(a)'
    PROVE  CheckoutInv'
<1> USE DEF ShapeInv
<1>1. /\ phase = "checkout" /\ phase' = "checkout" /\ <<a, s>> \in left
      /\ ToCommit(job)' = ToCommit(job) /\ To(job)' = To(job) /\ From(job)' = From(job)
      /\ Visits' = Visits
  BY SameTrees DEF Visit, Visits
<1>2. \A x \in left' : x[1] = a => x = <<a, r>>
  <2>1. \A x \in left : x[1] = a => x = <<a, s>>
    <3>1. <<a, s>>[1] = a
      OBVIOUS
    <3> QED BY <1>1, <3>1 DEF LeftInv
  <2> QED BY <2>1
<1>3. \A b \in App : Dirs(b)' /\ Known(b)'
  BY <1>1 DEF CheckoutInv, Dirs, Known, Busy
<1>4. ASSUME NEW x \in left'
      PROVE  Stage(x[1], x[2])'
  <2>1. CASE x[1] = a
    <3>1. x = <<a, r>>
      BY <1>2, <2>1
    <3>2. x[1] = a /\ x[2] = r
      BY <3>1
    <3> QED BY <3>1, <3>2
  <2>2. CASE x[1] # a
    <3>1. x \in left
      BY <2>2
    <3>2. x[1] \in App
      BY <1>1, <3>1, VisitsAreApps DEF LeftInv
    <3>3. Stage(x[1], x[2])
      BY <1>1, <3>1 DEF CheckoutInv
    <3> QED BY <1>1, <2>2, <3>2, <3>3 DEF Stage
  <2> QED BY <2>1, <2>2
<1>5. ASSUME NEW b \in Visits, Visited(b)'
      PROVE  Landed(b)'
  <2>1. \A x \in left' : x[1] # b
    BY <1>1, <1>5, PhaseNumbers DEF Visited, Past
  <2>2. CASE b = a
    <3>1. <<a, r>> \notin left'
      BY <2>1, <2>2
    <3> QED BY <2>2, <3>1
  <2>3. CASE b # a
    <3>1. \A x \in left : x[1] # b
      <4>1. SUFFICES ASSUME NEW x \in left, x[1] = b PROVE FALSE
        OBVIOUS
      <4>4. x \notin left'
        BY <2>1, <4>1
      <4>2. x = <<a, s>>
        BY <4>4
      <4>3. x[1] = a
        BY <4>2
      <4> QED BY <2>3, <4>1, <4>3
    <3>2. Landed(b)
      BY <1>1, <3>1 DEF CheckoutInv, Visited, Busy
    <3> QED BY <1>1, <2>3, <3>2, VisitsAreApps DEF Landed
  <2> QED BY <2>2, <2>3
<1> QED BY <1>1, <1>3, <1>4, <1>5 DEF CheckoutInv

(* One filesystem step of the checkout after the other.                    *)
LEMMA CheckoutKeeps ==
    ASSUME ShapeInv, CheckoutInv, CheckoutStep
    PROVE  CheckoutInv'
<1> USE DEF ShapeInv
<1> PICK a \in App : RemoveApp(a) \/ Unpack(a) \/ Fill(a) \/ LinkNext(a) \/ Retire(a) \/ SwapIn(a)
  BY DEF CheckoutStep
<1> DEFINE c == ToCommit(job)
           Others == \A b \in App : b # a => version'[b] = version[b] /\ link'[b] = link[b]
           At(s) == Visit(a, s) /\ <<a, s>> \in left /\ phase = "checkout"
           Now(s, r) == /\ left \ {<<a, s>>} \subseteq left'
                        /\ left' \subseteq (left \ {<<a, s>>}) \cup {<<a, r>>}
<1>1. /\ UNCHANGED <<commits, job, phase>> /\ (drifted => drifted')
      /\ phase = "checkout" /\ Busy /\ Busy'
  BY CheckoutSteps DEF refVars, Visit, Busy
<1>2. /\ ToCommit(job)' = c /\ To(job)' = To(job) /\ From(job)' = From(job)
  BY <1>1, SameTrees
<1>3. Dirs(a) /\ Known(a) /\ version \in Versions
      /\ link \in [App -> [current : Commits, previous : Commits, next : Commits]]
  BY DEF CheckoutInv, TypeOK, DiskTypeOK, Versions
<1>4. /\ c \in 0 .. Len(commits) /\ c \in Commits
      /\ a \in DOMAIN To(job) => c \in 1 .. MaxCommits
      /\ job.mode = "deploy" => job.base < job.goal
      /\ job.base \in Nat /\ job.goal \in Nat /\ job.goal # 0
      /\ c = IF job.rollback THEN job.base ELSE job.goal
  BY <1>1, JobTrees, VisitsAreApps DEF TypeOK, JobInv, ToCommit
<1>5. \A s : <<a, s>> \in left => /\ Stage(a, s) /\ (s = "remove" <=> a \notin DOMAIN To(job))
  <2>1. ASSUME NEW s, <<a, s>> \in left
        PROVE  Stage(a, s) /\ (s = "remove" <=> a \notin DOMAIN To(job))
    <3>1. <<a, s>>[1] = a /\ <<a, s>>[2] = s
      OBVIOUS
    <3> QED BY <1>1, <2>1, <3>1 DEF CheckoutInv, LeftInv
  <2> QED BY <2>1
<1>6. \A x \in left : x[1] = a => \A s : <<a, s>> \in left => x = <<a, s>>
  <2>1. ASSUME NEW x \in left, x[1] = a, NEW s, <<a, s>> \in left
        PROVE  x = <<a, s>>
    <3>1. <<a, s>>[1] = a
      OBVIOUS
    <3> QED BY <1>1, <2>1, <3>1 DEF LeftInv
  <2> QED BY <2>1
<1> HIDE DEF ShapeInv
<1>7. CASE RemoveApp(a)
  <2>1. At("remove") /\ Now("remove", "fill") /\ Others /\ <<a, "fill">> \notin left'
        /\ link'[a] = NoLinks
    <3>1. At("remove") /\ left' = left \ {<<a, "remove">>} /\ link'[a] = NoLinks /\ Others
      BY <1>3, <1>7 DEF RemoveApp, Did, Visit, Versions
    <3>2. <<a, "fill">> \notin left
      <4>1. <<a, "fill">>[1] = a /\ <<a, "fill">> # <<a, "remove">>
        OBVIOUS
      <4> QED BY <1>6, <3>1, <4>1
    <3> QED BY <3>1, <3>2
  <2>2. Dirs(a)' /\ Known(a)' /\ Landed(a)'
    BY <1>1, <1>2, <1>3, <1>4, <1>5, <2>1 DEF Dirs, Known, Landed, NoLinks
  <2> QED BY <1>1, <2>1, <2>2, OneApp
<1>8. CASE Unpack(a)
  <2>1. At("unpack") /\ Others /\ link' = link
    BY <1>3, <1>8, VersionTypes DEF Unpack, Visit, Versions
  <2>2. a \in DOMAIN To(job) /\ c \in 1 .. MaxCommits /\ Stage(a, "unpack")
    BY <1>4, <1>5, <2>1
  <2>3. CASE NeedsCheckout(a)
    <3>1. /\ version' = [version EXCEPT ![a][c] = "partial"]
          /\ left' = (left \ {<<a, "unpack">>}) \cup {<<a, "fill">>}
      BY <1>8, <2>3 DEF Unpack, Did
    <3>2. /\ version'[a][c] = "partial"
          /\ \A e \in 1 .. MaxCommits : e # c => version'[a][e] = version[a][e]
      BY <1>3, <2>2, <3>1 DEF Versions
    <3>3. Dirs(a)'
      BY <1>3, <2>1, <3>2, ConfigsAssumption DEF Dirs, Commits
    <3>4. Known(a)' /\ Stage(a, "fill")'
      BY <1>1, <1>2, <1>3, <2>1, <2>2, <3>2 DEF Known, Stage, Busy
    <3> QED BY <1>1, <2>1, <3>1, <3>3, <3>4, OneApp
  <2>4. CASE ~NeedsCheckout(a)
    <3>1. /\ version' = version /\ drifted' = (drifted \/ version[a][c] # "full")
          /\ left' = (left \ {<<a, "unpack">>}) \cup {<<a, "next">>}
      BY <1>8, <2>4 DEF Unpack
    <3>2. job.rollback /\ version[a][c] # "none"
      BY <2>4 DEF NeedsCheckout
    <3>3. Dirs(a)' /\ Known(a)' /\ Stage(a, "next")'
      BY <1>1, <1>2, <1>3, <2>1, <2>2, <3>1, <3>2 DEF Dirs, Known, Stage, Busy
    <3> QED BY <1>1, <2>1, <3>1, <3>3, OneApp
  <2> QED BY <2>3, <2>4
<1>9. CASE Fill(a)
  <2>1. /\ At("fill") /\ Others /\ link' = link
        /\ version' = [version EXCEPT ![a][c] = "full"]
        /\ left' = (left \ {<<a, "fill">>}) \cup {<<a, "next">>}
    BY <1>3, <1>9 DEF Fill, Did, Visit, Versions
  <2>2. a \in DOMAIN To(job) /\ c \in 1 .. MaxCommits /\ Stage(a, "fill")
    BY <1>4, <1>5, <2>1
  <2>3. /\ version'[a][c] = "full"
        /\ \A e \in 1 .. MaxCommits : e # c => version'[a][e] = version[a][e]
    BY <1>3, <2>1, <2>2 DEF Versions
  <2>4. Dirs(a)'
    BY <1>3, <2>1, <2>3, ConfigsAssumption DEF Dirs, Commits
  <2>5. Known(a)' /\ Stage(a, "next")'
    BY <1>1, <1>2, <1>3, <2>1, <2>2, <2>3 DEF Known, Stage, Busy
  <2> QED BY <1>1, <2>1, <2>4, <2>5, OneApp
<1>10. CASE LinkNext(a)
  <2>1. At("next") /\ Others /\ version' = version
    BY <1>3, <1>10 DEF LinkNext, Visit
  <2>2. a \in DOMAIN To(job) /\ c \in 1 .. MaxCommits /\ Stage(a, "next")
    BY <1>4, <1>5, <2>1
  <2>3. CASE AlreadyCurrent(a)
    <3>1. link' = link /\ left' = left \ {<<a, "next">>} /\ link[a].current = c
      BY <1>10, <2>3 DEF LinkNext, Did, AlreadyCurrent
    <3>2. <<a, "retire">> \notin left'
      <4>1. <<a, "retire">>[1] = a /\ <<a, "retire">> # <<a, "next">>
        OBVIOUS
      <4> QED BY <1>6, <2>1, <3>1, <4>1
    <3>3. Dirs(a)' /\ Known(a)'
      BY <1>1, <1>2, <1>3, <2>1, <3>1 DEF Dirs, Known, Busy
    <3>4. job.mode = "deploy" => link[a].previous # c
      BY <1>1, <1>3, <1>4, <2>2, <3>1 DEF Stage, Known
    <3>5. version[a][c] = "full" \/ (job.rollback /\ drifted)
      BY <2>2 DEF Stage
    <3>6. Landed(a)'
      BY <1>1, <1>2, <2>1, <2>2, <3>1, <3>4, <3>5 DEF Landed
    <3> QED BY <1>1, <2>1, <3>1, <3>2, <3>3, <3>6, OneApp
  <2>4. CASE ~AlreadyCurrent(a)
    <3>1. /\ link' = [link EXCEPT ![a].next = c]
          /\ left' = (left \ {<<a, "next">>}) \cup {<<a, "retire">>}
          /\ link[a].current # c
      BY <1>10, <2>4 DEF LinkNext, Did, AlreadyCurrent
    <3>2. /\ link'[a].next = c /\ link'[a].current = link[a].current
          /\ link'[a].previous = link[a].previous
      BY <1>3, <3>1
    <3>3. Dirs(a)' /\ Known(a)' /\ Stage(a, "retire")'
      BY <1>1, <1>2, <1>3, <1>4, <2>1, <2>2, <3>1, <3>2 DEF Dirs, Known, Stage, Busy
    <3> QED BY <1>1, <2>1, <3>1, <3>3, OneApp
  <2> QED BY <2>3, <2>4
<1>11. CASE Retire(a)
  <2>1. /\ At("retire") /\ Others /\ version' = version
        /\ left' = (left \ {<<a, "retire">>}) \cup {<<a, "swap">>}
    BY <1>3, <1>11 DEF Retire, Did, Visit
  <2>2. a \in DOMAIN To(job) /\ c \in 1 .. MaxCommits /\ Stage(a, "retire")
    BY <1>4, <1>5, <2>1
  <2>3. /\ link'[a].next = link[a].next /\ link'[a].current = 0
        /\ link'[a].previous = IF link[a].current = 0 THEN link[a].previous ELSE link[a].current
    BY <1>3, <1>11 DEF Retire
  <2>4. job.mode = "deploy" => link'[a].previous # c
    <3>1. CASE link[a].current # 0
      BY <2>2, <2>3, <3>1 DEF Stage
    <3>2. CASE link[a].current = 0
      BY <1>1, <1>3, <1>4, <2>2, <2>3, <3>2 DEF Stage, Known
    <3> QED BY <3>1, <3>2
  <2>5. Dirs(a)'
    BY <1>3, <2>1, <2>3 DEF Dirs
  <2>6. Known(a)'
    <3>1. link'[a].current <= Len(commits) /\ link'[a].previous <= Len(commits)
          /\ link'[a].next <= Len(commits)
      BY <1>3, <1>4, <2>3 DEF Known
    <3> QED BY <1>1, <1>4, <2>4, <3>1 DEF Known, Busy
  <2>7. Stage(a, "swap")'
    BY <1>1, <1>2, <2>1, <2>2, <2>3, <2>4 DEF Stage
  <2> QED BY <1>1, <2>1, <2>5, <2>6, <2>7, OneApp
<1>12. CASE SwapIn(a)
  <2>1. /\ At("swap") /\ Others /\ version' = version
        /\ left' = left \ {<<a, "swap">>}
    BY <1>3, <1>12 DEF SwapIn, Did, Visit
  <2>2. a \in DOMAIN To(job) /\ c \in 1 .. MaxCommits /\ Stage(a, "swap")
    BY <1>4, <1>5, <2>1
  <2>3. /\ link'[a].next = 0 /\ link'[a].current = c /\ link'[a].previous = link[a].previous
    BY <1>3, <1>12, <2>2 DEF SwapIn, Stage
  <2>4. Dirs(a)'
    BY <1>3, <2>1, <2>2, <2>3 DEF Dirs, Stage
  <2>5. Known(a)'
    BY <1>1, <1>3, <1>4, <2>3 DEF Known, Busy
  <2>6. Landed(a)'
    BY <1>1, <1>2, <2>1, <2>2, <2>3 DEF Landed, Stage
  <2> QED BY <1>1, <2>1, <2>4, <2>5, <2>6, OneApp
<1> QED BY <1>7, <1>8, <1>9, <1>10, <1>11, <1>12

(* Entering a phase: a checkout starts with every app where the apply      *)
(* before it, if any, has put it.                                          *)
LEMMA CheckoutEnter ==
    ASSUME ShapeInv, ShapeInv', CheckoutInv, NEW i \in 1 .. 16, NEW j, Enter(j, i), Busy,
           j \in {job, [job EXCEPT !.rollback = TRUE]}, UNCHANGED <<refVars, diskVars>>,
           i > 1 => j = job /\ \A a \in Visits : Visited(a),
           i = 1 => \/ j = job /\ ~job.rollback
                    \/ j # job /\ ~job.rollback /\ job.mode = "deploy"
                       /\ \A a \in Visits : Visited(a)
    PROVE  CheckoutInv'
<1> USE DEF ShapeInv
<1>1. /\ job' = j /\ commits' = commits /\ link' = link /\ version' = version
      /\ From(job)' = From(j) /\ To(job)' = To(j) /\ ToCommit(job)' = ToCommit(j)
      /\ Visits' = DOMAIN DiffApps(From(j), To(j))
  <2>1. job' = j /\ commits' = commits /\ link' = link /\ version' = version
    BY EnterSteps DEF refVars, diskVars
  <2> QED BY <2>1, SameTrees
<1>2. /\ j.base = job.base /\ j.goal = job.goal /\ j.mode = job.mode
      /\ job.rollback => j.rollback
  BY DEF TypeOK
<1>3. \A a \in App : Dirs(a)' /\ Known(a)'
  BY <1>1, <1>2 DEF CheckoutInv, Dirs, Known, Busy, TypeOK
<1>4. CASE phase' = "idle"
  BY <1>1, <1>3, <1>4 DEF CheckoutInv, Busy
<1>5. CASE phase' # "idle"
  <2>1. PICK k \in i .. 15 :
            /\ phase' = Phases[k] /\ left' = Work(j, System(j), Phases[k]) /\ left' # {}
            /\ \A m \in i .. k - 1 : Work(j, System(j), Phases[m]) = {}
            /\ UNCHANGED <<outcome, tried, drifted>>
    BY <1>5, EnterSteps
  <2>2. Number(phase') = k
    BY <2>1, PhaseNumbers
  <2>3. Work(j, System(j), Phases[1]) =
            {<<a, IF a \in DOMAIN To(j) THEN "unpack" ELSE "remove">> : a \in Visits'}
    <3>1. Phases[1] = "checkout"
      BY PhaseAt
    <3> QED BY <1>1, <3>1, WorkOf
  <2>4. CASE i > 1
    <3>1. j = job /\ Visits' = Visits /\ \A a \in Visits : Landed(a)
      BY <1>1, <2>4 DEF Visits, CheckoutInv
    <3>2. phase' # "checkout"
      BY <2>2, <2>4, PhaseNumbers
    <3>3. \A a \in Visits : Landed(a)'
      BY <1>1, <2>1, <3>1 DEF Landed
    <3> QED BY <1>3, <3>1, <3>2, <3>3 DEF CheckoutInv
  <2>5. CASE i = 1 /\ k > 1
    <3>1. Visits' = {}
      <4>1. 1 \in i .. k - 1
        BY <2>5
      <4>2. {<<a, IF a \in DOMAIN To(j) THEN "unpack" ELSE "remove">> : a \in Visits'} = {}
        BY <2>1, <2>3, <4>1
      <4> QED BY <4>2
    <3>2. phase' # "checkout"
      BY <2>2, <2>5, PhaseNumbers
    <3> QED BY <1>3, <3>1, <3>2 DEF CheckoutInv
  <2>6. CASE i = 1 /\ k = 1
    <3>1. /\ phase' = "checkout"
          /\ left' = {<<a, IF a \in DOMAIN To(j) THEN "unpack" ELSE "remove">> : a \in Visits'}
      BY <2>1, <2>3, <2>6, PhaseAt
    <3>2. \A a \in Visits' : ~Visited(a)'
      <4>1. ASSUME NEW a \in Visits'
            PROVE  ~Visited(a)'
        <5>1. <<a, IF a \in DOMAIN To(j) THEN "unpack" ELSE "remove">> \in left'
          BY <3>1
        <5>2. <<a, IF a \in DOMAIN To(j) THEN "unpack" ELSE "remove">>[1] = a
          OBVIOUS
        <5>3. ~Past(1)'
          BY <3>1, PhaseNumbers DEF Past
        <5>4. ~(\A x \in left' : x[1] # a)
          BY <5>1, <5>2
        <5> QED BY <5>3, <5>4 DEF Visited
      <4> QED BY <4>1
    <3>3. ASSUME NEW a \in Visits', NEW s \in {"unpack", "remove"}
          PROVE  Stage(a, s)'
      <4>1. CASE j = job /\ ~job.rollback
        BY <1>1, <4>1 DEF Stage
      <4>2. CASE ~job.rollback /\ job.mode = "deploy" /\ (\A b \in Visits : Visited(b)) /\ j # job
        <5>1. j = [job EXCEPT !.rollback = TRUE] /\ j.rollback
          BY <4>2 DEF TypeOK
        <5>2. /\ From(j) = Tree(job.goal) /\ To(j) = Tree(job.base) /\ ToCommit(j) = job.base
              /\ From(job) = Tree(job.base) /\ To(job) = Tree(job.goal) /\ ToCommit(job) = job.goal
          BY <1>2, <4>2, <5>1 DEF From, To, ToCommit
        <5>3. a \in Visits
          BY <1>1, <5>2 DEF Visits, DiffApps
        <5>4. Landed(a)
          BY <4>2, <5>3 DEF CheckoutInv
        <5>5. IF a \in DOMAIN From(j) THEN link[a].current = job.goal
              ELSE link[a].current = 0 /\ link[a].previous = 0
          BY <5>2, <5>4 DEF Landed, NoLinks
        <5> QED BY <1>1, <1>2, <5>1, <5>5 DEF Stage
      <4> QED BY <2>6, <4>1, <4>2
    <3>4. \A x \in left' : Stage(x[1], x[2])'
      <4>1. ASSUME NEW x \in left'
            PROVE  Stage(x[1], x[2])'
        <5>1. PICK a \in Visits' : x = <<a, IF a \in DOMAIN To(j) THEN "unpack" ELSE "remove">>
          BY <3>1
        <5>2. x[1] = a /\ x[2] \in {"unpack", "remove"}
          BY <5>1
        <5> QED BY <3>3, <5>2
      <4> QED BY <4>1
    <3> QED BY <1>3, <3>2, <3>4 DEF CheckoutInv
  <2> QED BY <2>1, <2>4, <2>5, <2>6
<1> QED BY <1>4, <1>5

(* No other step touches a directory that a symlink needs: a new apply     *)
(* starts with all apps at rest, and the garbage collection keeps current  *)
(* and previous.                                                           *)
LEMMA CheckoutInvStep ==
    ASSUME ShapeInv, ShapeInv', CheckoutInv, [Next]_vars
    PROVE  CheckoutInv'
<1> USE DEF ShapeInv
<1>1. ASSUME NEW mode, NEW goal, Begin(mode, goal), Len(commits) <= Len(commits'),
             mode = "deploy" => goal = Len(commits) + 1
      PROVE  CheckoutInv'
  <2>1. /\ phase' = "prepared" /\ link' = link /\ version' = version
        /\ job'.mode = mode /\ job'.goal = goal
    BY <1>1 DEF Begin, diskVars
  <2>2. \A a : ~Visited(a)'
    BY <2>1, PhaseNumbers DEF Visited, Past
  <2>3. ASSUME NEW a \in App
        PROVE  Dirs(a)' /\ Known(a)'
    <3>1. Dirs(a) /\ Known(a)
      BY DEF CheckoutInv
    <3>2. /\ link[a].current \in Nat /\ link[a].previous \in Nat /\ link[a].next \in Nat
          /\ Len(commits) \in Nat /\ Len(commits') \in Nat
      <4>1. link[a] \in [current : Commits, previous : Commits, next : Commits]
        BY DEF TypeOK, DiskTypeOK
      <4> QED BY <4>1, ConfigsAssumption DEF Commits, TypeOK
    <3> QED BY <1>1, <2>1, <3>1, <3>2 DEF Dirs, Known
  <2> QED BY <2>1, <2>2, <2>3 DEF CheckoutInv
<1>2. ASSUME NEW tree \in Configs, Deploy(tree)
      PROVE  CheckoutInv'
  <2>1. Begin("deploy", Len(commits) + 1) /\ Len(commits') = Len(commits) + 1
    BY <1>2, OldTrees DEF Deploy
  <2>2. Len(commits) <= Len(commits')
    BY <2>1 DEF TypeOK
  <2> QED BY <1>1, <2>1, <2>2
<1>3. CASE Reapply
  <2>1. Begin("reapply", current) /\ Len(commits) <= Len(commits')
    BY <1>3 DEF Reapply, TypeOK
  <2> QED BY <1>1, <2>1
<1>4. CASE Proceed
  <2>1. Number(phase) + 1 \in 1 .. 16 /\ Number(phase) \in 0 .. 15
    BY <1>4, PhaseNames, PhaseNumbers DEF Proceed
  <2>2. ASSUME Number(phase) + 1 > 1
        PROVE  \A a \in Visits : Visited(a)
    <3>1. phase = "checkout" \/ Number(phase) > 1
      BY <1>4, <2>2, PhaseNames, PhaseNumbers DEF Proceed
    <3> QED BY <1>4, <2>1, <3>1, PhaseNumbers DEF Proceed, Visited, Past, Busy
  <2>3. Number(phase) + 1 = 1 => ~job.rollback
    BY <1>4, <2>1, PhaseNames, PhaseNumbers DEF Proceed, JobInv, Busy
  <2> QED BY <1>4, <2>1, <2>2, <2>3, CheckoutEnter DEF Proceed, Busy
<1>5. CASE Fails
  <2>1. CASE RollsBack
    <3>1. Busy /\ ~job.rollback /\ job.mode = "deploy" /\ \A a \in Visits : Visited(a)
      BY <1>5, <2>1, PhaseNames, PhaseNumbers
      DEF Fails, RollsBack, LeftInv, Busy, Visited, Past
    <3>2. job # [job EXCEPT !.rollback = TRUE]
      BY <3>1 DEF TypeOK
    <3> QED BY <1>5, <2>1, <3>1, <3>2, CheckoutEnter DEF Fails
  <2>2. CASE ~RollsBack
    BY <1>5, <2>2 DEF Fails, CheckoutInv, Dirs, Known, Busy, refVars, diskVars
  <2> QED BY <2>1, <2>2
<1>6. CASE CheckoutStep
  BY <1>6, CheckoutKeeps
<1>7. ASSUME UNCHANGED <<commits, version, link, job, phase, drifted>>, phase # "checkout" \/ left' = left
      PROVE  CheckoutInv'
  <2>1. /\ From(job)' = From(job) /\ To(job)' = To(job) /\ ToCommit(job)' = ToCommit(job)
        /\ Visits' = Visits
    BY <1>7, SameTrees DEF Visits
  <2> QED BY <1>7, <2>1 DEF CheckoutInv, Dirs, Known, Busy, Stage, Landed, Visited, Past
<1>8. CASE ActivateStep
  BY <1>7, <1>8, ActivateSteps DEF refVars
<1>9. CASE Record
  BY <1>7, <1>9 DEF Record, Did, diskVars
<1>10. ASSUME NEW b \in App, Gc(b)
       PROVE  CheckoutInv'
  <2>1. /\ UNCHANGED <<commits, link, job, phase, drifted>> /\ phase = "gc"
        /\ version' = [version EXCEPT ![b] =
               [c \in 1 .. MaxCommits |-> IF c \in Kept(b) THEN version[b][c] ELSE "none"]]
    BY <1>10 DEF Gc, Did, refVars
  <2>2. \A a \in App : \A c \in {link[a].current, link[a].previous} \ {0} : version'[a][c] = version[a][c]
    <3>1. ASSUME NEW a \in App, NEW c \in {link[a].current, link[a].previous} \ {0}
          PROVE  version'[a][c] = version[a][c]
      <4>1. c \in 1 .. MaxCommits /\ version \in Versions
        <5>1. link[a] \in [current : Commits, previous : Commits, next : Commits]
          BY DEF TypeOK, DiskTypeOK
        <5>2. c \in Commits \ {0}
          BY <3>1, <5>1
        <5>3. c \in 1 .. MaxCommits
          BY <5>2, ConfigsAssumption DEF Commits
        <5> QED BY <5>3 DEF TypeOK, DiskTypeOK, Versions
      <4> QED BY <2>1, <3>1, <4>1 DEF Kept, Versions
    <3> QED BY <3>1
  <2>3. /\ From(job)' = From(job) /\ To(job)' = To(job) /\ ToCommit(job)' = ToCommit(job)
        /\ Visits' = Visits
    BY <2>1, SameTrees DEF Visits
  <2>4. ASSUME NEW a \in App
        PROVE  Dirs(a)' /\ Known(a)'
    <3>1. Dirs(a) /\ Known(a)
      BY DEF CheckoutInv
    <3>2. Dirs(a)'
      BY <2>1, <2>2, <3>1 DEF Dirs
    <3> QED BY <2>1, <3>1, <3>2 DEF Known, Busy
  <2>5. ASSUME NEW a \in Visits
        PROVE  Landed(a)'
    <3>1. Visited(a) /\ a \in App
      BY <2>1, PhaseNumbers, VisitsAreApps DEF Visited, Past, Busy
    <3>2. Landed(a)
      BY <2>1, <3>1 DEF CheckoutInv, Busy
    <3>3. a \in DOMAIN To(job) => version'[a][ToCommit(job)] = version[a][ToCommit(job)]
      <4>1. SUFFICES ASSUME a \in DOMAIN To(job)
                     PROVE  ToCommit(job) \in {link[a].current, link[a].previous} \ {0}
        BY <2>2, <3>1
      <4> QED BY <3>2, <4>1, VisitsAreApps DEF Landed
    <3> QED BY <2>1, <2>3, <3>2, <3>3 DEF Landed
  <2> QED BY <2>1, <2>3, <2>4, <2>5 DEF CheckoutInv, Busy
<1>11. CASE Crash
  BY <1>11 DEF Crash, CheckoutInv, Dirs, Known, Busy, refVars, diskVars
<1>12. CASE Drift
  <2>1. phase' = "idle" /\ UNCHANGED <<commits, link>>
    BY <1>12 DEF Drift, refVars
  <2>2. \A a \in App : \A c : version[a][c] # "none" => version'[a][c] # "none"
    <3>1. CASE UNCHANGED version
      BY <3>1
    <3>2. CASE \E a \in App : version' = [version EXCEPT ![a][link[a].current] = "partial"]
      <4>1. version \in Versions
        BY DEF TypeOK, DiskTypeOK, Versions
      <4> QED BY <3>2, <4>1 DEF Versions
    <3> QED BY <1>12, <3>1, <3>2 DEF Drift
  <2> QED BY <2>1, <2>2 DEF CheckoutInv, Dirs, Known, Busy
<1>13. CASE UNCHANGED vars
  BY <1>7, <1>13 DEF vars, refVars, diskVars, jobVars
<1> QED BY <1>2, <1>3, <1>4, <1>5, <1>6, <1>8, <1>9, <1>10, <1>11, <1>12, <1>13 DEF Next
-----------------------------------------------------------------------------
(* What the apply goes between, until it records: the current tree and a   *)
(* tree that was tried, one way or the other, or the empty tree and the    *)
(* current one.                                                            *)
LEMMA AtWork ==
    ASSUME ShapeInv, RefInv, Busy, ~Recorded
    PROVE  \/ /\ job.mode = "deploy" /\ Tree(job.goal) \in tried
              /\ \/ From(job) = Tree(current) /\ To(job) = Tree(job.goal) /\ ~job.rollback
                 \/ From(job) = Tree(job.goal) /\ To(job) = Tree(current) /\ job.rollback
           \/ job.mode = "reapply" /\ drifted /\ From(job) = NoApps /\ To(job) = Tree(current)
<1> USE DEF ShapeInv
<1>1. current = job.base /\ job.goal # 0 /\ job.mode \in Mode
  BY DEF RefInv, JobInv, TypeOK
<1>2. Tree(job.goal) = commits[job.goal]
  BY <1>1 DEF Tree
<1>3. Tree(0) = NoApps
  BY DEF Tree
<1> QED BY <1>1, <1>2, <1>3 DEF JobInv, From, To, ToCommit, Mode

(* How the phases of an apply, and an apply itself, end.                   *)
LEMMA Ends ==
    ASSUME ShapeInv, RefInv, Proceed \/ Fails
    PROVE  /\ UNCHANGED <<refVars, diskVars>>
           /\ \/ UNCHANGED <<tried, drifted>>
              \/ /\ tried' = tried \ {Tree(job.goal)} /\ drifted' = (drifted /\ job.mode = "deploy")
                 /\ Busy /\ Recorded /\ left = {}
<1> USE DEF ShapeInv
<1>1. UNCHANGED <<refVars, diskVars>>
  BY DEF Proceed, Fails
<1>2. CASE Proceed
  <2>1. Number(phase) + 1 \in 1 .. 16 /\ Busy /\ left = {}
    BY <1>2, PhaseNames, PhaseNumbers DEF Proceed, Busy
  <2>2. CASE phase' = "idle"
    <3>1. Number(phase) + 1 > 14
      BY <1>2, <2>1, <2>2, RecordsFirst DEF Proceed
    <3>2. Recorded
      BY <1>2, <2>1, <3>1, PhaseNames, PhaseNumbers DEF Proceed, Recorded
    <3>3. tried' = tried \ {commits[job.goal]} /\ drifted' = (drifted /\ job.mode = "deploy")
      <4>1. \A k \in 1 .. 15 : Phases[k] # "idle"
        BY PhaseNumbers
      <4> QED BY <1>2, <2>1, <2>2, <4>1, EnterSteps DEF Proceed
    <3>4. Tree(job.goal) = commits[job.goal]
      BY <2>1 DEF JobInv, Tree
    <3> QED BY <1>1, <2>1, <3>2, <3>3, <3>4
  <2>3. CASE phase' # "idle"
    BY <1>1, <1>2, <2>1, <2>3, EnterSteps DEF Proceed
  <2> QED BY <2>2, <2>3
<1>3. CASE Fails
  <2>1. CASE RollsBack
    <3>1. phase' # "idle"
      BY <1>3, <2>1, RecordsFirst DEF Fails
    <3> QED BY <1>1, <1>3, <2>1, <3>1, EnterSteps DEF Fails
  <2>2. CASE ~RollsBack
    BY <1>1, <1>3, <2>2 DEF Fails
  <2> QED BY <2>1, <2>2
<1> QED BY <1>2, <1>3

(* Once the outcome is recorded, current is the commit the apply went to.  *)
LEMMA AtEnd ==
    ASSUME ShapeInv, RefInv, CheckoutInv, Busy, Recorded
    PROVE  /\ current = ToCommit(job) /\ Tree(current) = To(job)
           /\ job.goal # 0 /\ (job.mode = "deploy" => job.goal # job.base)
           /\ \A a \in Visits : Landed(a)
           /\ \/ Tree(current) = Tree(job.goal) /\ ~job.rollback
              \/ From(job) = Tree(job.goal) /\ job.rollback /\ job.mode = "deploy"
           /\ job.mode = "reapply" => From(job) = NoApps /\ ~job.rollback
<1> USE DEF ShapeInv
<1>1. current = ToCommit(job) /\ Tree(current) = To(job)
  BY JobTrees DEF RefInv, ToCommit
<1>2. \A a \in Visits : Landed(a)
  BY PhaseNumbers DEF CheckoutInv, Visited, Past, Recorded
<1>3. \/ Tree(current) = Tree(job.goal) /\ ~job.rollback
      \/ From(job) = Tree(job.goal) /\ job.rollback /\ job.mode = "deploy"
  BY <1>1 DEF JobInv, ToCommit, From, TypeOK, Mode
<1>4. job.mode = "reapply" => From(job) = NoApps /\ ~job.rollback
  BY DEF JobInv, From, Tree
<1>5. job.goal # 0 /\ (job.mode = "deploy" => job.goal # job.base)
  BY DEF JobInv, TypeOK
<1> QED BY <1>1, <1>2, <1>3, <1>4, <1>5
-----------------------------------------------------------------------------
(* The trees differ in app a.                                              *)
Differ(t, u, a) == a \in DOMAIN DiffApps(t, u)

(* Whether two trees differ in an app.                                     *)
LEMMA Differing ==
    ASSUME NEW t, NEW u, NEW a
    PROVE  /\ ~Differ(t, t, a)
           /\ Differ(t, u, a) <=> Differ(u, t, a)
           /\ Differ(NoApps, t, a) <=> a \in DOMAIN t
           /\ ~Differ(t, u, a) => /\ a \in DOMAIN t <=> a \in DOMAIN u
                                  /\ a \in DOMAIN t => t[a] = u[a]
                                  /\ \A v : Differ(t, v, a) <=> Differ(u, v, a)
  BY DEF Differ, DiffApps, NoApps, NoEntries

(* `previous' is the directory that is, or that the retry of an attempt is *)
(* about to make, `current'.                                               *)
Risky(a) ==
    /\ link[a].previous # 0
    /\ \/ link[a].current = link[a].previous
       \/ link[a].current = 0 /\ link[a].previous = current

(* That takes an attempt at another version of the app.                    *)
RiskInv == \A a \in App : Risky(a) => \E t \in tried : Differ(Tree(current), t, a)

(* An app at risk is one that a tree which was tried changes: only such    *)
(* apps are visited, and they stop being at risk when they land.           *)
LEMMA RiskCheckout ==
    ASSUME ShapeInv, RefInv, CheckoutInv, RiskInv, CheckoutStep
    PROVE  RiskInv'
<1> USE DEF ShapeInv
<1>1. /\ phase = "checkout" /\ UNCHANGED <<commits, current, tried>> /\ Busy /\ ~Recorded
  BY CheckoutSteps DEF Visit, refVars, Busy, Recorded
<1>2. Tree(current)' = Tree(current)
  BY <1>1 DEF Tree
<1>3. PICK a \in App : RemoveApp(a) \/ Unpack(a) \/ Fill(a) \/ LinkNext(a) \/ Retire(a) \/ SwapIn(a)
  BY DEF CheckoutStep
<1>4. /\ link \in [App -> [current : Commits, previous : Commits, next : Commits]]
      /\ \A b \in App : b # a => link'[b] = link[b]
  <2>1. link \in [App -> [current : Commits, previous : Commits, next : Commits]]
    BY DEF TypeOK, DiskTypeOK
  <2> QED BY <1>3, <2>1 DEF RemoveApp, Unpack, Fill, LinkNext, Retire, SwapIn
<1>5. SUFFICES ASSUME Risky(a)', ~Risky(a)
               PROVE  \E t \in tried : Differ(Tree(current), t, a)
  BY <1>1, <1>2, <1>4 DEF RiskInv, Risky
<1>6. CASE RemoveApp(a)
  BY <1>4, <1>5, <1>6 DEF RemoveApp, Risky, NoLinks
<1>7. CASE Unpack(a) \/ Fill(a)
  BY <1>1, <1>5, <1>7 DEF Unpack, Fill, Risky
<1>8. CASE LinkNext(a)
  BY <1>1, <1>4, <1>5, <1>8 DEF LinkNext, Risky
<1>9. CASE Retire(a)
  <2>1. <<a, "retire">> \in left /\ link[a].current # 0 /\ link[a].current = current
    BY <1>1, <1>4, <1>5, <1>9 DEF Retire, Visit, Risky
  <2>2. /\ a \in Visits
        /\ link[a].current # ToCommit(job)
        /\ job.rollback => link[a].current = job.goal \/ link[a].current = 0
    <3>1. <<a, "retire">>[1] = a /\ <<a, "retire">>[2] = "retire"
      OBVIOUS
    <3> QED BY <1>1, <2>1, <3>1 DEF LeftInv, CheckoutInv, Stage
  <2>3. current = job.base
    BY <1>1 DEF RefInv
  <2>4. job.mode = "deploy" /\ ~job.rollback
    BY <1>1, <2>1, <2>2, <2>3 DEF JobInv, TypeOK, Mode, ToCommit
  <2>5. Differ(Tree(current), Tree(job.goal), a) /\ Tree(job.goal) \in tried
    BY <1>1, <2>2, <2>4, AtWork DEF Differ, Visits
  <2> QED BY <2>5
<1>10. CASE SwapIn(a)
  <2>1. <<a, "swap">> \in left /\ link'[a].current = link[a].next
        /\ link'[a].previous = link[a].previous
    BY <1>4, <1>10 DEF SwapIn, Visit
  <2>2. /\ link[a].next = ToCommit(job) /\ link[a].current = 0
        /\ job.mode = "deploy" => link[a].previous # ToCommit(job)
    <3>1. <<a, "swap">>[1] = a /\ <<a, "swap">>[2] = "swap"
      OBVIOUS
    <3> QED BY <1>1, <2>1, <3>1 DEF CheckoutInv, Stage
  <2>3. ToCommit(job) # 0
    <3>1. a \in DOMAIN To(job)
      <4>1. <<a, "swap">>[1] = a /\ <<a, "swap">>[2] # "remove"
        OBVIOUS
      <4> QED BY <1>1, <2>1, <4>1 DEF LeftInv
    <3> QED BY <3>1, VisitsAreApps
  <2>4. job.mode = "reapply" => current = ToCommit(job)
    BY <1>1 DEF RefInv, JobInv, ToCommit
  <2>5. job.mode \in Mode
    BY DEF TypeOK
  <2> QED BY <1>1, <1>5, <2>1, <2>2, <2>3, <2>4, <2>5 DEF Risky, Mode
<1> QED BY <1>3, <1>6, <1>7, <1>8, <1>9, <1>10

LEMMA RiskStep ==
    ASSUME ShapeInv, RefInv, CheckoutInv, RiskInv, [Next]_vars
    PROVE  RiskInv'
<1> USE DEF ShapeInv
<1>1. ASSUME UNCHANGED <<current, link>>, tried \subseteq tried', Tree(current)' = Tree(current)
      PROVE  RiskInv'
  BY <1>1 DEF RiskInv, Risky
<1>2. UNCHANGED commits => Tree(current)' = IF current' = current THEN Tree(current) ELSE Tree(current')
  BY DEF Tree
<1>3. ASSUME NEW t \in Configs, Deploy(t)
      PROVE  RiskInv'
  <2>1. current' = current /\ Tree(current)' = Tree(current)
    BY <1>3, OldTrees DEF Deploy, Begin, TypeOK, Tree
  <2> QED BY <1>1, <1>3, <2>1 DEF Deploy, Begin, diskVars
<1>4. CASE Reapply
  BY <1>1, <1>2, <1>4 DEF Reapply, Begin, diskVars
<1>5. CASE Proceed \/ Fails
  <2>1. UNCHANGED <<commits, current, link>> /\ Tree(current)' = Tree(current)
    BY <1>2, <1>5, Ends DEF refVars, diskVars
  <2>2. CASE UNCHANGED tried
    BY <1>1, <2>1, <2>2
  <2>3. CASE tried' = tried \ {Tree(job.goal)} /\ Busy /\ Recorded
    <3>1. SUFFICES ASSUME NEW a \in App, Risky(a)
                   PROVE  \E t \in tried \ {Tree(job.goal)} : Differ(Tree(current), t, a)
      BY <2>1, <2>3 DEF RiskInv, Risky
    <3>2. PICK t \in tried : Differ(Tree(current), t, a)
      BY <3>1 DEF RiskInv
    <3>3. CASE Tree(current) = Tree(job.goal)
      BY <3>2, <3>3, Differing
    <3>4. CASE From(job) = Tree(job.goal) /\ job.rollback /\ job.mode = "deploy"
      <4>1. a \notin Visits
        BY <2>3, <3>1, <3>4, AtEnd, VisitsAreApps DEF Landed, Risky, NoLinks
      <4>2. ~Differ(Tree(job.goal), Tree(current), a)
        BY <2>3, <3>4, <4>1, AtEnd DEF Differ, Visits
      <4> QED BY <3>2, <4>2, Differing
    <3> QED BY <2>3, <3>3, <3>4, AtEnd
  <2> QED BY <1>5, <2>2, <2>3, Ends
<1>6. CASE CheckoutStep
  BY <1>6, RiskCheckout
<1>7. CASE ActivateStep
  BY <1>1, <1>2, <1>7, ActivateSteps DEF refVars
<1>8. CASE Record
  <2>1. /\ UNCHANGED <<commits, link, tried>> /\ phase = "record" /\ left # {}
        /\ current' = IF job.rollback THEN current ELSE job.goal
    BY <1>8 DEF Record, Did, diskVars
  <2>2. Busy /\ ~Recorded /\ current = job.base
    BY <2>1 DEF Busy, Recorded, RefInv
  <2>3. CASE current' = current
    BY <1>1, <1>2, <2>1, <2>3
  <2>4. CASE current' # current
    <3>1. /\ ~job.rollback /\ job.mode = "deploy" /\ current' = job.goal
          /\ From(job) = Tree(current) /\ To(job) = Tree(job.goal) /\ ToCommit(job) = job.goal
      BY <2>1, <2>2, <2>4, AtWork DEF JobInv, TypeOK, Mode, ToCommit
    <3>2. SUFFICES ASSUME NEW a \in App, Risky(a)'
                   PROVE  \E t \in tried : Differ(Tree(job.goal), t, a)
      BY <1>2, <2>1, <2>4, <3>1 DEF RiskInv
    <3>3. /\ link[a].previous # 0
          /\ link[a].current = link[a].previous \/ (link[a].current = 0 /\ link[a].previous = job.goal)
      BY <2>1, <3>1, <3>2 DEF Risky
    <3>4. a \notin Visits
      <4>1. a \in Visits => Landed(a)
        BY <2>1, <2>2, PhaseNumbers DEF CheckoutInv, Visited, Past
      <4> QED BY <3>1, <3>3, <4>1, VisitsAreApps DEF Landed, NoLinks
    <3>5. link[a].previous # job.goal
      BY <2>2, <3>1 DEF CheckoutInv, Known
    <3>6. PICK t \in tried : Differ(Tree(current), t, a)
      BY <3>3, <3>5 DEF RiskInv, Risky
    <3>7. ~Differ(Tree(current), Tree(job.goal), a)
      BY <3>1, <3>4 DEF Differ, Visits
    <3> QED BY <3>6, <3>7, Differing
  <2> QED BY <2>3, <2>4
<1>9. CASE \E a \in App : Gc(a)
  BY <1>1, <1>2, <1>9 DEF Gc, Did, refVars
<1>10. CASE Crash \/ Drift
  BY <1>1, <1>2, <1>10 DEF Crash, Drift, refVars, diskVars
<1>11. CASE UNCHANGED vars
  BY <1>1, <1>2, <1>11 DEF vars, refVars, diskVars
<1> QED BY <1>3, <1>4, <1>5, <1>6, <1>7, <1>8, <1>9, <1>10, <1>11 DEF Next
-----------------------------------------------------------------------------
(* App a is on the disk as the tree has it.                                *)
AppOK(a, tree) ==
    IF a \notin DOMAIN tree THEN link[a] = NoLinks
    ELSE LET c == link[a].current
         IN  c # 0 /\ version[a][c] = "full" /\ a \in DOMAIN Tree(c) /\ Tree(c)[a] = tree[a]

(* An app that is not, someone changed, or an attempt at another version   *)
(* of it was left half done.                                               *)
AppInv ==
    \A a \in App : \/ AppOK(a, Tree(current))
                   \/ drifted /\ a \in DOMAIN Tree(current)
                   \/ \E t \in tried : Differ(Tree(current), t, a)

(* The checkout has put the apps it visited where the apply goes.          *)
LEMMA AppsLand ==
    ASSUME ShapeInv, NEW a \in Visits, Landed(a)
    PROVE  AppOK(a, To(job)) \/ (job.rollback /\ drifted /\ a \in DOMAIN To(job))
  BY VisitsAreApps, JobTrees DEF ShapeInv, Landed, AppOK

(* When an apply ends, its tree is no longer an excuse: the apps that it   *)
(* excused were visited and have landed.                                   *)
LEMMA AppStep ==
    ASSUME ShapeInv, RefInv, CheckoutInv, AppInv, [Next]_vars
    PROVE  AppInv'
<1> USE DEF ShapeInv
<1> DEFINE Fine(a) == \/ AppOK(a, Tree(current))
                      \/ drifted /\ a \in DOMAIN Tree(current)
                      \/ \E t \in tried : Differ(Tree(current), t, a)
<1>1. ASSUME UNCHANGED <<commits, current>>
      PROVE  \A c : Tree(c)' = Tree(c) /\ Tree(current)' = Tree(current)
  BY <1>1 DEF Tree
<1>2. ASSUME UNCHANGED <<commits, current, link, version>>, tried \subseteq tried', drifted => drifted'
      PROVE  AppInv'
  BY <1>1, <1>2 DEF AppInv, AppOK
<1>3. ASSUME NEW t \in Configs, Deploy(t)
      PROVE  AppInv'
  <2>1. /\ \A c \in 0 .. Len(commits) : Tree(c)' = Tree(c)
        /\ UNCHANGED <<current, link, version, drifted>> /\ tried \subseteq tried'
    BY <1>3, OldTrees DEF Deploy, Begin, diskVars
  <2>2. Tree(current)' = Tree(current)
    BY <2>1 DEF TypeOK
  <2>3. ASSUME NEW a \in App
        PROVE  Tree(link[a].current)' = Tree(link[a].current)
    <3>1. link[a].current \in Nat /\ link[a].current <= Len(commits)
      <4>1. link[a] \in [current : Commits, previous : Commits, next : Commits]
        BY DEF TypeOK, DiskTypeOK
      <4> QED BY <4>1, ConfigsAssumption DEF Commits, CheckoutInv, Known
    <3> QED BY <2>1, <3>1 DEF TypeOK
  <2>4. ASSUME NEW a \in App
        PROVE  AppOK(a, Tree(current)) => AppOK(a, Tree(current))'
    BY <2>1, <2>2, <2>3 DEF AppOK
  <2> QED BY <2>1, <2>2, <2>4 DEF AppInv
<1>4. CASE Reapply
  BY <1>2, <1>4 DEF Reapply, Begin, diskVars
<1>5. CASE Proceed \/ Fails
  <2>1. UNCHANGED <<commits, current, link, version>>
    BY <1>5, Ends DEF refVars, diskVars
  <2>2. CASE UNCHANGED <<tried, drifted>>
    BY <1>2, <2>1, <2>2
  <2>3. CASE /\ tried' = tried \ {Tree(job.goal)} /\ drifted' = (drifted /\ job.mode = "deploy")
             /\ Busy /\ Recorded
    <3>1. \A a \in App : AppOK(a, Tree(current))' <=> AppOK(a, Tree(current))
      BY <1>1, <2>1 DEF AppOK
    <3>2. SUFFICES ASSUME NEW a \in App
                   PROVE  \/ AppOK(a, Tree(current))
                          \/ drifted' /\ a \in DOMAIN Tree(current)
                          \/ \E t \in tried' : Differ(Tree(current), t, a)
      BY <1>1, <2>1, <3>1 DEF AppInv
    <3>3. Fine(a)
      BY DEF AppInv
    <3>4. a \in Visits => AppOK(a, Tree(current)) \/ (job.rollback /\ drifted /\ a \in DOMAIN Tree(current))
      BY <2>3, AtEnd, AppsLand
    <3>5. CASE job.mode = "reapply"
      <4>1. a \in Visits <=> a \in DOMAIN Tree(current)
        BY <2>3, <3>5, AtEnd, Differing DEF Visits, Differ
      <4>2. Tree(current) = Tree(job.goal) /\ ~job.rollback
        BY <2>3, <3>5, AtEnd
      <4> QED BY <2>3, <3>3, <3>4, <4>1, <4>2, Differing
    <3>6. job.mode = "deploy" => drifted' = drifted
      BY <2>3 DEF TypeOK
    <3>7. CASE job.mode = "deploy" /\ Tree(current) = Tree(job.goal)
      <4>1. \A t \in tried : Differ(Tree(current), t, a) => t \in tried'
        BY <2>3, <3>7, Differing
      <4> QED BY <3>3, <3>7, <3>6, <4>1
    <3>8. CASE job.mode = "deploy" /\ From(job) = Tree(job.goal) /\ job.rollback
      <4>1. CASE a \in Visits
        BY <2>3, <3>4, <3>8, <4>1
      <4>2. CASE a \notin Visits
        <5>1. ~Differ(Tree(job.goal), Tree(current), a)
          BY <2>3, <3>8, <4>2, AtEnd DEF Differ, Visits
        <5>2. \A t \in tried : Differ(Tree(current), t, a) => t \in tried'
          BY <2>3, <5>1, Differing
        <5> QED BY <3>3, <3>8, <3>6, <5>2
      <4> QED BY <4>1, <4>2
    <3> QED BY <2>3, <3>5, <3>7, <3>8, AtEnd DEF TypeOK, Mode
  <2> QED BY <1>5, <2>2, <2>3, Ends
<1>6. CASE CheckoutStep
  <2>1. PICK a \in App :
            /\ a \in Visits
            /\ \A b \in App : b # a => link'[b] = link[b] /\ version'[b] = version[b]
            /\ phase = "checkout" /\ (drifted => drifted')
            /\ UNCHANGED <<commits, current, tried>>
    <3>1. PICK a \in App : RemoveApp(a) \/ Unpack(a) \/ Fill(a) \/ LinkNext(a) \/ Retire(a) \/ SwapIn(a)
      BY <1>6 DEF CheckoutStep
    <3>2. \A b \in App : b # a => link'[b] = link[b] /\ version'[b] = version[b]
      BY <3>1 DEF RemoveApp, Unpack, Fill, LinkNext, Retire, SwapIn, TypeOK, DiskTypeOK
    <3>3. \E s : <<a, s>> \in left /\ phase = "checkout"
      BY <3>1 DEF RemoveApp, Unpack, Fill, LinkNext, Retire, SwapIn, Visit
    <3>4. a \in Visits
      BY <3>3 DEF LeftInv
    <3> QED BY <1>6, <3>2, <3>3, <3>4, CheckoutSteps DEF refVars
  <2>2. \A b \in App : b # a /\ Fine(b) => Fine(b)'
    BY <1>1, <2>1 DEF AppOK
  <2>3. Fine(a)'
    <3>1. \/ job.mode = "reapply" /\ drifted /\ a \in DOMAIN Tree(current)
          \/ Tree(job.goal) \in tried /\ Differ(Tree(current), Tree(job.goal), a)
      BY <2>1, AtWork, Differing DEF Busy, Recorded, Visits, Differ
    <3> QED BY <1>1, <2>1, <3>1
  <2> QED BY <2>2, <2>3 DEF AppInv
<1>7. CASE ActivateStep
  BY <1>2, <1>7, ActivateSteps DEF refVars
<1>8. CASE Record
  <2>1. /\ UNCHANGED <<commits, link, version, tried, drifted>> /\ phase = "record" /\ left # {}
        /\ current' = IF job.rollback THEN current ELSE job.goal
    BY <1>8 DEF Record, Did, diskVars
  <2>2. Busy /\ ~Recorded /\ current = job.base
    BY <2>1 DEF Busy, Recorded, RefInv
  <2>3. CASE current' = current
    BY <1>2, <2>1, <2>3
  <2>4. CASE current' # current
    <3>1. /\ ~job.rollback /\ job.mode = "deploy" /\ current' = job.goal
          /\ From(job) = Tree(current) /\ To(job) = Tree(job.goal)
      BY <2>1, <2>2, <2>4, AtWork DEF JobInv, TypeOK, Mode
    <3>2. /\ \A c : Tree(c)' = Tree(c)
          /\ Tree(current)' = Tree(job.goal)
          /\ \A a \in App : AppOK(a, Tree(current))' <=> AppOK(a, Tree(job.goal))
      <4>1. \A c : Tree(c)' = Tree(c)
        BY <2>1 DEF Tree
      <4>2. Tree(current)' = Tree(job.goal)
        BY <2>1, <3>1 DEF Tree
      <4> QED BY <2>1, <4>1, <4>2 DEF AppOK
    <3>3. SUFFICES ASSUME NEW a \in App
                   PROVE  \/ AppOK(a, Tree(job.goal))
                          \/ drifted /\ a \in DOMAIN Tree(job.goal)
                          \/ \E t \in tried : Differ(Tree(job.goal), t, a)
      BY <2>1, <3>2 DEF AppInv
    <3>4. CASE a \in Visits
      <4>1. Landed(a)
        BY <2>1, <2>2, <3>4, PhaseNumbers DEF CheckoutInv, Visited, Past
      <4> QED BY <3>1, <3>4, <4>1, AppsLand
    <3>5. CASE a \notin Visits
      <4>1. ~Differ(Tree(current), Tree(job.goal), a)
        BY <3>1, <3>5 DEF Differ, Visits
      <4>2. AppOK(a, Tree(current)) => AppOK(a, Tree(job.goal))
        BY <4>1, Differing DEF AppOK
      <4> QED BY <4>1, <4>2, Differing DEF AppInv
    <3> QED BY <3>4, <3>5
  <2> QED BY <2>3, <2>4
<1>9. ASSUME NEW b \in App, Gc(b)
      PROVE  AppInv'
  <2>1. /\ UNCHANGED <<commits, current, link, tried, drifted>>
        /\ version' = [version EXCEPT ![b] =
               [c \in 1 .. MaxCommits |-> IF c \in Kept(b) THEN version[b][c] ELSE "none"]]
    BY <1>9 DEF Gc, Did, refVars
  <2>2. ASSUME NEW a \in App, link[a].current # 0
        PROVE  version'[a][link[a].current] = version[a][link[a].current]
    <3>1. link[a].current \in 1 .. MaxCommits
      <4>1. link[a] \in [current : Commits, previous : Commits, next : Commits]
        BY DEF TypeOK, DiskTypeOK
      <4> QED BY <2>2, <4>1, ConfigsAssumption DEF Commits
    <3> QED BY <2>1, <3>1 DEF Kept, TypeOK, DiskTypeOK
  <2>3. \A a \in App : AppOK(a, Tree(current)) => AppOK(a, Tree(current))'
    BY <1>1, <2>1, <2>2 DEF AppOK
  <2> QED BY <1>1, <2>1, <2>3 DEF AppInv
<1>10. CASE Crash
  BY <1>2, <1>10 DEF Crash, refVars, diskVars
<1>11. CASE Drift
  <2>1. UNCHANGED <<commits, current, link, tried>> /\ drifted'
    BY <1>11 DEF Drift, refVars
  <2>2. \A a \in App \ DOMAIN Tree(current) : AppOK(a, Tree(current)) => AppOK(a, Tree(current))'
    BY <1>1, <2>1 DEF AppOK
  <2> QED BY <1>1, <2>1, <2>2 DEF AppInv
<1>12. CASE UNCHANGED vars
  BY <1>2, <1>12 DEF vars, refVars, diskVars
<1> QED BY <1>3, <1>4, <1>5, <1>6, <1>7, <1>8, <1>9, <1>10, <1>11, <1>12 DEF Next
-----------------------------------------------------------------------------
(* A tree wants at a link path what the one app that has it says.          *)
LEMMA Desired ==
    ASSUME NEW t \in Trees
    PROVE  /\ \A p : \/ \E a \in DOMAIN t : /\ p \in DOMAIN t[a].symlinks
                                            /\ DesiredLink(t, p) = <<a, t[a].symlinks[p]>>
                     \/ /\ DesiredLink(t, p) = Absent
                        /\ \A a \in DOMAIN t : p \notin DOMAIN t[a].symlinks
           /\ \A p : \A a \in DOMAIN t : p \in DOMAIN t[a].symlinks =>
                 DesiredLink(t, p) = <<a, t[a].symlinks[p]>> /\ DesiredLink(t, p) # Absent
           /\ \A p : \A a, b \in DOMAIN t :
                 p \in DOMAIN t[a].symlinks /\ p \in DOMAIN t[b].symlinks => a = b
<1>1. ASSUME NEW a \in DOMAIN t, NEW b \in DOMAIN t, NEW p,
             p \in DOMAIN t[a].symlinks, p \in DOMAIN t[b].symlinks
      PROVE  a = b
  BY <1>1, ConfigsAssumption DEF Valid, Trees, NoApps, NoEntries
<1>2. DOMAIN t \subseteq App
  BY Paths DEF Trees, NoApps, NoEntries, App
<1>3. ASSUME NEW p, NEW a \in DOMAIN t, p \in DOMAIN t[a].symlinks
      PROVE  DesiredLink(t, p) = <<a, t[a].symlinks[p]>> /\ DesiredLink(t, p) # Absent
  <2> DEFINE owners == {b \in DOMAIN t : p \in DOMAIN t[b].symlinks}
  <2>1. owners = {a}
    BY <1>1, <1>3
  <2>2. Max(owners) = a
    <3>1. a \in Nat
      BY <1>2, ConfigsAssumption
    <3>2. a >= a
      BY <3>1
    <3> QED BY <2>1, <3>2 DEF Max
  <2>3. DesiredLink(t, p) = <<a, t[a].symlinks[p]>>
    BY <2>1, <2>2 DEF DesiredLink
  <2> QED BY <2>3 DEF Absent
<1>4. ASSUME NEW p, \A a \in DOMAIN t : p \notin DOMAIN t[a].symlinks
      PROVE  DesiredLink(t, p) = Absent
  <2>1. {a \in DOMAIN t : p \in DOMAIN t[a].symlinks} = {}
    BY <1>4
  <2> QED BY <2>1 DEF DesiredLink
<1> QED BY <1>1, <1>3, <1>4

(* What the phases for links do between two trees is what distinguishes    *)
(* the two, one path at a time.                                            *)
LEMMA LinkWork ==
    ASSUME NEW t \in Trees, NEW u \in Trees
    PROVE  LET links == DiffHost(t, u).symlinks
           IN  /\ \A p \in links.remove :
                     /\ DesiredLink(t, p) # DesiredLink(u, p) /\ DesiredLink(t, p) # Absent
                     /\ \A x \in links.change : x[1] # p
               /\ \A x \in links.change :
                     /\ DesiredLink(u, x[1]) = <<x[2], x[3]>>
                     /\ DesiredLink(t, x[1]) # DesiredLink(u, x[1]) /\ DesiredLink(t, x[1]) # Absent
               /\ \A x \in links.create :
                     /\ DesiredLink(u, x[1]) = <<x[2], x[3]>>
                     /\ DesiredLink(t, x[1]) # DesiredLink(u, x[1]) /\ DesiredLink(u, x[1]) # Absent
               /\ \A x \in links.change : \A y \in links.create : x[1] # y[1]
               /\ \A x, y \in links.change : x[1] = y[1] => x = y
               /\ \A x, y \in links.create : x[1] = y[1] => x = y
               /\ \A p : DesiredLink(t, p) # DesiredLink(u, p) =>
                     \/ DesiredLink(u, p) = Absent /\ p \in links.remove
                     \/ \E x \in links.change \cup links.create :
                           x[1] = p /\ DesiredLink(u, p) = <<x[2], x[3]>>
<1> DEFINE links == DiffHost(t, u).symlinks
           Old(a) == AppTree(t, a).symlinks
           New(a) == AppTree(u, a).symlinks
           D == DOMAIN DiffApps(t, u)
<1>1. ASSUME NEW v \in Trees, NEW a, NEW p, p \in DOMAIN AppTree(v, a).symlinks
      PROVE  /\ a \in DOMAIN v /\ AppTree(v, a) = v[a] /\ p \in DOMAIN v[a].symlinks
             /\ DesiredLink(v, p) = <<a, AppTree(v, a).symlinks[p]>>
             /\ DesiredLink(v, p) # Absent
  <2>1. a \in DOMAIN v /\ AppTree(v, a) = v[a]
    BY <1>1 DEF AppTree, EmptyTree, NoEntries
  <2> QED BY <1>1, <2>1, Desired
<1>2. ASSUME NEW v \in Trees, NEW a, NEW b, NEW p,
             p \in DOMAIN AppTree(v, a).symlinks, p \in DOMAIN AppTree(v, b).symlinks
      PROVE  a = b
  BY <1>1, <1>2, Desired
<1>3. ASSUME NEW a, NEW p, p \in DOMAIN Old(a), p \notin DOMAIN New(a)
      PROVE  DesiredLink(t, p) # DesiredLink(u, p)
  <2>1. DesiredLink(t, p) = <<a, Old(a)[p]>> /\ DesiredLink(t, p) # Absent
    BY <1>1, <1>3
  <2>2. CASE DesiredLink(u, p) = Absent
    BY <2>1, <2>2
  <2>3. CASE \E b \in DOMAIN u : /\ p \in DOMAIN u[b].symlinks
                                 /\ DesiredLink(u, p) = <<b, u[b].symlinks[p]>>
    <3>1. PICK b \in DOMAIN u : /\ p \in DOMAIN u[b].symlinks
                                /\ DesiredLink(u, p) = <<b, u[b].symlinks[p]>>
      BY <2>3
    <3>2. b # a
      BY <1>3, <3>1 DEF AppTree
    <3> QED BY <2>1, <3>1, <3>2
  <2> QED BY <2>2, <2>3, Desired
<1>4. ASSUME NEW a, NEW p, p \notin DOMAIN Old(a), p \in DOMAIN New(a)
      PROVE  DesiredLink(t, p) # DesiredLink(u, p)
  <2>1. DesiredLink(u, p) = <<a, New(a)[p]>> /\ DesiredLink(u, p) # Absent
    BY <1>1, <1>4
  <2>2. CASE DesiredLink(t, p) = Absent
    BY <2>1, <2>2
  <2>3. CASE \E b \in DOMAIN t : /\ p \in DOMAIN t[b].symlinks
                                 /\ DesiredLink(t, p) = <<b, t[b].symlinks[p]>>
    <3>1. PICK b \in DOMAIN t : /\ p \in DOMAIN t[b].symlinks
                                /\ DesiredLink(t, p) = <<b, t[b].symlinks[p]>>
      BY <2>3
    <3>2. b # a
      BY <1>4, <3>1 DEF AppTree
    <3> QED BY <2>1, <3>1, <3>2
  <2> QED BY <2>2, <2>3, Desired
<1>5. ASSUME NEW x \in links.change
      PROVE  \E a : /\ x = <<x[1], a, New(a)[x[1]]>>
                    /\ x[1] \in DOMAIN Old(a) /\ x[1] \in DOMAIN New(a) /\ Old(a)[x[1]] # New(a)[x[1]]
  <2>1. PICK a \in D : \E p \in DOMAIN New(a) \cap DOMAIN Old(a) :
                           Old(a)[p] # New(a)[p] /\ x = <<p, a, New(a)[p]>>
    BY DiffMembers
  <2>2. PICK p \in DOMAIN New(a) \cap DOMAIN Old(a) : Old(a)[p] # New(a)[p] /\ x = <<p, a, New(a)[p]>>
    BY <2>1
  <2>3. x[1] = p
    BY <2>2
  <2> QED BY <2>2, <2>3
<1>6. ASSUME NEW x \in links.create
      PROVE  \E a : /\ x = <<x[1], a, New(a)[x[1]]>>
                    /\ x[1] \notin DOMAIN Old(a) /\ x[1] \in DOMAIN New(a)
  <2>1. PICK a \in D : \E p \in DOMAIN New(a) \ DOMAIN Old(a) : x = <<p, a, New(a)[p]>>
    BY DiffMembers
  <2>2. PICK p \in DOMAIN New(a) \ DOMAIN Old(a) : x = <<p, a, New(a)[p]>>
    BY <2>1
  <2>3. x[1] = p
    BY <2>2
  <2> QED BY <2>2, <2>3
<1>7. ASSUME NEW p \in links.remove
      PROVE  \E a : p \in DOMAIN Old(a) /\ p \notin DOMAIN New(a)
  BY DiffMembers
<1>8. \A p \in links.remove :
          /\ DesiredLink(t, p) # DesiredLink(u, p) /\ DesiredLink(t, p) # Absent
          /\ \A x \in links.change : x[1] # p
  BY <1>1, <1>2, <1>3, <1>5, <1>7
<1>9. ASSUME NEW x \in links.change
      PROVE  /\ DesiredLink(u, x[1]) = <<x[2], x[3]>>
             /\ DesiredLink(t, x[1]) # DesiredLink(u, x[1]) /\ DesiredLink(t, x[1]) # Absent
  <2>1. PICK a : /\ x = <<x[1], a, New(a)[x[1]]>>
                 /\ x[1] \in DOMAIN Old(a) /\ x[1] \in DOMAIN New(a) /\ Old(a)[x[1]] # New(a)[x[1]]
    BY <1>5
  <2>2. x[2] = a /\ x[3] = New(a)[x[1]]
    BY <2>1
  <2>3. DesiredLink(u, x[1]) = <<a, New(a)[x[1]]>>
    BY <1>1, <2>1
  <2>4. DesiredLink(t, x[1]) = <<a, Old(a)[x[1]]>> /\ DesiredLink(t, x[1]) # Absent
    BY <1>1, <2>1
  <2> QED BY <2>1, <2>2, <2>3, <2>4
<1>10. ASSUME NEW x \in links.create
       PROVE  /\ DesiredLink(u, x[1]) = <<x[2], x[3]>>
              /\ DesiredLink(t, x[1]) # DesiredLink(u, x[1]) /\ DesiredLink(u, x[1]) # Absent
  <2>1. PICK a : x = <<x[1], a, New(a)[x[1]]>> /\ x[1] \notin DOMAIN Old(a) /\ x[1] \in DOMAIN New(a)
    BY <1>6
  <2>2. x[2] = a /\ x[3] = New(a)[x[1]]
    BY <2>1
  <2> QED BY <1>1, <1>4, <2>1, <2>2
<1>11. \A x \in links.change : \A y \in links.create : x[1] # y[1]
  BY <1>2, <1>5, <1>6
<1>12. \A x, y \in links.change : x[1] = y[1] => x = y
  BY <1>2, <1>5
<1>13. \A x, y \in links.create : x[1] = y[1] => x = y
  BY <1>2, <1>6
<1>14. ASSUME NEW p, DesiredLink(t, p) # DesiredLink(u, p)
       PROVE  \/ DesiredLink(u, p) = Absent /\ p \in links.remove
              \/ \E x \in links.change \cup links.create :
                    x[1] = p /\ DesiredLink(u, p) = <<x[2], x[3]>>
  <2>1. CASE DesiredLink(u, p) = Absent
    <3>1. PICK a \in DOMAIN t : p \in DOMAIN t[a].symlinks
      BY <1>14, <2>1, Desired
    <3>2. p \in DOMAIN Old(a) /\ p \notin DOMAIN New(a)
      BY <1>1, <2>1, <3>1 DEF AppTree
    <3>3. a \in D
      BY <3>1, <3>2 DEF DiffApps, AppTree
    <3> QED BY <2>1, <3>2, <3>3, DiffMembers
  <2>2. CASE \E a \in DOMAIN u : p \in DOMAIN u[a].symlinks
    <3>1. PICK a \in DOMAIN u : p \in DOMAIN u[a].symlinks
      BY <2>2
    <3>2. p \in DOMAIN New(a) /\ DesiredLink(u, p) = <<a, New(a)[p]>>
      BY <3>1, Desired DEF AppTree
    <3>3. p \in DOMAIN Old(a) => Old(a)[p] # New(a)[p]
      BY <1>1, <1>14, <3>2
    <3>4. a \in D
      BY <3>1, <3>2, <3>3 DEF DiffApps, AppTree
    <3> DEFINE x == <<p, a, New(a)[p]>>
    <3>5. x[1] = p /\ x[2] = a /\ x[3] = New(a)[p]
      OBVIOUS
    <3>6. x \in links.change \/ x \in links.create
      BY <3>2, <3>3, <3>4, DiffMembers
    <3> QED BY <3>2, <3>5, <3>6
  <2> QED BY <2>1, <2>2, Desired
<1> QED BY <1>8, <1>9, <1>10, <1>11, <1>12, <1>13, <1>14
(* A phase for links leaves what it has done behind, and no later phase    *)
(* undoes it: a path that is removed for one app and created for another   *)
(* is the only one that two phases work on.                                *)
LinksDone ==
    LET links == System(job).symlinks
    IN  /\ \A p \in links.remove :
              Past(2) \/ (phase = "remove" /\ p \notin left) =>
                  manifest[p] = Absent \/ \E x \in links.create : x[1] = p
        /\ \A x \in links.change :
              Past(3) \/ (phase = "change" /\ x \notin left) => manifest[x[1]] = <<x[2], x[3]>>
        /\ \A x \in links.create :
              Past(4) \/ (phase = "create" /\ x \notin left) => manifest[x[1]] = <<x[2], x[3]>>

(* The links whose phases are over are as the diff says.                   *)
LEMMA LinksEnter ==
    ASSUME ShapeInv, NEW i \in 1 .. 16, NEW j, Enter(j, i), UNCHANGED <<refVars, diskVars>>,
           i > 2 => \A p \in System(j).symlinks.remove :
               manifest[p] = Absent \/ \E x \in System(j).symlinks.create : x[1] = p,
           i > 3 => \A x \in System(j).symlinks.change : manifest[x[1]] = <<x[2], x[3]>>,
           i > 4 => \A x \in System(j).symlinks.create : manifest[x[1]] = <<x[2], x[3]>>
    PROVE  LinksDone'
<1>1. manifest' = manifest /\ System(job)' = System(j)
  BY SameTrees DEF Enter, refVars, diskVars
<1>2. CASE phase' = "idle"
  BY <1>2 DEF LinksDone, Past, Busy
<1>3. ASSUME NEW k \in i .. 15, phase' = Phases[k], left' = Work(j, System(j), Phases[k]),
             \A m \in i .. k - 1 : Work(j, System(j), Phases[m]) = {}
      PROVE  LinksDone'
  <2>1. Number(phase') = k /\ Number(phase)' = k
    BY <1>3, PhaseNumbers
  <2>2. ASSUME NEW m \in 2 .. 4, k > m, ~(i > m)
        PROVE  Work(j, System(j), Phases[m]) = {}
    <3>1. m \in i .. k - 1
      BY <2>2
    <3> QED BY <1>3, <3>1
  <2>3. /\ Phases[2] = "remove" /\ Phases[3] = "change" /\ Phases[4] = "create"
        /\ Work(j, System(j), "remove") = System(j).symlinks.remove
        /\ Work(j, System(j), "change") = System(j).symlinks.change
        /\ Work(j, System(j), "create") = System(j).symlinks.create
    BY PhaseAt, WorkOf
  <2>4. ASSUME NEW p \in System(j).symlinks.remove, Past(2)' \/ (phase' = "remove" /\ p \notin left')
        PROVE  manifest[p] = Absent \/ \E x \in System(j).symlinks.create : x[1] = p
    <3>1. k > 2
      BY <1>3, <2>1, <2>3, <2>4 DEF Past
    <3> QED BY <2>2, <2>3, <2>4, <3>1
  <2>5. ASSUME NEW x \in System(j).symlinks.change, Past(3)' \/ (phase' = "change" /\ x \notin left')
        PROVE  manifest[x[1]] = <<x[2], x[3]>>
    <3>1. k > 3
      BY <1>3, <2>1, <2>3, <2>5 DEF Past
    <3> QED BY <2>2, <2>3, <2>5, <3>1
  <2>6. ASSUME NEW x \in System(j).symlinks.create, Past(4)' \/ (phase' = "create" /\ x \notin left')
        PROVE  manifest[x[1]] = <<x[2], x[3]>>
    <3>1. k > 4
      BY <1>3, <2>1, <2>3, <2>6 DEF Past
    <3> QED BY <2>2, <2>3, <2>6, <3>1
  <2> QED BY <1>1, <2>4, <2>5, <2>6 DEF LinksDone
<1> QED BY <1>2, <1>3, EnterSteps

LEMMA LinksActivate ==
    ASSUME ShapeInv, LinksDone, ActivateStep
    PROVE  LinksDone'
<1> USE DEF ShapeInv
<1> DEFINE links == System(job).symlinks
<1>1. UNCHANGED <<commits, job, phase>> /\ Busy
  BY ActivateSteps DEF refVars, Busy
<1>2. System(job)' = System(job) /\ \A n : Past(n)' <=> Past(n)
  BY <1>1, SameTrees DEF Past, Busy
<1>3. /\ From(job) \in Trees /\ To(job) \in Trees /\ links = DiffHost(From(job), To(job)).symlinks
      /\ links.remove \subseteq Path
      /\ \A x \in links.create \cup links.change : x[1] \in Path
  BY JobTrees, DiffTypes DEF System
<1>4. /\ \A p \in links.remove : \A x \in links.change : x[1] # p
      /\ \A x \in links.change : \A y \in links.create : x[1] # y[1]
      /\ \A x, y \in links.change : x[1] = y[1] => x = y
      /\ \A x, y \in links.create : x[1] = y[1] => x = y
  BY <1>3, LinkWork
<1>5. manifest = [p \in Path |-> manifest[p]]
  BY DEF TypeOK, DiskTypeOK
<1>6. ASSUME UNCHANGED manifest, phase \notin {"remove", "change", "create"}
      PROVE  LinksDone'
  BY <1>1, <1>2, <1>6 DEF LinksDone
<1>7. ASSUME NEW p \in left, RemoveLink(p)
      PROVE  LinksDone'
  <2>1. /\ phase = "remove" /\ left' = left \ {p} /\ manifest' = [manifest EXCEPT ![p] = Absent]
        /\ p \in links.remove
    BY <1>7 DEF RemoveLink, Did, LeftInv
  <2>2. \A q \in links.remove : manifest'[q] = IF q = p THEN Absent ELSE manifest[q]
    BY <1>3, <1>5, <2>1
  <2>3. ~Past(3) /\ ~Past(4) /\ phase \notin {"change", "create"}
    BY <2>1, PhaseNumbers DEF Past
  <2> QED BY <1>1, <1>2, <2>1, <2>2, <2>3 DEF LinksDone
<1>8. ASSUME NEW x \in left, ChangeLink(x)
      PROVE  LinksDone'
  <2>1. /\ phase = "change" /\ x \in links.change
        /\ \/ left' = left \ {x} /\ manifest' = [manifest EXCEPT ![x[1]] = <<x[2], x[3]>>]
           \/ left' = left /\ manifest' = [manifest EXCEPT ![x[1]] = Absent]
    BY <1>8 DEF ChangeLink, Did, LeftInv, jobVars
  <2>2. /\ \A q \in Path : q # x[1] => manifest'[q] = manifest[q]
        /\ x \notin left' => manifest'[x[1]] = <<x[2], x[3]>>
    BY <1>3, <1>5, <1>8, <2>1
  <2>3. ~Past(3) /\ ~Past(4) /\ phase \notin {"remove", "create"}
    BY <2>1, PhaseNumbers DEF Past
  <2>4. ASSUME NEW y \in links.change, y \notin left'
        PROVE  manifest'[y[1]] = <<y[2], y[3]>>
    <3>1. CASE y = x
      BY <2>2, <2>4, <3>1
    <3>2. CASE y # x
      <4>1. y \notin left /\ y[1] # x[1]
        BY <1>4, <2>1, <2>4, <3>2
      <4> QED BY <1>3, <2>1, <2>2, <4>1 DEF LinksDone
    <3> QED BY <3>1, <3>2
  <2> QED BY <1>1, <1>2, <1>3, <1>4, <2>1, <2>2, <2>3, <2>4 DEF LinksDone
<1>9. ASSUME NEW x \in left, CreateLink(x)
      PROVE  LinksDone'
  <2>1. /\ phase = "create" /\ x \in links.create
        /\ left' = left \ {x} /\ manifest' = [manifest EXCEPT ![x[1]] = <<x[2], x[3]>>]
    BY <1>9 DEF CreateLink, Did, LeftInv
  <2>2. /\ \A q \in Path : q # x[1] => manifest'[q] = manifest[q]
        /\ manifest'[x[1]] = <<x[2], x[3]>>
    BY <1>3, <1>5, <2>1
  <2>3. ~Past(4) /\ phase \notin {"remove", "change"}
    BY <2>1, PhaseNumbers DEF Past
  <2>4. ASSUME NEW y \in links.create, y \notin left'
        PROVE  manifest'[y[1]] = <<y[2], y[3]>>
    <3>1. CASE y = x
      BY <2>2, <3>1
    <3>2. CASE y # x
      <4>1. y \notin left /\ y[1] # x[1]
        BY <1>4, <2>1, <2>4, <3>2
      <4> QED BY <1>3, <2>1, <2>2, <4>1 DEF LinksDone
    <3> QED BY <3>1, <3>2
  <2> QED BY <1>1, <1>2, <1>3, <1>4, <2>1, <2>2, <2>3, <2>4 DEF LinksDone
<1>10. ASSUME NEW x \in left, Reconcile(x) \/ Disable(x) \/ Enable(x)
       PROVE  LinksDone'
  BY <1>6, <1>10 DEF Reconcile, Disable, Enable, Subdir
<1>11. CASE RunCommand
  BY <1>6, <1>11 DEF RunCommand, diskVars
<1> QED BY <1>7, <1>8, <1>9, <1>10, <1>11 DEF ActivateStep

LEMMA LinksStep ==
    ASSUME ShapeInv, LinksDone, [Next]_vars
    PROVE  LinksDone'
<1> USE DEF ShapeInv
<1>1. ASSUME phase' \in {"idle", "prepared"}
      PROVE  LinksDone'
  BY <1>1, PhaseNumbers DEF LinksDone, Past, Busy
<1>2. ASSUME UNCHANGED <<commits, job, phase, manifest>>,
             phase \in {"remove", "change", "create"} => left' = left
      PROVE  LinksDone'
  <2>1. System(job)' = System(job) /\ \A n : Past(n)' <=> Past(n)
    BY <1>2, SameTrees DEF Past, Busy
  <2> QED BY <1>2, <2>1 DEF LinksDone
<1>3. CASE Proceed
  <2>1. Number(phase) + 1 \in 1 .. 16 /\ Number(phase) \in 0 .. 15 /\ Busy /\ left = {}
    BY <1>3, PhaseNames, PhaseNumbers DEF Proceed, Busy
  <2>2. /\ Number(phase) + 1 > 2 => Past(2) \/ phase = "remove"
        /\ Number(phase) + 1 > 3 => Past(3) \/ phase = "change"
        /\ Number(phase) + 1 > 4 => Past(4) \/ phase = "create"
    BY <1>3, <2>1, PhaseNames, PhaseNumbers DEF Proceed, Past
  <2> QED BY <1>3, <2>1, <2>2, LinksEnter DEF Proceed, LinksDone
<1>4. CASE Fails
  <2>1. CASE RollsBack
    BY <1>4, <2>1, LinksEnter DEF Fails
  <2>2. CASE ~RollsBack
    BY <1>1, <1>4, <2>2 DEF Fails
  <2> QED BY <2>1, <2>2
<1>5. CASE CheckoutStep
  BY <1>2, <1>5, CheckoutSteps DEF Visit, refVars
<1>6. CASE ActivateStep
  BY <1>6, LinksActivate
<1>7. CASE Record \/ \E a \in App : Gc(a)
  BY <1>2, <1>7 DEF Record, Gc, Did, refVars, diskVars
<1>8. CASE UNCHANGED vars
  BY <1>2, <1>8 DEF vars, refVars, diskVars, jobVars
<1> QED BY <1>1, <1>3, <1>4, <1>5, <1>6, <1>7, <1>8
        DEF Next, Deploy, Reapply, Begin, Crash, Drift

(* The phases have put the links on which the trees differ where the apply *)
(* goes.                                                                   *)
LEMMA LinksLand ==
    ASSUME ShapeInv, LinksDone, Past(4), NEW p, DesiredLink(From(job), p) # DesiredLink(To(job), p)
    PROVE  manifest[p] = DesiredLink(To(job), p)
<1> USE DEF ShapeInv
<1>1. Past(2) /\ Past(3)
  <2>1. Number(phase) \in 0 .. 15
    BY PhaseNames, PhaseNumbers DEF Past, Busy
  <2> QED BY <2>1 DEF Past
<1>2. From(job) \in Trees /\ To(job) \in Trees /\ System(job) = DiffHost(From(job), To(job))
  BY JobTrees DEF System
<1>3. CASE DesiredLink(To(job), p) = Absent /\ p \in System(job).symlinks.remove
  BY <1>1, <1>2, <1>3, LinkWork DEF LinksDone
<1>4. CASE \E x \in System(job).symlinks.change \cup System(job).symlinks.create :
              x[1] = p /\ DesiredLink(To(job), p) = <<x[2], x[3]>>
  BY <1>1, <1>4 DEF LinksDone
<1> QED BY <1>2, <1>3, <1>4, LinkWork
(* A link that is not as the current tree has it, someone changed, or an   *)
(* attempt at another one was left half done.                              *)
LinkInv ==
    \A p \in Path : \/ manifest[p] = DesiredLink(Tree(current), p)
                    \/ drifted /\ DesiredLink(Tree(current), p) # Absent
                    \/ \E t \in tried : DesiredLink(t, p) # DesiredLink(Tree(current), p)

(* While the phases for links work, the links they work on are excused.    *)
LEMMA LinkExcused ==
    ASSUME ShapeInv, RefInv, Busy, ~Recorded, NEW p,
           \/ /\ DesiredLink(From(job), p) # DesiredLink(To(job), p)
              /\ DesiredLink(From(job), p) # Absent \/ DesiredLink(To(job), p) # Absent
    PROVE  \/ drifted /\ DesiredLink(Tree(current), p) # Absent
           \/ \E t \in tried : DesiredLink(t, p) # DesiredLink(Tree(current), p)
<1>1. DesiredLink(NoApps, p) = Absent
  <2>1. NoApps \in Trees /\ DOMAIN NoApps = {}
    BY DEF Trees, NoApps, NoEntries
  <2> QED BY <2>1, Desired
<1> QED BY <1>1, AtWork

LEMMA LinkActivate ==
    ASSUME ShapeInv, RefInv, LinkInv, ActivateStep
    PROVE  LinkInv'
<1> USE DEF ShapeInv
<1>1. /\ UNCHANGED <<commits, current, tried, drifted>> /\ Busy
      /\ \A p : DesiredLink(Tree(current), p)' = DesiredLink(Tree(current), p)
      /\ \A t, p : DesiredLink(t, p)' = DesiredLink(t, p)
  <2>1. UNCHANGED <<commits, current, tried, drifted>> /\ Busy
    BY ActivateSteps DEF refVars, Busy
  <2>2. Tree(current)' = Tree(current)
    BY <2>1 DEF Tree
  <2> QED BY <2>1, <2>2 DEF DesiredLink
<1>2. /\ From(job) \in Trees /\ To(job) \in Trees /\ System(job) = DiffHost(From(job), To(job))
      /\ manifest = [p \in Path |-> manifest[p]]
  BY JobTrees DEF System, TypeOK, DiskTypeOK
<1>3. ASSUME NEW q \in Path, phase \in {"remove", "change", "create"},
             manifest' = manifest \/ \E v : manifest' = [manifest EXCEPT ![q] = v],
             DesiredLink(From(job), q) # DesiredLink(To(job), q),
             DesiredLink(From(job), q) # Absent \/ DesiredLink(To(job), q) # Absent
      PROVE  LinkInv'
  <2>1. \A p \in Path : p # q => manifest'[p] = manifest[p]
    BY <1>2, <1>3
  <2>2. ~Recorded
    BY <1>3 DEF Recorded
  <2>3. \/ drifted /\ DesiredLink(Tree(current), q) # Absent
        \/ \E t \in tried : DesiredLink(t, q) # DesiredLink(Tree(current), q)
    <3>1. Busy
      BY <1>1
    <3> QED BY <1>3, <2>2, <3>1, LinkExcused
  <2>4. ASSUME NEW p \in Path
        PROVE  \/ manifest'[p] = DesiredLink(Tree(current), p)
               \/ drifted /\ DesiredLink(Tree(current), p) # Absent
               \/ \E t \in tried : DesiredLink(t, p) # DesiredLink(Tree(current), p)
    BY <2>1, <2>3 DEF LinkInv
  <2> QED BY <1>1, <2>4 DEF LinkInv
<1>4. ASSUME UNCHANGED manifest
      PROVE  LinkInv'
  BY <1>1, <1>4 DEF LinkInv
<1>5. ASSUME NEW p \in left, RemoveLink(p)
      PROVE  LinkInv'
  <2>1. p \in System(job).symlinks.remove /\ phase = "remove"
        /\ manifest' = [manifest EXCEPT ![p] = Absent]
    BY <1>5 DEF RemoveLink, LeftInv
  <2>2. /\ p \in Path /\ DesiredLink(From(job), p) # DesiredLink(To(job), p)
        /\ DesiredLink(From(job), p) # Absent
    BY <1>2, <2>1, DiffTypes, LinkWork
  <2> QED BY <1>3, <2>1, <2>2
<1>6. ASSUME NEW x \in left, ChangeLink(x) \/ CreateLink(x)
      PROVE  LinkInv'
  <2>1. /\ x \in System(job).symlinks.change \cup System(job).symlinks.create
        /\ phase \in {"change", "create"}
        /\ \E v : manifest' = [manifest EXCEPT ![x[1]] = v]
    BY <1>6 DEF ChangeLink, CreateLink, LeftInv
  <2>2. /\ x[1] \in Path /\ DesiredLink(From(job), x[1]) # DesiredLink(To(job), x[1])
        /\ DesiredLink(From(job), x[1]) # Absent \/ DesiredLink(To(job), x[1]) # Absent
    BY <1>2, <2>1, DiffTypes, LinkWork
  <2> QED BY <1>3, <2>1, <2>2
<1>7. ASSUME NEW x \in left, Reconcile(x) \/ Disable(x) \/ Enable(x)
      PROVE  LinkInv'
  BY <1>4, <1>7 DEF Reconcile, Disable, Enable
<1>8. CASE RunCommand
  BY <1>4, <1>8 DEF RunCommand, diskVars
<1> QED BY <1>5, <1>6, <1>7, <1>8 DEF ActivateStep

(* When an apply ends, its tree is no longer an excuse: the links that it  *)
(* excused were in the diff, and their phases are over.                    *)
LEMMA LinkStep ==
    ASSUME ShapeInv, RefInv, CheckoutInv, LinksDone, LinkInv, [Next]_vars
    PROVE  LinkInv'
<1> USE DEF ShapeInv
<1> DEFINE Wanted(p) == DesiredLink(Tree(current), p)
           Fine(p) == \/ manifest[p] = Wanted(p)
                      \/ drifted /\ Wanted(p) # Absent
                      \/ \E t \in tried : DesiredLink(t, p) # Wanted(p)
<1>1. ASSUME Tree(current)' = Tree(current)
      PROVE  \A t, p : DesiredLink(t, p)' = DesiredLink(t, p) /\ Wanted(p)' = Wanted(p)
  BY <1>1 DEF DesiredLink
<1>2. ASSUME Tree(current)' = Tree(current), UNCHANGED manifest, tried \subseteq tried',
             drifted => drifted'
      PROVE  LinkInv'
  BY <1>1, <1>2 DEF LinkInv
<1>3. UNCHANGED <<commits, current>> => Tree(current)' = Tree(current)
  BY DEF Tree
<1>4. ASSUME NEW t \in Configs, Deploy(t)
      PROVE  LinkInv'
  <2>1. Tree(current)' = Tree(current)
    BY <1>4, OldTrees DEF Deploy, Begin, TypeOK, Tree
  <2> QED BY <1>2, <1>4, <2>1 DEF Deploy, Begin, diskVars
<1>5. CASE Reapply
  BY <1>2, <1>3, <1>5 DEF Reapply, Begin, diskVars
<1>6. CASE Proceed \/ Fails
  <2>1. UNCHANGED <<commits, current, manifest>> /\ Tree(current)' = Tree(current)
    BY <1>3, <1>6, Ends DEF refVars, diskVars
  <2>2. CASE UNCHANGED <<tried, drifted>>
    BY <1>2, <2>1, <2>2
  <2>3. CASE /\ tried' = tried \ {Tree(job.goal)} /\ drifted' = (drifted /\ job.mode = "deploy")
             /\ Busy /\ Recorded
    <3>1. SUFFICES ASSUME NEW p \in Path
                   PROVE  \/ manifest[p] = Wanted(p)
                          \/ drifted' /\ Wanted(p) # Absent
                          \/ \E t \in tried' : DesiredLink(t, p) # Wanted(p)
      BY <1>1, <2>1 DEF LinkInv
    <3>2. Fine(p)
      BY DEF LinkInv
    <3>3. DesiredLink(From(job), p) # Wanted(p) => manifest[p] = Wanted(p)
      BY <2>3, AtEnd, LinksLand, PhaseNumbers DEF Past, Recorded
    <3>4. job.mode = "deploy" => drifted' = drifted
      BY <2>3 DEF TypeOK
    <3>5. CASE job.mode = "reapply"
      <4>1. DesiredLink(From(job), p) = Absent
        <5>1. NoApps \in Trees /\ DOMAIN NoApps = {}
          BY DEF Trees, NoApps, NoEntries
        <5> QED BY <2>3, <3>5, <5>1, AtEnd, Desired
      <4>2. Tree(current) = Tree(job.goal)
        BY <2>3, <3>5, AtEnd
      <4>3. \A t \in tried : DesiredLink(t, p) # Wanted(p) => t \in tried'
        BY <2>3, <4>2
      <4> QED BY <3>2, <3>3, <4>1, <4>3
    <3>6. CASE job.mode = "deploy" /\ Tree(current) = Tree(job.goal)
      <4>1. \A t \in tried : DesiredLink(t, p) # Wanted(p) => t \in tried'
        BY <2>3, <3>6
      <4> QED BY <3>2, <3>4, <3>6, <4>1
    <3>7. CASE job.mode = "deploy" /\ From(job) = Tree(job.goal)
      <4>1. CASE DesiredLink(Tree(job.goal), p) # Wanted(p)
        BY <3>3, <3>7, <4>1
      <4>2. CASE DesiredLink(Tree(job.goal), p) = Wanted(p)
        <5>1. \A t \in tried : DesiredLink(t, p) # Wanted(p) => t \in tried'
          BY <2>3, <4>2
        <5> QED BY <3>2, <3>4, <3>7, <5>1
      <4> QED BY <4>1, <4>2
    <3> QED BY <2>3, <3>5, <3>6, <3>7, AtEnd DEF TypeOK, Mode
  <2> QED BY <1>6, <2>2, <2>3, Ends
<1>7. CASE CheckoutStep
  BY <1>2, <1>3, <1>7, CheckoutSteps DEF refVars
<1>8. CASE ActivateStep
  BY <1>8, LinkActivate
<1>9. CASE Record
  <2>1. /\ UNCHANGED <<commits, manifest, tried, drifted>> /\ phase = "record" /\ left # {}
        /\ current' = IF job.rollback THEN current ELSE job.goal
    BY <1>9 DEF Record, Did, diskVars
  <2>2. Busy /\ ~Recorded /\ current = job.base
    BY <2>1 DEF Busy, Recorded, RefInv
  <2>3. CASE current' = current
    BY <1>2, <1>3, <2>1, <2>3
  <2>4. CASE current' # current
    <3>1. /\ job.mode = "deploy" /\ current' = job.goal
          /\ From(job) = Tree(current) /\ To(job) = Tree(job.goal)
      BY <2>1, <2>2, <2>4, AtWork DEF JobInv, TypeOK, Mode
    <3>2. Tree(current)' = Tree(job.goal)
      BY <2>1, <3>1 DEF Tree
    <3>3. SUFFICES ASSUME NEW p \in Path
                   PROVE  \/ manifest[p] = DesiredLink(Tree(job.goal), p)
                          \/ drifted /\ DesiredLink(Tree(job.goal), p) # Absent
                          \/ \E t \in tried : DesiredLink(t, p) # DesiredLink(Tree(job.goal), p)
      <4>1. \A u, q : DesiredLink(u, q)' = DesiredLink(u, q)
        BY DEF DesiredLink
      <4>2. \A q : Wanted(q)' = DesiredLink(Tree(job.goal), q)
        BY <3>2 DEF DesiredLink
      <4> QED BY <2>1, <4>1, <4>2 DEF LinkInv
    <3>4. CASE Wanted(p) # DesiredLink(Tree(job.goal), p)
      BY <2>1, <3>1, <3>4, LinksLand, PhaseNumbers DEF Past, Busy
    <3>5. CASE Wanted(p) = DesiredLink(Tree(job.goal), p)
      BY <3>5 DEF LinkInv
    <3> QED BY <3>4, <3>5
  <2> QED BY <2>3, <2>4
<1>10. CASE (\E a \in App : Gc(a)) \/ Crash
  BY <1>2, <1>3, <1>10 DEF Gc, Crash, Did, refVars, diskVars
<1>11. CASE Drift
  <2>1. /\ UNCHANGED <<commits, current, tried>> /\ drifted' /\ Tree(current)' = Tree(current)
        /\ \A p \in Path : manifest'[p] = manifest[p] \/ manifest[p] \in Links
    <3>1. UNCHANGED <<commits, current, tried>> /\ drifted'
      BY <1>11 DEF Drift, refVars
    <3>2. manifest = [p \in Path |-> manifest[p]]
      BY DEF TypeOK, DiskTypeOK
    <3>3. \A p \in Path : manifest'[p] = manifest[p] \/ manifest[p] \in Links
      BY <1>11, <3>2 DEF Drift
    <3> QED BY <1>3, <3>1, <3>3
  <2>2. Absent \notin Links
    BY DEF Links, Absent
  <2> QED BY <1>1, <2>1, <2>2 DEF LinkInv
<1>12. CASE UNCHANGED vars
  BY <1>2, <1>3, <1>12 DEF vars, refVars, diskVars
<1> QED BY <1>4, <1>5, <1>6, <1>7, <1>8, <1>9, <1>10, <1>11, <1>12 DEF Next
-----------------------------------------------------------------------------
(* Every app enables only units that it provides.  The agent does not      *)
(* check it.                                                               *)
OwnUnits == \A t \in Configs : \A a \in DOMAIN t : t[a].enabled \subseteq DOMAIN t[a].dirs["systemd"]

(* A tree enables unit n.                                                  *)
Claimed(n, tree) == \E a \in DOMAIN tree : n \in tree[a].enabled

(* Unit n is enabled as the tree has it.                                   *)
UnitOK(n, tree) ==
    IF Claimed(n, tree)
    THEN \E a \in DOMAIN tree : n \in tree[a].enabled /\ enabled[n] = <<a, link[a].current>>
    ELSE enabled[n] = <<>>

(* An apply between the trees disables, enables or restarts unit n.        *)
Moves(t, u, n) ==
    \E a \in DOMAIN DiffApps(t, u) : n \in AppTree(t, a).enabled \cup AppTree(u, a).enabled

(* Which units an app enables, whether it is deployed or not.              *)
LEMMA AppTrees ==
    ASSUME NEW t, NEW a, NEW n
    PROVE  n \in AppTree(t, a).enabled <=> a \in DOMAIN t /\ n \in t[a].enabled
  BY DEF AppTree, EmptyTree

(* Whether an app that enables the unit differs between two trees.         *)
LEMMA Moving ==
    ASSUME NEW t, NEW u, NEW n
    PROVE  /\ ~Moves(t, t, n)
           /\ Moves(t, u, n) <=> Moves(u, t, n)
           /\ Moves(NoApps, t, n) <=> Claimed(n, t)
           /\ ~Moves(t, u, n) => /\ Claimed(n, t) <=> Claimed(n, u)
                                 /\ UnitOK(n, t) => UnitOK(n, u)
                                 /\ \A v : Moves(t, v, n) => Moves(u, v, n)
<1>1. ~Moves(t, t, n)
  BY DEF Moves, DiffApps
<1>2. \A a : a \in DOMAIN DiffApps(t, u) <=> a \in DOMAIN DiffApps(u, t)
  BY DEF DiffApps
<1>3. Moves(t, u, n) <=> Moves(u, t, n)
  BY <1>2 DEF Moves
<1>4. Moves(NoApps, t, n) <=> Claimed(n, t)
  <2>1. \A a : a \in DOMAIN DiffApps(NoApps, t) <=> a \in DOMAIN t
    BY Differing DEF Differ
  <2>2. \A a : a \notin DOMAIN NoApps
    BY DEF NoApps, NoEntries
  <2> QED BY <2>1, <2>2, AppTrees DEF Moves, Claimed
<1>5. ASSUME ~Moves(t, u, n), NEW a
      PROVE  a \in DOMAIN t /\ n \in t[a].enabled <=> a \in DOMAIN u /\ n \in u[a].enabled
  BY <1>5, AppTrees DEF Moves, DiffApps
<1>6. ~Moves(t, u, n) => (Claimed(n, t) <=> Claimed(n, u)) /\ (UnitOK(n, t) => UnitOK(n, u))
  BY <1>5 DEF Claimed, UnitOK
<1>7. ASSUME ~Moves(t, u, n), NEW v, Moves(t, v, n)
      PROVE  Moves(u, v, n)
  <2>1. PICK a \in DOMAIN DiffApps(t, v) : n \in AppTree(t, a).enabled \cup AppTree(v, a).enabled
    BY <1>7 DEF Moves
  <2>2. CASE a \in DOMAIN DiffApps(t, u)
    <3>1. n \notin AppTree(t, a).enabled /\ n \notin AppTree(u, a).enabled
      BY <1>7, <2>2 DEF Moves
    <3>2. a \in DOMAIN v /\ n \in v[a].enabled
      BY <2>1, <3>1, AppTrees
    <3>3. a \in DOMAIN DiffApps(u, v)
      BY <3>1, <3>2, AppTrees DEF DiffApps
    <3> QED BY <2>1, <3>1, <3>3 DEF Moves
  <2>3. CASE a \notin DOMAIN DiffApps(t, u)
    <3>1. /\ a \in DOMAIN t <=> a \in DOMAIN u
          /\ a \in DOMAIN t => t[a] = u[a]
          /\ a \in DOMAIN DiffApps(u, v)
      BY <2>1, <2>3, Differing DEF Differ
    <3> QED BY <2>1, <3>1 DEF Moves, AppTree
  <2> QED BY <2>2, <2>3
<1> QED BY <1>1, <1>3, <1>4, <1>6, <1>7

(* With OwnUnits, one app of a tree enables a unit at most, and the        *)
(* managed link of the unit is that app's.                                 *)
LEMMA OneEnabler ==
    ASSUME OwnUnits, NEW t \in Trees, NEW a \in DOMAIN t, NEW n, n \in t[a].enabled
    PROVE  /\ n \in DOMAIN t[a].dirs["systemd"]
           /\ Owner(t, "systemd", n) = a /\ a # 0
           /\ \A b \in DOMAIN t : n \in t[b].enabled => b = a
<1>1. t \in Configs
  BY DEF Trees, NoApps, NoEntries
<1>2. \A b \in DOMAIN t : n \in t[b].enabled => n \in DOMAIN t[b].dirs["systemd"]
  BY <1>1 DEF OwnUnits
<1>3. \A b \in DOMAIN t : n \in DOMAIN t[b].dirs["systemd"] => b = a
  <2>1. "systemd" \in Subdir
    BY DEF Subdir
  <2> QED BY <1>1, <1>2, <2>1, ConfigsAssumption DEF Valid
<1>4. {b \in DOMAIN t : n \in DOMAIN t[b].dirs["systemd"]} = {a}
  BY <1>2, <1>3
<1>5. a \in Nat /\ a # 0
  BY <1>1, Paths, ConfigsAssumption
<1>6. a >= a
  BY <1>5
<1>7. Max({a}) = a
  BY <1>6 DEF Max
<1>8. Owner(t, "systemd", n) = a
  BY <1>4, <1>7 DEF Owner
<1> QED BY <1>2, <1>3, <1>5, <1>8

(* What the phases for units work on.                                      *)
LEMMA UnitWork ==
    ASSUME ShapeInv
    PROVE  /\ \A n : n \in Touched(System(job)) <=>
                        \E a \in Visits : a \in DOMAIN To(job) /\ n \in To(job)[a].enabled
           /\ \A n : n \in System(job).units.disable <=>
                        \E a \in Visits : /\ a \in DOMAIN From(job) /\ n \in From(job)[a].enabled
                                          /\ ~(a \in DOMAIN To(job) /\ n \in To(job)[a].enabled)
           /\ \A n : n \in Touched(System(job)) \cup System(job).units.disable =>
                        n \in Unit /\ Moves(From(job), To(job), n)
<1>1. From(job) \in Trees /\ To(job) \in Trees
  BY JobTrees DEF ShapeInv
<1>2. Touched(System(job)) \cup System(job).units.disable \subseteq Unit
  BY <1>1, DiffTypes DEF Touched, System
<1>3. \A n : n \in Touched(System(job)) <=> \E a \in Visits : n \in AppTree(To(job), a).enabled
  BY DiffMembers DEF Touched, System, Visits
<1>4. \A n : n \in System(job).units.disable <=>
                \E a \in Visits : n \in AppTree(From(job), a).enabled \ AppTree(To(job), a).enabled
  BY DiffMembers DEF System, Visits
<1>5. \A n : n \in Touched(System(job)) \cup System(job).units.disable =>
                Moves(From(job), To(job), n)
  BY <1>3, <1>4 DEF Moves, Visits
<1> QED BY <1>2, <1>3, <1>4, <1>5, AppTrees

(* The phases for units leave what they have done behind.                  *)
UnitsDone ==
    /\ \A n \in System(job).units.disable \ Touched(System(job)) :
          Past(10) \/ (phase = "disable" /\ n \notin left) => enabled[n] = <<>>
    /\ \A a \in Visits \cap DOMAIN To(job) : \A n \in To(job)[a].enabled :
          Past(12) \/ (phase = "enable" /\ n \notin left) => enabled[n] = <<a, ToCommit(job)>>

(* The units whose phases are over are as the diff says; the checkout and  *)
(* the reconcile came first, so that they resolve to the new version.      *)
LEMMA UnitsEnter ==
    ASSUME ShapeInv, NEW i \in 1 .. 16, NEW j, Enter(j, i),
           UNCHANGED <<refVars, diskVars>>, i > 1 => j = job,
           i > 10 => \A n \in System(job).units.disable \ Touched(System(job)) : enabled[n] = <<>>,
           i > 12 => \A a \in Visits \cap DOMAIN To(job) : \A n \in To(job)[a].enabled :
                         enabled[n] = <<a, ToCommit(job)>>
    PROVE  UnitsDone'
<1>1. /\ enabled' = enabled /\ job' = j
      /\ System(job)' = System(j) /\ Touched(System(job))' = Touched(System(j))
      /\ To(job)' = To(j) /\ ToCommit(job)' = ToCommit(j)
  <2>1. enabled' = enabled /\ job' = j /\ commits' = commits
    BY DEF Enter, refVars, diskVars
  <2>2. System(job)' = System(j) /\ To(job)' = To(j) /\ ToCommit(job)' = ToCommit(j)
    BY <2>1, SameTrees
  <2> QED BY <2>1, <2>2 DEF Touched
<1>2. i > 1 => Visits' = Visits
  BY <1>1, SameTrees DEF Visits, Enter, refVars
<1>3. CASE phase' = "idle"
  BY <1>3 DEF UnitsDone, Past, Busy
<1>4. ASSUME NEW k \in i .. 15, phase' = Phases[k], left' = Work(j, System(j), Phases[k]),
             \A m \in i .. k - 1 : Work(j, System(j), Phases[m]) = {}
      PROVE  UnitsDone'
  <2>1. Number(phase)' = k
    BY <1>4, PhaseNumbers
  <2>2. ASSUME NEW m \in {10, 12}, k > m, ~(i > m)
        PROVE  Work(j, System(j), Phases[m]) = {}
    <3>1. m \in i .. k - 1
      BY <2>2
    <3> QED BY <1>4, <3>1
  <2>3. /\ Phases[10] = "disable" /\ Phases[12] = "enable"
        /\ Work(j, System(j), "disable") = System(j).units.disable
        /\ Work(j, System(j), "enable") = Touched(System(j))
    BY PhaseAt, WorkOf
  <2>4. ASSUME NEW n \in (System(job).units.disable \ Touched(System(job)))',
               Past(10)' \/ (phase' = "disable" /\ n \notin left')
        PROVE  enabled'[n] = <<>>
    <3>1. n \in System(j).units.disable \ Touched(System(j))
      BY <1>1
    <3>2. k > 10
      BY <1>4, <2>1, <2>3, <2>4, <3>1 DEF Past
    <3>3. i > 10
      BY <2>2, <2>3, <3>1, <3>2
    <3>4. n \in System(job).units.disable \ Touched(System(job))
      BY <3>1, <3>3
    <3> QED BY <1>1, <3>3, <3>4
  <2>5. ASSUME NEW a \in Visits' \cap DOMAIN To(job)', NEW n \in To(job)'[a].enabled,
               Past(12)' \/ (phase' = "enable" /\ n \notin left')
        PROVE  enabled'[n] = <<a, ToCommit(job)'>>
    <3>1. n \in Touched(System(j))
      <4>1. Visits' = DOMAIN DiffApps(From(j), To(j))
        BY <1>1, SameTrees DEF Enter, refVars
      <4>2. n \in AppTree(To(j), a).enabled
        BY <1>1, AppTrees
      <4> QED BY <4>1, <4>2, DiffMembers DEF Touched, System
    <3>2. k > 12
      BY <1>4, <2>1, <2>3, <2>5, <3>1 DEF Past
    <3>3. i > 12
      BY <2>2, <2>3, <3>1, <3>2
    <3>4. a \in Visits \cap DOMAIN To(job) /\ n \in To(job)[a].enabled /\ ToCommit(job)' = ToCommit(job)
      BY <1>1, <1>2, <2>5, <3>3
    <3> QED BY <1>1, <3>3, <3>4
  <2> QED BY <2>4, <2>5 DEF UnitsDone
<1> QED BY <1>3, <1>4, EnterSteps

(* When units are enabled, a unit of a visited app resolves to what the    *)
(* checkout has made of it.                                                *)
LEMMA Resolution ==
    ASSUME OwnUnits, ShapeInv, ManagedInv, CheckoutInv, phase = "enable",
           NEW a \in Visits \cap DOMAIN To(job), NEW n \in To(job)[a].enabled
    PROVE  Resolved(n) = <<a, ToCommit(job)>>
<1> USE DEF ShapeInv
<1>1. /\ To(job) \in Trees /\ To(job) \in Configs /\ To(job) = Tree(ToCommit(job))
      /\ ToCommit(job) \in 1 .. MaxCommits /\ a \in App
  BY JobTrees, VisitsAreApps DEF Trees, NoApps, NoEntries
<1>2. n \in DOMAIN To(job)[a].dirs["systemd"] /\ Owner(To(job), "systemd", n) = a /\ a # 0
  BY <1>1, OneEnabler
<1>3. "systemd" \in Subdir
  BY DEF Subdir
<1>4. n \in Name
  BY <1>1, <1>2, <1>3, Paths
<1>5. managed["systemd"][n] = a
  <2>1. Past(Number("systemd"))
    BY PhaseNumbers DEF Past, Busy
  <2> QED BY <1>2, <1>3, <1>4, <2>1 DEF ManagedInv
<1>6. link[a].current = ToCommit(job) /\ version[a][ToCommit(job)] # "none"
  <2>1. Landed(a)
    BY PhaseNumbers DEF CheckoutInv, Visited, Past, Busy
  <2>2. link[a].current = ToCommit(job)
    BY <2>1 DEF Landed
  <2> QED BY <1>1, <2>2 DEF CheckoutInv, Dirs
<1>7. ToCommit(job) # 0
  BY <1>1
<1> QED BY <1>1, <1>2, <1>4, <1>5, <1>6, <1>7 DEF Resolved

LEMMA UnitsActivate ==
    ASSUME OwnUnits, ShapeInv, ManagedInv, CheckoutInv, UnitsDone, ActivateStep
    PROVE  UnitsDone'
<1> USE DEF ShapeInv
<1>1. UNCHANGED <<commits, job, phase>> /\ Busy
  BY ActivateSteps DEF refVars, Busy
<1>2. /\ System(job)' = System(job) /\ Touched(System(job))' = Touched(System(job))
      /\ To(job)' = To(job) /\ ToCommit(job)' = ToCommit(job) /\ Visits' = Visits
      /\ \A n : Past(n)' <=> Past(n)
  BY <1>1, SameTrees DEF Past, Busy, Touched, Visits
<1>3. /\ \A n \in System(job).units.disable \cup Touched(System(job)) : n \in Unit
      /\ \A a \in Visits \cap DOMAIN To(job) : \A n \in To(job)[a].enabled :
            n \in Touched(System(job))
  BY UnitWork
<1>4. enabled = [u \in Unit |-> enabled[u]]
  BY DEF TypeOK, DiskTypeOK
<1>5. ASSUME UNCHANGED enabled, phase \notin {"disable", "enable"}
      PROVE  UnitsDone'
  BY <1>1, <1>2, <1>5 DEF UnitsDone
<1>6. ASSUME NEW x \in left, RemoveLink(x) \/ ChangeLink(x) \/ CreateLink(x) \/ Reconcile(x)
      PROVE  UnitsDone'
  BY <1>5, <1>6 DEF RemoveLink, ChangeLink, CreateLink, Reconcile, Subdir
<1>7. CASE RunCommand
  BY <1>5, <1>7 DEF RunCommand, diskVars
<1>8. ASSUME NEW u \in left, Disable(u)
      PROVE  UnitsDone'
  <2>1. /\ phase = "disable" /\ left' = left \ {u} /\ enabled' = [enabled EXCEPT ![u] = <<>>]
        /\ u \in System(job).units.disable
    BY <1>8 DEF Disable, Did, LeftInv
  <2>2. \A n \in Unit : enabled'[n] = IF n = u THEN <<>> ELSE enabled[n]
    BY <1>4, <2>1
  <2>3. ~Past(12) /\ phase # "enable"
    BY <2>1, PhaseNumbers DEF Past
  <2>4. ASSUME NEW n \in System(job).units.disable \ Touched(System(job)),
               Past(10) \/ n \notin left'
        PROVE  enabled'[n] = <<>>
    BY <1>3, <2>1, <2>2, <2>4 DEF UnitsDone
  <2> QED BY <1>1, <1>2, <2>1, <2>3, <2>4 DEF UnitsDone
<1>9. ASSUME NEW u \in left, Enable(u)
      PROVE  UnitsDone'
  <2>1. /\ phase = "enable" /\ left' = left \ {u} /\ u \in Touched(System(job))
        /\ \/ Resolved(u) # <<>> /\ enabled' = [enabled EXCEPT ![u] = Resolved(u)]
           \/ Resolved(u) = <<>> /\ UNCHANGED enabled
    BY <1>9 DEF Enable, Did, LeftInv
  <2>2. \A n \in Unit : /\ n # u => enabled'[n] = enabled[n]
                        /\ n = u /\ Resolved(u) # <<>> => enabled'[n] = Resolved(u)
    BY <1>4, <2>1
  <2>3. ~Past(12) /\ Past(10)
    BY <1>1, <2>1, PhaseNumbers DEF Past
  <2>4. \A n \in System(job).units.disable \ Touched(System(job)) : enabled'[n] = <<>>
    BY <1>3, <2>1, <2>2, <2>3 DEF UnitsDone
  <2>5. ASSUME NEW a \in Visits \cap DOMAIN To(job), NEW n \in To(job)[a].enabled, n \notin left'
        PROVE  enabled'[n] = <<a, ToCommit(job)>>
    <3>1. CASE n = u
      <4>1. Resolved(u) = <<a, ToCommit(job)>>
        BY <2>1, <2>5, <3>1, Resolution
      <4> QED BY <1>3, <2>2, <3>1, <4>1
    <3>2. CASE n # u
      BY <1>3, <2>1, <2>2, <2>5, <3>2 DEF UnitsDone
    <3> QED BY <3>1, <3>2
  <2> QED BY <1>1, <1>2, <2>1, <2>3, <2>4, <2>5 DEF UnitsDone
<1> QED BY <1>6, <1>7, <1>8, <1>9 DEF ActivateStep

LEMMA UnitsStep ==
    ASSUME OwnUnits, ShapeInv, ManagedInv, CheckoutInv, UnitsDone, [Next]_vars
    PROVE  UnitsDone'
<1>1. ASSUME phase' \in {"idle", "prepared"}
      PROVE  UnitsDone'
  BY <1>1, PhaseNumbers DEF UnitsDone, Past, Busy
<1>2. ASSUME UNCHANGED <<commits, job, phase, enabled>>, phase \in {"disable", "enable"} => left' = left
      PROVE  UnitsDone'
  <2>1. /\ System(job)' = System(job) /\ Touched(System(job))' = Touched(System(job))
        /\ To(job)' = To(job) /\ ToCommit(job)' = ToCommit(job) /\ Visits' = Visits
        /\ \A n : Past(n)' <=> Past(n)
    BY <1>2, SameTrees DEF Past, Busy, Touched, Visits
  <2> QED BY <1>2, <2>1 DEF UnitsDone
<1>3. CASE Proceed
  <2>1. Number(phase) + 1 \in 1 .. 16 /\ Number(phase) \in 0 .. 15 /\ Busy /\ left = {}
    BY <1>3, PhaseNames, PhaseNumbers DEF Proceed, Busy, ShapeInv
  <2>2. /\ Number(phase) + 1 > 10 => Past(10) \/ phase = "disable"
        /\ Number(phase) + 1 > 12 => Past(12) \/ phase = "enable"
    BY <1>3, <2>1, PhaseNames, PhaseNumbers DEF Proceed, Past, ShapeInv
  <2> QED BY <1>3, <2>1, <2>2, UnitsEnter DEF Proceed, UnitsDone
<1>4. CASE Fails
  <2>1. CASE RollsBack
    BY <1>4, <2>1, UnitsEnter DEF Fails
  <2>2. CASE ~RollsBack
    BY <1>1, <1>4, <2>2 DEF Fails
  <2> QED BY <2>1, <2>2
<1>5. CASE CheckoutStep
  BY <1>2, <1>5, CheckoutSteps DEF Visit, refVars
<1>6. CASE ActivateStep
  BY <1>6, UnitsActivate
<1>7. CASE Record \/ \E a \in App : Gc(a)
  BY <1>2, <1>7 DEF Record, Gc, Did, refVars, diskVars
<1>8. CASE UNCHANGED vars
  BY <1>2, <1>8 DEF vars, refVars, diskVars, jobVars
<1> QED BY <1>1, <1>3, <1>4, <1>5, <1>6, <1>7, <1>8
        DEF Next, Deploy, Reapply, Begin, Crash, Drift

(* The phases have enabled and disabled the units that the apply moves as  *)
(* the tree it goes to has them.                                           *)
LEMMA UnitsLand ==
    ASSUME OwnUnits, ShapeInv, UnitsDone, Past(12), \A a \in Visits : Landed(a),
           NEW n, Moves(From(job), To(job), n)
    PROVE  UnitOK(n, To(job))
<1>1. Past(10) /\ From(job) \in Trees
  <2>1. Number(phase) \in 0 .. 15
    BY PhaseNames, PhaseNumbers DEF Past, Busy, ShapeInv
  <2> QED BY <2>1, JobTrees DEF Past, ShapeInv
<1>2. CASE \E b \in Visits : b \in DOMAIN To(job) /\ n \in To(job)[b].enabled
  <2>1. PICK b \in Visits : b \in DOMAIN To(job) /\ n \in To(job)[b].enabled
    BY <1>2
  <2>2. enabled[n] = <<b, link[b].current>>
    BY <2>1 DEF UnitsDone, Landed
  <2> QED BY <2>1, <2>2 DEF UnitOK, Claimed
<1>3. CASE \A b \in Visits : ~(b \in DOMAIN To(job) /\ n \in To(job)[b].enabled)
  <2>1. PICK a \in Visits : a \in DOMAIN From(job) /\ n \in From(job)[a].enabled
    BY <1>3, AppTrees DEF Moves, Visits
  <2>2. enabled[n] = <<>>
    BY <1>1, <1>3, <2>1, UnitWork DEF UnitsDone
  <2>3. ~Claimed(n, To(job))
    <3>1. SUFFICES ASSUME NEW b \in DOMAIN To(job), n \in To(job)[b].enabled
                   PROVE  FALSE
      BY DEF Claimed
    <3>2. b \notin Visits
      BY <1>3, <3>1
    <3>3. b \in DOMAIN From(job) /\ n \in From(job)[b].enabled
      BY <3>1, <3>2, Differing DEF Visits, Differ
    <3> QED BY <1>1, <2>1, <3>2, <3>3, OneEnabler
  <2> QED BY <2>2, <2>3 DEF UnitOK
<1> QED BY <1>2, <1>3
-----------------------------------------------------------------------------
(* A unit that is not as the current tree has it, someone changed, or an   *)
(* attempt that moves it was left half done.                               *)
UnitInv ==
    \A n \in Unit : \/ UnitOK(n, Tree(current))
                    \/ drifted /\ Claimed(n, Tree(current))
                    \/ \E t \in tried : Moves(Tree(current), t, n)

(* While an apply works, the units it moves are excused.                   *)
LEMMA UnitExcused ==
    ASSUME ShapeInv, RefInv, Busy, ~Recorded, NEW n, Moves(From(job), To(job), n)
    PROVE  \/ drifted /\ Claimed(n, Tree(current))
           \/ \E t \in tried : Moves(Tree(current), t, n)
  BY AtWork, Moving

(* When an apply ends, its tree is no longer an excuse: the units that it  *)
(* excused were in the diff, and their phases are over.                    *)
LEMMA UnitStep ==
    ASSUME OwnUnits, ShapeInv, RefInv, CheckoutInv, UnitsDone, UnitInv, [Next]_vars
    PROVE  UnitInv'
<1> USE DEF ShapeInv
<1> DEFINE Fine(n) == \/ UnitOK(n, Tree(current))
                      \/ drifted /\ Claimed(n, Tree(current))
                      \/ \E t \in tried : Moves(Tree(current), t, n)
<1>1. \A t, u, n : Claimed(n, t)' = Claimed(n, t) /\ Moves(t, u, n)' = Moves(t, u, n)
  BY DEF Claimed, Moves
<1>2. UNCHANGED <<commits, current>> => Tree(current)' = Tree(current)
  BY DEF Tree
<1>3. ASSUME Tree(current)' = Tree(current), UNCHANGED <<link, enabled>>, tried \subseteq tried',
             drifted => drifted'
      PROVE  UnitInv'
  <2>1. \A n : UnitOK(n, Tree(current))' <=> UnitOK(n, Tree(current))
    BY <1>3 DEF UnitOK, Claimed
  <2>2. \A n : Claimed(n, Tree(current))' <=> Claimed(n, Tree(current))
    BY <1>3 DEF Claimed
  <2>3. \A n, t : Moves(Tree(current), t, n)' <=> Moves(Tree(current), t, n)
    BY <1>3 DEF Moves
  <2> QED BY <1>3, <2>1, <2>2, <2>3 DEF UnitInv
<1> DEFINE Stays(n) == UnitOK(n, Tree(current)) => UnitOK(n, Tree(current))'
<1>4. ASSUME Busy, ~Recorded, UNCHANGED <<commits, current, tried>>, drifted => drifted',
             \A n \in Unit : Moves(From(job), To(job), n) \/ Stays(n)
      PROVE  UnitInv'
  <2>1. \A n : Claimed(n, Tree(current))' <=> Claimed(n, Tree(current))
    BY <1>2, <1>4 DEF Claimed
  <2>2. \A n, t : Moves(Tree(current), t, n)' <=> Moves(Tree(current), t, n)
    BY <1>2, <1>4 DEF Moves
  <2>3. \A n : Moves(From(job), To(job), n) => \/ drifted /\ Claimed(n, Tree(current))
                                               \/ \E t \in tried : Moves(Tree(current), t, n)
    BY <1>4, UnitExcused
  <2> QED BY <1>4, <2>1, <2>2, <2>3 DEF UnitInv
<1>5. ASSUME NEW t \in Configs, Deploy(t)
      PROVE  UnitInv'
  <2>1. Tree(current)' = Tree(current)
    BY <1>5, OldTrees DEF Deploy, Begin, TypeOK, Tree
  <2> QED BY <1>3, <1>5, <2>1 DEF Deploy, Begin, diskVars
<1>6. CASE Reapply
  BY <1>2, <1>3, <1>6 DEF Reapply, Begin, diskVars
<1>7. CASE Proceed \/ Fails
  <2>1. UNCHANGED <<commits, current, link, enabled>> /\ Tree(current)' = Tree(current)
    BY <1>2, <1>7, Ends DEF refVars, diskVars
  <2>2. CASE UNCHANGED <<tried, drifted>>
    BY <1>3, <2>1, <2>2
  <2>3. CASE /\ tried' = tried \ {Tree(job.goal)} /\ drifted' = (drifted /\ job.mode = "deploy")
             /\ Busy /\ Recorded
    <3>1. SUFFICES ASSUME NEW n \in Unit
                   PROVE  \/ UnitOK(n, Tree(current))
                          \/ drifted' /\ Claimed(n, Tree(current))
                          \/ \E t \in tried' : Moves(Tree(current), t, n)
      <4>1. \A n : UnitOK(n, Tree(current))' <=> UnitOK(n, Tree(current))
        BY <2>1 DEF UnitOK, Claimed
      <4>2. \A n : Claimed(n, Tree(current))' <=> Claimed(n, Tree(current))
        BY <2>1 DEF Claimed
      <4>3. \A n, t : Moves(Tree(current), t, n)' <=> Moves(Tree(current), t, n)
        BY <2>1 DEF Moves
      <4> QED BY <4>1, <4>2, <4>3 DEF UnitInv
    <3>2. Fine(n)
      BY DEF UnitInv
    <3>3. Moves(From(job), Tree(current), n) => UnitOK(n, Tree(current))
      <4>1. Past(12) /\ Tree(current) = To(job) /\ \A a \in Visits : Landed(a)
        BY <2>3, AtEnd, PhaseNumbers DEF Past, Recorded
      <4> QED BY <4>1, UnitsLand
    <3>4. job.mode = "deploy" => drifted' = drifted
      BY <2>3 DEF TypeOK
    <3>5. CASE job.mode = "reapply"
      <4>1. From(job) = NoApps /\ Tree(current) = Tree(job.goal)
        BY <2>3, <3>5, AtEnd
      <4>2. \A t \in tried : Moves(Tree(current), t, n) => t \in tried'
        BY <2>3, <4>1, Moving
      <4>3. Claimed(n, Tree(current)) => UnitOK(n, Tree(current))
        BY <3>3, <4>1, Moving
      <4> QED BY <3>2, <4>2, <4>3
    <3>6. CASE job.mode = "deploy" /\ Tree(current) = Tree(job.goal)
      <4>1. \A t \in tried : Moves(Tree(current), t, n) => t \in tried'
        BY <2>3, <3>6, Moving
      <4> QED BY <3>2, <3>4, <3>6, <4>1
    <3>7. CASE job.mode = "deploy" /\ From(job) = Tree(job.goal)
      <4>1. CASE Moves(Tree(job.goal), Tree(current), n)
        BY <3>3, <3>7, <4>1
      <4>2. CASE ~Moves(Tree(job.goal), Tree(current), n)
        <5>1. \A t \in tried : Moves(Tree(current), t, n) => t \in tried'
          BY <2>3, <4>2, Moving
        <5> QED BY <3>2, <3>4, <3>7, <5>1
      <4> QED BY <4>1, <4>2
    <3> QED BY <2>3, <3>5, <3>6, <3>7, AtEnd DEF TypeOK, Mode
  <2> QED BY <1>7, <2>2, <2>3, Ends
<1>8. CASE CheckoutStep
  <2>1. PICK a \in App :
            /\ a \in Visits
            /\ \A b \in App : b # a => link'[b] = link[b]
            /\ phase = "checkout"
    <3>1. PICK a \in App : RemoveApp(a) \/ Unpack(a) \/ Fill(a) \/ LinkNext(a) \/ Retire(a) \/ SwapIn(a)
      BY <1>8 DEF CheckoutStep
    <3>2. \A b \in App : b # a => link'[b] = link[b]
      BY <3>1 DEF RemoveApp, Unpack, Fill, LinkNext, Retire, SwapIn, TypeOK, DiskTypeOK
    <3>3. \E s : <<a, s>> \in left /\ phase = "checkout"
      BY <3>1 DEF RemoveApp, Unpack, Fill, LinkNext, Retire, SwapIn, Visit
    <3>4. a \in Visits
      BY <3>3 DEF LeftInv
    <3> QED BY <3>2, <3>3, <3>4
  <2>2. UNCHANGED <<commits, current, tried, enabled>> /\ (drifted => drifted') /\ Busy /\ ~Recorded
    BY <1>8, <2>1, CheckoutSteps DEF refVars, Busy, Recorded
  <2>3. \A n \in AppTree(Tree(current), a).enabled : Moves(From(job), To(job), n)
    <3>1. CASE From(job) = Tree(current) \/ To(job) = Tree(current)
      BY <2>1, <3>1 DEF Moves, Visits
    <3> QED BY <2>2, <3>1, AtWork
  <2>4. ASSUME NEW n, n \notin AppTree(Tree(current), a).enabled, UnitOK(n, Tree(current))
        PROVE  UnitOK(n, Tree(current))'
    <3>1. Tree(current)' = Tree(current) /\ DOMAIN Tree(current) \subseteq App
      <4>1. Tree(current) \in Trees
        BY JobTrees DEF TypeOK
      <4>2. DOMAIN Tree(current) \subseteq App
        BY <4>1, Paths DEF Trees, NoApps, NoEntries, App
      <4> QED BY <1>2, <2>2, <4>2
    <3>2. \A b \in DOMAIN Tree(current) : n \in Tree(current)[b].enabled => link'[b] = link[b]
      BY <2>1, <2>4, <3>1, AppTrees
    <3> QED BY <2>2, <2>4, <3>1, <3>2 DEF UnitOK, Claimed
  <2>5. \A n \in Unit : Moves(From(job), To(job), n) \/ Stays(n)
    BY <2>3, <2>4
  <2>6. UNCHANGED <<commits, current, tried>>
    BY <2>2
  <2> HIDE DEF Stays
  <2> QED BY <1>4, <2>2, <2>5, <2>6
<1>9. CASE ActivateStep
  <2>1. UNCHANGED <<commits, current, link, tried, drifted>> /\ Busy
    BY <1>9, ActivateSteps DEF refVars, Busy
  <2>2. enabled = [n \in Unit |-> enabled[n]]
    BY DEF TypeOK, DiskTypeOK
  <2>3. ASSUME NEW u \in left, Disable(u) \/ Enable(u)
        PROVE  UnitInv'
    <3>1. /\ phase \in {"disable", "enable"}
          /\ u \in System(job).units.disable \cup Touched(System(job))
          /\ enabled' = enabled \/ \E v : enabled' = [enabled EXCEPT ![u] = v]
      BY <2>3 DEF Disable, Enable, LeftInv
    <3>2. Moves(From(job), To(job), u) /\ ~Recorded
      BY <3>1, UnitWork DEF Recorded
    <3>3. \A n \in Unit \ {u} : enabled'[n] = enabled[n]
      BY <2>2, <3>1
    <3>4. ASSUME NEW n \in Unit \ {u}
          PROVE  UnitOK(n, Tree(current)) => UnitOK(n, Tree(current))'
      BY <1>2, <2>1, <3>3 DEF UnitOK, Claimed
    <3>5. \A n \in Unit : Moves(From(job), To(job), n) \/ Stays(n)
      BY <3>2, <3>4
    <3>6. UNCHANGED <<commits, current, tried>>
      BY <2>1
    <3> HIDE DEF Stays
    <3> QED BY <1>4, <2>1, <3>2, <3>5, <3>6
  <2>4. ASSUME UNCHANGED enabled
        PROVE  UnitInv'
    BY <1>2, <1>3, <2>1, <2>4
  <2>5. ASSUME NEW x \in left, RemoveLink(x) \/ ChangeLink(x) \/ CreateLink(x) \/ Reconcile(x)
        PROVE  UnitInv'
    BY <2>4, <2>5 DEF RemoveLink, ChangeLink, CreateLink, Reconcile
  <2>6. CASE RunCommand
    BY <2>4, <2>6 DEF RunCommand, diskVars
  <2> QED BY <1>9, <2>3, <2>5, <2>6 DEF ActivateStep
<1>10. CASE Record
  <2>1. /\ UNCHANGED <<commits, link, enabled, tried, drifted>> /\ phase = "record" /\ left # {}
        /\ current' = IF job.rollback THEN current ELSE job.goal
    BY <1>10 DEF Record, Did, diskVars
  <2>2. Busy /\ ~Recorded /\ current = job.base
    BY <2>1 DEF Busy, Recorded, RefInv
  <2>3. CASE current' = current
    BY <1>2, <1>3, <2>1, <2>3
  <2>4. CASE current' # current
    <3>1. /\ job.mode = "deploy" /\ current' = job.goal
          /\ From(job) = Tree(current) /\ To(job) = Tree(job.goal)
      BY <2>1, <2>2, <2>4, AtWork DEF JobInv, TypeOK, Mode
    <3>2. Tree(current)' = Tree(job.goal)
      BY <2>1, <3>1 DEF Tree
    <3>3. SUFFICES ASSUME NEW n \in Unit
                   PROVE  \/ UnitOK(n, Tree(job.goal))
                          \/ drifted /\ Claimed(n, Tree(job.goal))
                          \/ \E t \in tried : Moves(Tree(job.goal), t, n)
      <4>1. \A n : UnitOK(n, Tree(current))' <=> UnitOK(n, Tree(job.goal))
        BY <2>1, <3>2 DEF UnitOK, Claimed
      <4>2. \A n : Claimed(n, Tree(current))' <=> Claimed(n, Tree(job.goal))
        BY <3>2 DEF Claimed
      <4>3. \A n, t : Moves(Tree(current), t, n)' <=> Moves(Tree(job.goal), t, n)
        BY <3>2 DEF Moves
      <4> QED BY <2>1, <4>1, <4>2, <4>3 DEF UnitInv
    <3>4. CASE Moves(Tree(current), Tree(job.goal), n)
      <4>1. Past(12) /\ \A a \in Visits : Landed(a)
        BY <2>1, <2>2, PhaseNumbers DEF Past, CheckoutInv, Visited
      <4> QED BY <3>1, <3>4, <4>1, UnitsLand
    <3>5. CASE ~Moves(Tree(current), Tree(job.goal), n)
      BY <3>5, Moving DEF UnitInv
    <3> QED BY <3>4, <3>5
  <2> QED BY <2>3, <2>4
<1>11. CASE (\E a \in App : Gc(a)) \/ Crash
  BY <1>2, <1>3, <1>11 DEF Gc, Crash, Did, refVars, diskVars
<1>12. CASE Drift
  <2>1. /\ UNCHANGED <<commits, current, link, tried>> /\ drifted' /\ Tree(current)' = Tree(current)
        /\ \A n \in Unit : enabled'[n] = enabled[n] \/ enabled[n] # <<>>
    <3>1. UNCHANGED <<commits, current, link, tried>> /\ drifted'
      BY <1>12 DEF Drift, refVars
    <3>2. enabled = [n \in Unit |-> enabled[n]]
      BY DEF TypeOK, DiskTypeOK
    <3>3. \A n \in Unit : enabled'[n] = enabled[n] \/ enabled[n] # <<>>
      BY <1>12, <3>2 DEF Drift
    <3> QED BY <1>2, <3>1, <3>3
  <2>2. \A n \in Unit : UnitOK(n, Tree(current)) /\ ~Claimed(n, Tree(current)) =>
            UnitOK(n, Tree(current))'
    BY <2>1 DEF UnitOK, Claimed
  <2>3. \A n : Claimed(n, Tree(current))' <=> Claimed(n, Tree(current))
    BY <2>1 DEF Claimed
  <2>4. \A n, t : Moves(Tree(current), t, n)' <=> Moves(Tree(current), t, n)
    BY <2>1 DEF Moves
  <2> QED BY <2>1, <2>2, <2>3, <2>4 DEF UnitInv
<1>13. CASE UNCHANGED vars
  BY <1>2, <1>3, <1>13 DEF vars, refVars, diskVars
<1> QED BY <1>5, <1>6, <1>7, <1>8, <1>9, <1>10, <1>11, <1>12, <1>13 DEF Next
-----------------------------------------------------------------------------
(* The inductive invariant of the host.                                    *)
HostInv ==
    /\ ShapeInv /\ RefInv /\ ManagedInv /\ CheckoutInv
    /\ RiskInv /\ AppInv /\ LinksDone /\ LinkInv

(* All of this is inductive together: where an apply is, what it has left  *)
(* to do, and what of the disk the trees that were tried excuse.           *)
THEOREM HostInvariant == Spec => []HostInv
<1>1. Init => HostInv
  <2> SUFFICES ASSUME Init PROVE HostInv
    OBVIOUS
  <2>1. ShapeInv
    BY ShapeInit
  <2>2. /\ phase = "idle" /\ outcome = "none" /\ tried = {} /\ Tree(current) = NoApps
        /\ NoApps \in Trees /\ DOMAIN NoApps = {}
    BY DEF Init, Tree, Trees, NoApps, NoEntries
  <2>3. RefInv /\ ManagedInv
    BY <2>2, SubdirNumbers DEF RefInv, RefsTell, ManagedInv, Ended, Busy, Past
  <2>4. \A a \in App : link[a] = NoLinks
    BY DEF Init
  <2>5. 0 <= Len(commits)
    BY <2>1 DEF ShapeInv, TypeOK
  <2>6. CheckoutInv
    BY <2>2, <2>4, <2>5 DEF CheckoutInv, Dirs, Known, Busy, NoLinks
  <2>7. RiskInv /\ AppInv
    BY <2>2, <2>4 DEF RiskInv, Risky, AppInv, AppOK, NoLinks
  <2>8. LinksDone
    BY <2>2 DEF LinksDone, Past, Busy
  <2>9. LinkInv
    <3>1. \A p \in Path : manifest[p] = Absent
      BY DEF Init
    <3> QED BY <2>2, <3>1, Desired DEF LinkInv
  <2> QED BY <2>1, <2>3, <2>6, <2>7, <2>8, <2>9 DEF HostInv
<1>2. HostInv /\ [Next]_vars => HostInv'
  <2> SUFFICES ASSUME HostInv, [Next]_vars PROVE HostInv'
    OBVIOUS
  <2> USE DEF HostInv
  <2>1. ShapeInv'
    BY TypeStep, LeftStep, JobStep DEF ShapeInv
  <2>2. RefInv'
    BY RefStep
  <2>3. ManagedInv'
    BY <2>2, ManagedStep
  <2>4. CheckoutInv'
    BY <2>1, CheckoutInvStep
  <2>5. RiskInv' /\ AppInv'
    BY RiskStep, AppStep
  <2>6. LinksDone' /\ LinkInv'
    BY LinksStep, LinkStep
  <2> QED BY <2>1, <2>2, <2>3, <2>4, <2>5, <2>6
<1> QED BY <1>1, <1>2, PTL DEF Spec

(* The refs agree after every apply that ends well, but for the rollback   *)
(* of a first deploy.                                                      *)
THEOREM RefsAgree == Spec => []RefsTell
<1>1. HostInv => RefsTell
  BY DEF HostInv, RefInv
<1> QED BY <1>1, HostInvariant, PTL

(* Whatever was on the disk before, and whatever someone did to it in      *)
(* between, a completed apply leaves exactly the wanted links in the       *)
(* managed directories.                                                    *)
THEOREM ManagedLinksExact == Spec => []ManagedExact
<1>1. HostInv => ManagedExact
  BY DEF HostInv, ManagedInv, ManagedExact, Ended
<1> QED BY <1>1, HostInvariant, PTL

(* With no attempt left half done, the version to roll back to is still on *)
(* the disk, and is another one than the current.                          *)
THEOREM PreviousSurvives == Spec => []PreviousKept
<1>1. HostInv => PreviousKept
  BY DEF HostInv, CheckoutInv, Dirs, RiskInv, Risky, PreviousKept
<1> QED BY <1>1, HostInvariant, PTL

(* The retry promise for what Deptool itself writes, for any set of trees. *)
FilesConverge ==
    Ended /\ tried = {} /\ ~drifted => AppsMatch(Tree(current)) /\ LinksMatch(Tree(current))

(* With nothing tried and no drift no deviation is excused.                *)
LEMMA FilesSettled ==
    ASSUME HostInv
    PROVE  FilesConverge
<1> SUFFICES ASSUME Ended, tried = {}, ~drifted
             PROVE  AppsMatch(Tree(current)) /\ LinksMatch(Tree(current))
  BY DEF FilesConverge
<1>1. AppsMatch(Tree(current))
  BY DEF HostInv, AppInv, AppsMatch, AppOK
<1>2. LinksMatch(Tree(current))
  BY DEF HostInv, LinkInv, ManagedInv, LinksMatch
<1> QED BY <1>1, <1>2

(* Once every attempt was retried or rolled back and drift was repaired,   *)
(* an apply that reports success leaves every app checked out whole and    *)
(* exactly the tree's links, whatever crashed, failed or was interrupted   *)
(* before.                                                                 *)
THEOREM FilesSettle == Spec => []FilesConverge
<1>1. HostInv => FilesConverge
  BY FilesSettled
<1> QED BY <1>1, HostInvariant, PTL

(* The same of the whole host, its enabled units included, when every app  *)
(* enables only units of its own: an app that enables another's unit is    *)
(* not visited again when that other app's checkout moves.                 *)
THEOREM RetriesConverge == ASSUME OwnUnits PROVE Spec => []Converges
<1> DEFINE UInv == UnitsDone /\ UnitInv
<1>1. Init => UInv
  <2> SUFFICES ASSUME Init PROVE UInv
    OBVIOUS
  <2>1. phase = "idle" /\ Tree(current) = NoApps /\ DOMAIN NoApps = {}
    BY DEF Init, Tree, NoApps, NoEntries
  <2>2. \A n \in Unit : enabled[n] = <<>>
    BY DEF Init
  <2> QED BY <2>1, <2>2 DEF UnitsDone, UnitInv, UnitOK, Claimed, Past, Busy
<1>2. HostInv /\ UInv /\ [Next]_vars => UInv'
  BY UnitsStep, UnitStep DEF HostInv
<1>3. HostInv /\ UInv => Converges
  <2> SUFFICES ASSUME HostInv, UInv, Ended, tried = {}, ~drifted
               PROVE  Matches(Tree(current))
    BY DEF Converges
  <2>1. AppsMatch(Tree(current)) /\ LinksMatch(Tree(current))
    BY FilesSettled DEF FilesConverge
  <2>2. Tree(current) \in Trees
    BY JobTrees DEF HostInv, ShapeInv, TypeOK
  <2>3. ASSUME NEW a \in DOMAIN Tree(current), NEW n \in Tree(current)[a].enabled
        PROVE  Resolved(n) = <<a, link[a].current>>
    <3>1. /\ n \in DOMAIN Tree(current)[a].dirs["systemd"]
          /\ Owner(Tree(current), "systemd", n) = a /\ a # 0
      BY <2>2, OneEnabler
    <3>2. a \in App /\ n \in Name /\ "systemd" \in Subdir
      BY <2>2, <3>1, Paths DEF Trees, NoApps, NoEntries, Subdir
    <3>3. managed["systemd"][n] = a
      BY <2>1, <3>1, <3>2 DEF LinksMatch
    <3>4. LET c == link[a].current
          IN  c # 0 /\ version[a][c] = "full" /\ a \in DOMAIN Tree(c) /\ Tree(c)[a] = Tree(current)[a]
      BY <2>1, <3>2 DEF AppsMatch
    <3> QED BY <3>1, <3>2, <3>3, <3>4 DEF Resolved
  <2>4. UnitsMatch(Tree(current))
    <3>1. \A n \in Unit : UnitOK(n, Tree(current))
      BY DEF UnitInv
    <3> QED BY <2>3, <3>1 DEF UnitsMatch, UnitOK, Claimed
  <2> QED BY <2>1, <2>4 DEF Matches
<1> QED BY <1>1, <1>2, <1>3, HostInvariant, PTL DEF Spec
=============================================================================
