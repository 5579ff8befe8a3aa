--------------------------- MODULE Assertions_proofs ---------------------------
(***************************************************************************)
(* The assertions in the agent's deploy path never fail, for any number of *)
(* operators, hosts, commits and processes and under every fault.          *)
(***************************************************************************)
EXTENDS Refinement_proofs, FiniteSetTheorems, WellFoundedInduction

-----------------------------------------------------------------------------
(* The driver decides rollback safety app by app (HostPlan), the agent on  *)
(* the aggregate of all apps (SystemDiff::append).  For all host trees the *)
(* two agree, which is what the agent asserts before it applies.           *)
THEOREM SidesAgree ==
    ASSUME NEW from, NEW onto
    PROVE  HostPlanSafe(from, onto) <=> IsRollbackSafe(DiffHost(from, onto))
  <1> DEFINE diffs == DiffApps(from, onto)
             sys(app) == ComputeSystemDiff(app, diffs[app])
             all == DiffHost(from, onto)
  <1>1. HostPlanSafe(from, onto) <=>
          \A app \in DOMAIN diffs :
             /\ \A d \in Subdir : sys(app).dirs[d].link = {}
             /\ sys(app).symlinks.create = {}
             /\ sys(app).units.enable = {}
    BY DEF HostPlanSafe, IsRollbackSafe
  <1>2. IsRollbackSafe(all) <=>
          /\ \A d \in Subdir : UNION {sys(app).dirs[d].link : app \in DOMAIN diffs} = {}
          /\ UNION {sys(app).symlinks.create : app \in DOMAIN diffs} = {}
          /\ UNION {sys(app).units.enable : app \in DOMAIN diffs} = {}
    <2>1. /\ \A d \in Subdir : all.dirs[d].link =
               UNION {sys(app).dirs[d].link : app \in DOMAIN diffs}
          /\ all.symlinks.create = UNION {sys(app).symlinks.create : app \in DOMAIN diffs}
          /\ all.units.enable = UNION {sys(app).units.enable : app \in DOMAIN diffs}
      <3> HIDE DEF diffs
      <3>1. all = AppendAll(diffs)
        BY DEF diffs, DiffHost
      <3>2. QED
        BY <3>1 DEF AppendAll
    <2> HIDE DEF sys, all
    <2>2. QED
      BY <2>1 DEF IsRollbackSafe
  <1> HIDE DEF sys, diffs
  <1>3. /\ (UNION {sys(app).symlinks.create : app \in DOMAIN diffs} = {}) <=>
             (\A app \in DOMAIN diffs : sys(app).symlinks.create = {})
        /\ (UNION {sys(app).units.enable : app \in DOMAIN diffs} = {}) <=>
             (\A app \in DOMAIN diffs : sys(app).units.enable = {})
        /\ \A d \in Subdir :
             (UNION {sys(app).dirs[d].link : app \in DOMAIN diffs} = {}) <=>
             (\A app \in DOMAIN diffs : sys(app).dirs[d].link = {})
    OBVIOUS
  <1>4. QED
    BY <1>1, <1>2, <1>3

(* Nothing differs app by app exactly if the host trees are the same.      *)
LEMMA NoDiffs ==
    ASSUME NEW from, NEW onto,
           from = [app \in DOMAIN from |-> from[app]],
           onto = [app \in DOMAIN onto |-> onto[app]]
    PROVE  DOMAIN DiffApps(from, onto) = {} <=> from = onto
  <1>1. DOMAIN DiffApps(from, onto) =
          {a \in DOMAIN from \cup DOMAIN onto :
              a \notin DOMAIN from \/ a \notin DOMAIN onto \/ from[a] # onto[a]}
    BY DEF DiffApps
  <1>2. ASSUME DOMAIN DiffApps(from, onto) = {} PROVE from = onto
    <2>1. DOMAIN from = DOMAIN onto
      BY <1>1, <1>2
    <2>2. \A app \in DOMAIN from : from[app] = onto[app]
      BY <1>1, <1>2, <2>1
    <2>3. QED
      BY <2>1, <2>2
  <1>3. QED
    BY <1>1, <1>2

(* The diff back is between the same apps, the other way around.           *)
LEMMA DiffBack ==
    ASSUME NEW from, NEW onto
    PROVE  /\ DOMAIN DiffApps(onto, from) = DOMAIN DiffApps(from, onto)
           /\ \A app \in DOMAIN DiffApps(from, onto) :
                /\ DiffApps(onto, from)[app].old = DiffApps(from, onto)[app].new
                /\ DiffApps(onto, from)[app].new = DiffApps(from, onto)[app].old
  BY DEF DiffApps

(* Rolling back an upgrade that was rollback safe never has to remove a    *)
(* link or disable a unit: try_rollback only puts back what the upgrade    *)
(* changed or took away, so it cannot lose a file it did not make.         *)
THEOREM RollbackRemovesNothing ==
    ASSUME NEW from, NEW onto,
           IsRollbackSafe(DiffHost(from, onto))
    PROVE  /\ \A d \in Subdir : DiffHost(onto, from).dirs[d].unlink = {}
           /\ DiffHost(onto, from).symlinks.remove = {}
           /\ DiffHost(onto, from).units.disable = {}
  <1> DEFINE diffs == DiffApps(from, onto)
             back  == DiffApps(onto, from)
             sys(app) == ComputeSystemDiff(app, back[app])
             all   == DiffHost(onto, from)
  <1>1. \A app \in DOMAIN diffs : IsRollbackSafe(ComputeSystemDiff(app, diffs[app]))
    BY SidesAgree DEF HostPlanSafe
  <1>2. \A app \in DOMAIN back :
          /\ \A d \in Subdir : sys(app).dirs[d].unlink = {}
          /\ sys(app).symlinks.remove = {}
          /\ sys(app).units.disable = {}
    <2>1. SUFFICES ASSUME NEW app \in DOMAIN back
                   PROVE  /\ \A d \in Subdir : sys(app).dirs[d].unlink = {}
                          /\ sys(app).symlinks.remove = {}
                          /\ sys(app).units.disable = {}
      OBVIOUS
    <2> DEFINE old == diffs[app].old
               new == diffs[app].new
               fwd == ComputeSystemDiff(app, diffs[app])
    <2>2. app \in DOMAIN diffs /\ back[app].old = new /\ back[app].new = old
      BY <2>1, DiffBack
    <2>3. /\ \A d \in Subdir : fwd.dirs[d].link = {}
          /\ fwd.symlinks.create = {}
          /\ fwd.units.enable = {}
      BY <1>1, <2>2 DEF IsRollbackSafe
    <2> HIDE DEF diffs, back
    <2>4. /\ \A d \in Subdir : fwd.dirs[d].link = DOMAIN new.dirs[d] \ DOMAIN old.dirs[d]
          /\ fwd.symlinks.create = {<<l, app, new.symlinks[l]>> :
                                       l \in DOMAIN new.symlinks \ DOMAIN old.symlinks}
          /\ fwd.units.enable = new.enabled \ old.enabled
      BY DEF ComputeSystemDiff, SubdirChanges, DiffSymlinks, DiffEnabled
    <2>5. /\ \A d \in Subdir : sys(app).dirs[d].unlink = DOMAIN new.dirs[d] \ DOMAIN old.dirs[d]
          /\ sys(app).symlinks.remove = DOMAIN new.symlinks \ DOMAIN old.symlinks
          /\ sys(app).units.disable = new.enabled \ old.enabled
      BY <2>2 DEF ComputeSystemDiff, SubdirChanges, DiffSymlinks, DiffEnabled
    <2>6. DOMAIN new.symlinks \ DOMAIN old.symlinks = {}
      <3> DEFINE made == DOMAIN new.symlinks \ DOMAIN old.symlinks
                 item(l) == <<l, app, new.symlinks[l]>>
      <3>1. {item(l) : l \in made} = {}
        BY <2>3, <2>4
      <3> HIDE DEF made, item
      <3>2. made = {}
        BY <3>1
      <3>3. QED
        BY <3>2 DEF made
    <2>7. QED
      BY <2>3, <2>4, <2>5, <2>6
  <1>3. /\ \A d \in Subdir : all.dirs[d].unlink =
             UNION {sys(app).dirs[d].unlink : app \in DOMAIN back}
        /\ all.symlinks.remove = UNION {sys(app).symlinks.remove : app \in DOMAIN back}
        /\ all.units.disable = UNION {sys(app).units.disable : app \in DOMAIN back}
    <2> HIDE DEF back
    <2>1. all = AppendAll(back)
      BY DEF back, DiffHost
    <2>2. QED
      BY <2>1 DEF AppendAll
  <1> HIDE DEF sys, back, all
  <1>4. /\ \A d \in Subdir : all.dirs[d].unlink = {}
        /\ all.symlinks.remove = {}
        /\ all.units.disable = {}
    BY <1>2, <1>3
  <1>5. QED
    BY <1>4 DEF all
-----------------------------------------------------------------------------
(* Ancestry is a strict order on the commits of S.                         *)
Ordered(before, S) ==
    \A c \in S : /\ c \notin before[c]
                 /\ \A d \in S \cap before[c] : before[d] \subseteq before[c]

(* Nothing is lost when only the frontier becomes the parents of a new     *)
(* commit: every member of S is in the history of a member of the          *)
(* frontier.                                                               *)
THEOREM FrontierCovers ==
    ASSUME NEW before, NEW S, IsFiniteSet(S), Ordered(before, S), NEW c \in S
    PROVE  \E d \in Frontier(before, S) : c \in History(before, d)
  <1> DEFINE Above(d) == {e \in S : d \in before[e]}
             T == {d \in S : c \in History(before, d)}
             M == {Above(d) : d \in T}
  <1>1. IsWellFoundedOn(StrictSubsetOrdering(S), SUBSET S)
    BY FS_StrictSubsetOrderingWellFounded, FS_FiniteSubsetsOfFinite
  <1>2. M \subseteq SUBSET S /\ M # {}
    BY DEF History
  <1>3. PICK m \in M : \A n \in M : ~ (<<n, m>> \in StrictSubsetOrdering(S))
    <2> HIDE DEF M
    <2>1. QED
      BY <1>1, <1>2, WFMin
  <1>4. PICK d \in T : m = Above(d)
    OBVIOUS
  <1>5. \A e \in S : e # d => ~DescendsFrom(before, e, d)
    <2>1. SUFFICES ASSUME NEW e \in S, d \in before[e] PROVE FALSE
      BY DEF DescendsFrom
    <2>2. e \in T
      BY <2>1 DEF History, Ordered
    <2>3. Above(e) \subseteq Above(d)
      BY <2>1 DEF Ordered
    <2>4. e \in Above(d) /\ e \notin Above(e)
      BY <2>1 DEF Ordered
    <2>5. <<Above(e), Above(d)>> \in StrictSubsetOrdering(S)
      <3> HIDE DEF T, M
      <3>1. Above(e) \in SUBSET S /\ Above(d) \in SUBSET S
        OBVIOUS
      <3> HIDE DEF Above
      <3>2. QED
        BY <2>3, <2>4, <3>1 DEF StrictSubsetOrdering
    <2>6. Above(e) \in M
      BY <2>2
    <2>7. QED
      BY <1>3, <1>4, <2>5, <2>6
  <1>6. QED
    BY <1>4, <1>5 DEF Frontier
-----------------------------------------------------------------------------
(* Commits form a strict order, and a history consists of commits that     *)
(* were created.                                                           *)
GraphInv == Ordered(anc, Commit) /\ \A c \in Commit : anc[c] \subseteq Created

Known(c) == c \in Created \cup {None}

(* Every ref, and what a driver learns of one, is a commit that was created.*)
KnownInv ==
    /\ \A h \in Host : Known(current[h]) /\ Known(target[h])
    /\ \A o \in Operator, h \in Host : Known(tracking[o][h]) /\ Known(actual[o][h])
    /\ \A s \in Slot :
         outbox[s] # None /\ outbox[s].type = "LockStale" => Known(outbox[s].commit)

(* What the agent asserts of a deploy from base to goal, a commit that was *)
(* made for the host.                                                      *)
Fits(base, goal, safe, h) ==
    /\ goal \in Created
    /\ HasEntry(goal, h)
    /\ base # None => DescendsFrom(anc, goal, base)
    /\ safe = IsRollbackSafe(DiffHost(HostApps(base, h), HostApps(goal, h)))

(* A plan passes the assertions on hosts that are what it expects.         *)
PlanInv ==
    \A o \in Operator, h \in Host :
        cmd[o] = "deploy" /\ thread[o][h] # "none" =>
            Fits(plan[o].expected[h], plan[o].commit, plan[o].safe[h], h)

(* A host that is going to be asked for its objects has a commit.          *)
StaleInv ==
    /\ \A s \in Slot :
         Live(s) /\ outbox[s] # None /\ outbox[s].type = "LockStale" /\ outbox[s].commit # None =>
             current[ahost[s]] # None
    /\ \A o \in Operator, h \in Host :
         /\ thread[o][h] = "stale"
         /\ conn[o][h] # None /\ Live(conn[o][h])
         /\ actual[o][h] # None
         => current[h] # None

(* A request finds what the agent asserts when it takes the request up.    *)
Answerable(s) ==
    /\ Asked(s, "RequestObjects") => current[ahost[s]] # None
    /\ Asked(s, "Deploy") \/ Asked(s, "Reapply") => apc[s] = "locked"
    /\ Asked(s, "Deploy") =>
         Fits(current[ahost[s]], inbox[s].commit, inbox[s].safe, ahost[s])

RequestInv == \A s \in Slot : Live(s) => Answerable(s)

(* The inductive invariant behind the assertions. *)
AssertInv ==
    /\ RefineInv
    /\ GraphInv
    /\ KnownInv
    /\ PlanInv
    /\ StaleInv
    /\ RequestInv
-----------------------------------------------------------------------------
(* Created commits stay as they were created. *)
LEMMA CreatedStays ==
    ASSUME TypeOK, [Next]_vars
    PROVE  /\ Created \subseteq Created'
           /\ \A c \in Created : tree'[c] = tree[c] /\ anc'[c] = anc[c]
  <1>t. GraphTypeOK
    BY DEF TypeOK, ClusterTypeOK
  <1>1. CASE UNCHANGED graphVars
    BY <1>1 DEF Created, graphVars
  <1>2. ASSUME NEW o \in Operator, NEW g \in Config, NEW limit \in SUBSET DOMAIN TreeOf[g],
               NEW c \in Commit, MakePlan(o, g, limit, c)
        PROVE  /\ Created \subseteq Created'
               /\ \A d \in Created : tree'[d] = tree[d] /\ anc'[d] = anc[d]
    BY <1>2, <1>t DEF MakePlan, Created, GraphTypeOK
  <1>3. QED
    BY <1>1, <1>2, OnlyPlansCommit

(* So a deploy that fits goes on to fit while new commits are made. *)
LEMMA FitsStays ==
    ASSUME TypeOK, GraphInv, [Next]_vars
    PROVE  \A base, goal \in OptCommit, safe \in BOOLEAN, h \in Host :
             Fits(base, goal, safe, h) => Fits(base, goal, safe, h)'
  <1> SUFFICES ASSUME NEW base \in OptCommit, NEW goal \in OptCommit, NEW safe \in BOOLEAN,
                      NEW h \in Host, Fits(base, goal, safe, h)
               PROVE  Fits(base, goal, safe, h)'
    OBVIOUS
  <1>1. goal \in Created /\ goal \in Created' /\ anc'[goal] = anc[goal] /\ tree'[goal] = tree[goal]
    BY CreatedStays DEF Fits
  <1>2. base # None => base \in Created
    BY <1>1 DEF Fits, DescendsFrom, GraphInv, Created
  <1>3. base # None => tree'[base] = tree[base]
    BY <1>2, CreatedStays
  <1>4. HostApps(base, h)' = HostApps(base, h) /\ HostApps(goal, h)' = HostApps(goal, h)
    BY <1>1, <1>3 DEF HostApps, HasEntry
  <1>5. QED
    BY <1>1, <1>4 DEF Fits, DescendsFrom, HasEntry

(* The hosts' tracked commits are finitely many, so that their frontier    *)
(* stands for all of them.                                                 *)
LEMMA PlanCovers ==
    ASSUME TypeOK, GraphInv, NEW o \in Operator, NEW H \in SUBSET Host,
           NEW h \in H, Tracked(o, h) # None
    PROVE  Tracked(o, h) \in Ancestry(anc, PlanParents(o, H))
  <1> DEFINE S == {Tracked(o, k) : k \in H} \ {None}
             K == {k \in H : Tracked(o, k) # None}
             f == [k \in K |-> Tracked(o, k)]
  <1>1. S \subseteq Commit
    BY DEF TypeOK, DriverTypeOK, StoreTypeOK, OptCommit, Tracked
  <1>2. IsFiniteSet(S)
    <2>1. IsFiniteSet(K)
      BY ConstantsAssumption, FS_Subset
    <2>2. f \in Surjection(K, S)
      BY DEF Surjection
    <2> HIDE DEF f, K, S
    <2>3. QED
      BY <2>1, <2>2, FS_Surjection
  <1>3. Ordered(anc, S)
    BY <1>1 DEF GraphInv, Ordered
  <1>4. \E d \in Frontier(anc, S) : Tracked(o, h) \in History(anc, d)
    <2>1. Tracked(o, h) \in S
      OBVIOUS
    <2> HIDE DEF S
    <2>2. QED
      BY <1>2, <1>3, <2>1, FrontierCovers
  <1>5. QED
    BY <1>4 DEF PlanParents, Ancestry
-----------------------------------------------------------------------------
(* A new commit goes on top of commits that were created. *)
LEMMA NextGraph ==
    ASSUME TypeOK, GraphInv, KnownInv, [Next]_vars
    PROVE  GraphInv'
  <1>t. GraphTypeOK
    BY DEF TypeOK, ClusterTypeOK
  <1>1. CASE UNCHANGED graphVars
    BY <1>1 DEF GraphInv, Ordered, Created, graphVars
  <1>2. ASSUME NEW o \in Operator, NEW g \in Config, NEW limit \in SUBSET DOMAIN TreeOf[g],
               NEW c \in Commit, MakePlan(o, g, limit, c)
        PROVE  GraphInv'
    <2> DEFINE P == PlanParents(o, Changed(o, g, limit))
    <2>1. P \subseteq Created
      <3>1. Changed(o, g, limit) \subseteq Host
        BY <1>2, ConstantsAssumption DEF Changed
      <3>2. \A h \in Host : Known(Tracked(o, h))
        BY DEF KnownInv, Known, Tracked
      <3>3. QED
        BY <3>1, <3>2 DEF PlanParents, Frontier, Known
    <2> HIDE DEF P
    <2>2. c \notin Created /\ anc' = [anc EXCEPT ![c] = Ancestry(anc, P)]
      BY <1>2 DEF MakePlan, P
    <2>3. Created \subseteq Created' /\ \A d \in Created : anc'[d] = anc[d]
      BY CreatedStays
    <2>4. /\ Ancestry(anc, P) \subseteq Created
          /\ \A d \in Ancestry(anc, P) : anc[d] \subseteq Ancestry(anc, P)
      <3>1. \A d \in Created : d \in Commit /\ anc[d] \subseteq Created
        BY DEF GraphInv, Created
      <3>2. QED
        BY <2>1, <3>1 DEF Ancestry, History, GraphInv, Ordered
    <2>5. \A d \in Commit : anc'[d] = IF d = c THEN Ancestry(anc, P) ELSE anc[d]
      BY <1>t, <2>2 DEF GraphTypeOK
    <2>6. QED
      BY <2>2, <2>3, <2>4, <2>5 DEF GraphInv, Ordered
  <1>3. QED
    BY <1>1, <1>2, OnlyPlansCommit

(* A plan fits when it is made, and its command keeps it. *)
LEMMA NextPlan ==
    ASSUME TypeOK, CommandInv, GraphInv, KnownInv, PlanInv, [Next]_vars
    PROVE  PlanInv'
  <1>t. GraphTypeOK /\ CommandTypeOK /\ thread \in [Operator -> [Host -> ThreadState]]
    BY DEF TypeOK, ClusterTypeOK, DriverTypeOK, ThreadTypeOK
  <1> SUFFICES ASSUME NEW o \in Operator, NEW h \in Host, cmd'[o] = "deploy", thread'[o][h] # "none"
               PROVE  Fits(plan[o].expected[h], plan[o].commit, plan[o].safe[h], h)'
    BY DEF PlanInv
  <1>k. ASSUME cmd[o] = "deploy", thread[o][h] # "none", plan'[o] = plan[o]
        PROVE  Fits(plan[o].expected[h], plan[o].commit, plan[o].safe[h], h)'
    <2>1. Fits(plan[o].expected[h], plan[o].commit, plan[o].safe[h], h)
      BY <1>k DEF PlanInv
    <2>2. /\ plan[o].expected[h] \in OptCommit /\ plan[o].commit \in OptCommit
          /\ plan[o].safe[h] \in BOOLEAN
      BY <1>t, Fields DEF CommandTypeOK
    <2>3. QED
      BY <1>k, <2>1, <2>2, FitsStays
  <1>1. CASE UNCHANGED driverVars
    BY <1>1, <1>k DEF driverVars, commandVars, threadVars
  <1>2. ASSUME NEW p \in Operator, NEW g \in Config, NEW limit \in SUBSET DOMAIN TreeOf[g],
               NEW c \in Commit, MakePlan(p, g, limit, c)
        PROVE  Fits(plan[o].expected[h], plan[o].commit, plan[o].safe[h], h)'
    <2> DEFINE H == Changed(p, g, limit)
               row == [k \in Host |-> IF k \in H THEN "connect" ELSE "none"]
               new == [commit   |-> c,
                       expected |-> [k \in Host |-> IF k \in H THEN Tracked(p, k) ELSE None],
                       safe     |-> [k \in Host |->
                           k \in H /\ HostPlanSafe(HostApps(Tracked(p, k), k), TreeOf[g][k])]]
    <2>1. /\ thread' = [thread EXCEPT ![p] = row]
          /\ plan' = [plan EXCEPT ![p] = new]
          /\ cmd' = [cmd EXCEPT ![p] = "deploy"]
          /\ tree' = [tree EXCEPT ![c] = g]
          /\ anc' = [anc EXCEPT ![c] = Ancestry(anc, PlanParents(p, H))]
          /\ c \notin Created
      BY <1>2 DEF MakePlan, StartThreads
    <2> HIDE DEF row, new
    <2>2. CASE p # o
      BY <1>t, <1>k, <2>1, <2>2 DEF CommandTypeOK
    <2>3. CASE p = o
      <3>1. row[h] # "none" /\ plan'[o] = new
        BY <1>t, <2>1, <2>3 DEF CommandTypeOK
      <3>2. h \in H
        BY <3>1 DEF row
      <3>3. h \in limit /\ h \in DOMAIN TreeOf[g]
        BY <3>2 DEF Changed
      <3>4. H \in SUBSET Host
        BY ConstantsAssumption DEF Changed
      <3>5. PICK b, w : b = Tracked(o, h) /\ w = new.safe[h]
        OBVIOUS
      <3>6. new.commit = c /\ new.expected[h] = b
        BY <2>3, <3>2, <3>5 DEF new
      <3>7. w = IsRollbackSafe(DiffHost(HostApps(b, h), TreeOf[g][h]))
        <4> DEFINE safe(k) == k \in H /\ HostPlanSafe(HostApps(Tracked(p, k), k), TreeOf[g][k])
        <4>1. new.safe[h] = safe(h)
          BY DEF new
        <4>2. safe(h) <=> IsRollbackSafe(DiffHost(HostApps(b, h), TreeOf[g][h]))
          BY <2>3, <3>2, <3>5, SidesAgree
        <4>3. QED
          BY <3>5, <4>1, <4>2 DEF IsRollbackSafe
      <3>8. tree'[c] = g /\ anc'[c] = Ancestry(anc, PlanParents(o, H)) /\ c # None /\ g # None
        BY <1>t, <2>1, <2>3, ConstantsAssumption DEF GraphTypeOK
      <3>9. c \in Created'
        BY <3>8 DEF Created
      <3>10. b # None => DescendsFrom(anc', c, b)
        BY <2>3, <3>2, <3>4, <3>5, <3>8, PlanCovers DEF DescendsFrom
      <3>11. HostApps(c, h)' = TreeOf[g][h]
        BY <3>3, <3>8 DEF HostApps, HasEntry
      <3>12. HostApps(b, h)' = HostApps(b, h)
        <4>1. b \in Created \cup {None}
          BY <3>5 DEF KnownInv, Known, Tracked
        <4>2. QED
          BY <4>1, CreatedStays DEF HostApps, HasEntry
      <3>13. Fits(b, c, w, h)'
        BY <3>3, <3>7, <3>8, <3>9, <3>10, <3>11, <3>12 DEF Fits, HasEntry
      <3>14. /\ plan'[o].expected[h] = b
             /\ plan'[o].commit = c
             /\ plan'[o].safe[h] = w
        BY <3>1, <3>5, <3>6
      <3>15. QED
        BY <3>13, <3>14 DEF Fits
    <2>4. QED
      BY <2>2, <2>3
  <1>3. ASSUME NEW p \in Operator, NEW g \in Host,
               \/ Connect(p, g) \/ ThreadStep(p, g)
               \/ ConnectFails(p, g) \/ ConnectionLost(p, g)
        PROVE  Fits(plan[o].expected[h], plan[o].commit, plan[o].safe[h], h)'
    BY <1>3, <1>k, ThreadMoves DEF Moves, commandVars
  <1>4. ASSUME NEW p \in Operator, ProceedDeploy(p) \/ ProceedReapply(p)
        PROVE  Fits(plan[o].expected[h], plan[o].commit, plan[o].safe[h], h)'
    BY <1>4, <1>t, <1>k, ProceedThreads DEF ProceedDeploy, ProceedReapply, StartApplying
  <1>5. ASSUME NEW p \in Operator, Confirm(p) \/ StartFetching(p)
        PROVE  Fits(plan[o].expected[h], plan[o].commit, plan[o].safe[h], h)'
    BY <1>5, <1>k DEF Confirm, StartFetching, threadVars
  <1>6. ASSUME NEW p \in Operator, EndCommand(p)
        PROVE  Fits(plan[o].expected[h], plan[o].commit, plan[o].safe[h], h)'
    BY <1>6, <1>t, <1>k DEF EndCommand, StartThreads, CommandTypeOK
  <1>7. ASSUME NEW p \in Operator, NEW H \in SUBSET Host, StartReapply(p, H) \/ StartSync(p, H)
        PROVE  Fits(plan[o].expected[h], plan[o].commit, plan[o].safe[h], h)'
    BY <1>7, <1>t, <1>k DEF StartReapply, StartSync, Select, StartThreads, CommandTypeOK
  <1>8. QED
    BY <1>1, <1>2, <1>3, <1>4, <1>5, <1>6, <1>7
       DEF Next, HostSide, DriverSide, DriverFault, OperatorStep, CommandStep, Decline,
           DriverCrash, RefuseReapply, Finish, vars
-----------------------------------------------------------------------------
(* Commits are not taken away from a host that a process lives on. *)
LEMMA CurrentKept ==
    ASSUME TypeOK, ProcessInv, CommandInv, [Next]_vars, NEW t \in Slot, Live(t)
    PROVE  current[ahost[t]] # None => current'[ahost[t]] # None
  <1>t. ProcessTypeOK /\ HostTypeOK /\ JobTypeOK /\ ahost[t] \in Host
    BY DEF TypeOK, ClusterTypeOK, AgentTypeOK, ProcessInv, ProcessTypeOK
  <1>1. ASSUME NEW s \in Slot, AgentStep(s) \/ AgentKilled(s)
        PROVE  current[ahost[t]] # None => current'[ahost[t]] # None
    <2>1. CASE SetCurrent(s)
      <3>1. job[s].commit \in Commit
        BY <2>1, <1>t, Fields DEF SetCurrent, ProcessInv
      <3>2. QED
        BY <2>1, <1>t, <3>1, ConstantsAssumption DEF SetCurrent, HostTypeOK
    <2>2. CASE ~SetCurrent(s)
      BY <1>1, <2>2 DEF AgentStep, AgentKilled, HandleLock, HandleReceivePack,
           HandleRequestObjects, PreApplyError, PrepareDeploy, PrepareReapply, StartJob,
           PrepareUnresolved, AgentPanic, AgentExit, RecordHostname, RecordFails, ApplyFails,
           StartRollback, RollbackCompletes, RollbackFails, hostVars, refVars
    <2>3. QED
      BY <2>1, <2>2
  <1>2. ASSUME NEW a \in Host, NEW b \in Host, Wipe(a) \/ Rename(a, b)
        PROVE  current'[ahost[t]] = current[ahost[t]]
    BY <1>2, <1>t DEF Wipe, Rename, Quiet, Swap, HostTypeOK
  <1>3. ASSUME NEW o \in Operator, NEW h \in Host, Connect(o, h)
        PROVE  UNCHANGED hostVars
    BY <1>3, ConnectFrame
  <1>4. ASSUME NEW o \in Operator, NEW h \in Host,
               ThreadStep(o, h) \/ ConnectFails(o, h) \/ ConnectionLost(o, h)
        PROVE  UNCHANGED hostVars
    BY <1>4, ThreadFrame
  <1>5. ASSUME NEW o \in Operator, OperatorStep(o) \/ CommandStep(o) \/ DriverCrash(o)
        PROVE  UNCHANGED hostVars
    BY <1>5, OperatorFrame
  <1>6. QED
    BY <1>1, <1>2, <1>3, <1>4, <1>5 DEF Next, HostSide, DriverSide, DriverFault, vars, hostVars

(* What an agent's step does to its own pipes and refs.  A request that is *)
(* left on stdin waits for an apply to end.                                *)
LEMMA AgentAnswers ==
    ASSUME TypeOK, ProcessInv, NEW s \in Slot, AgentStep(s) \/ AgentKilled(s)
    PROVE  /\ Live(s)' /\ inbox'[s] # None =>
                inbox'[s] = inbox[s] /\ apc[s] \in {"modify", "record", "rollback"}
           /\ \/ outbox'[s] = outbox[s]
              \/ outbox'[s] = None
              \/ outbox'[s].type # "LockStale"
              \/ outbox'[s].commit = current[ahost[s]] /\ UNCHANGED hostVars
           /\ \A h \in Host :
                /\ current'[h] # current[h] => apc[s] = "modify" /\ current'[h] = job[s].commit
                /\ target'[h] # target[h] =>
                     \/ apc[s] = "rollback" /\ target'[h] = job[s].base
                     \/ Asked(s, "Deploy") /\ apc[s] = "locked" /\ target'[h] = inbox[s].commit
  <1>t. ProcessTypeOK /\ PipeTypeOK /\ HostTypeOK /\ (Live(s) => ahost[s] \in Host)
    BY DEF TypeOK, ClusterTypeOK, AgentTypeOK, ProcessInv, ProcessTypeOK
  <1>e. \A m : Emit(s, m) => outbox'[s] \in {m, None}
    BY <1>t DEF Emit, PipeTypeOK
  <1>i. \A m : Answer(s, m) => inbox'[s] = None /\ outbox'[s] \in {m, None}
    BY <1>t, <1>e DEF Answer, PipeTypeOK
  <1>x. \A type : (\A c : MsgCommit(type, c).type = type /\ MsgCommit(type, c).commit = c)
                  /\ Msg(type).type = type
    BY DEF MsgCommit, Msg
  <1>1. CASE HandleLock(s)
    <2>1. LockAnswer(ahost[s], inbox[s].commit).type # "LockStale"
          \/ LockAnswer(ahost[s], inbox[s].commit).commit = current[ahost[s]]
      BY <1>x DEF LockAnswer
    <2>2. QED
      BY <1>1, <1>i, <2>1 DEF HandleLock, hostVars
  <1>2. CASE HandleReceivePack(s)
    BY <1>2, <1>i, <1>x DEF HandleReceivePack
  <1>3. CASE HandleRequestObjects(s)
    BY <1>3, <1>i, <1>x DEF HandleRequestObjects, MsgPack, hostVars
  <1>4. CASE PreApplyError(s) \/ PrepareUnresolved(s)
    BY <1>4, <1>i, <1>x DEF PreApplyError, PrepareUnresolved, hostVars
  <1>5. CASE PrepareDeploy(s) \/ PrepareReapply(s)
    BY <1>5, <1>t DEF PrepareDeploy, PrepareReapply, StartJob, PipeTypeOK, HostTypeOK, Live
  <1>6. CASE AgentPanic(s) \/ AgentExit(s) \/ AgentKilled(s)
    BY <1>6, <1>t DEF AgentPanic, AgentExit, AgentKilled, Exit, PipeTypeOK, hostVars
  <1>7. CASE SetCurrent(s) \/ StartRollback(s)
    BY <1>7, <1>t DEF SetCurrent, StartRollback, pipeVars, hostVars, HostTypeOK, Live
  <1>8. CASE RecordHostname(s) \/ RecordFails(s) \/ ApplyFails(s)
    BY <1>8, <1>e, <1>x DEF RecordHostname, RecordFails, ApplyFails, EndJob, refVars
  <1>9. CASE RollbackCompletes(s) \/ RollbackFails(s)
    BY <1>9, <1>t, <1>e, <1>x
       DEF RollbackCompletes, RollbackFails, EndJob, refVars, HostTypeOK, Live
  <1>10. QED
    BY <1>1, <1>2, <1>3, <1>4, <1>5, <1>6, <1>7, <1>8, <1>9 DEF AgentStep

(* The drivers take messages off the pipes and put none on them. *)
LEMMA DriverReads ==
    ASSUME TypeOK, DriverSide, NEW s \in Slot
    PROVE  outbox'[s] \in {outbox[s], None}
  <1>t. PipeTypeOK
    BY DEF TypeOK, ClusterTypeOK
  <1>d. \A S : DropPipes(S) => outbox'[s] \in {outbox[s], None}
    BY DEF DropPipes
  <1>h. \A o, h, state : Hangup(o, h, state) => outbox'[s] \in {outbox[s], None}
    BY <1>d DEF Hangup
  <1>r. \A o, h, state : Receive(o, h, state) => outbox'[s] \in {outbox[s], None}
    BY <1>t DEF Receive, PipeTypeOK
  <1>1. ASSUME NEW o \in Operator, OperatorStep(o) \/ CommandStep(o) \/ DriverCrash(o)
        PROVE  outbox'[s] \in {outbox[s], None}
    BY <1>1, <1>d DEF OperatorStep, MakePlan, StartReapply, StartSync, Select, Confirm, Decline,
         CommandStep, ProceedDeploy, ProceedReapply, StartApplying, RefuseReapply, StartFetching,
         Finish, DriverCrash, EndCommand, pipeVars
  <1>2. ASSUME NEW o \in Operator, NEW h \in Host, Connect(o, h)
        PROVE  outbox'[s] \in {outbox[s], None}
    BY <1>2, <1>t DEF Connect, ConnectAndLock, ConnectForSync, Spawn, PipeTypeOK
  <1>3. ASSUME NEW o \in Operator, NEW h \in Host, ReadLock(o, h) \/ ReadApply(o, h)
        PROVE  outbox'[s] \in {outbox[s], None}
    BY <1>3, <1>h, <1>r DEF ReadLock, ReadApply
  <1>4. ASSUME NEW o \in Operator, NEW h \in Host,
               FetchStale(o, h) \/ SendPack(o, h) \/ ReadPackReceived(o, h) \/ SendReapply(o, h)
        PROVE  outbox'[s] \in {outbox[s], None}
    BY <1>4, <1>t, <1>h DEF FetchStale, SendPack, ReadPackReceived, SendReapply, PipeTypeOK
  <1>5. ASSUME NEW o \in Operator, NEW h \in Host,
               ReadObjects(o, h) \/ ReadApplied(o, h) \/ ReadEOF(o, h)
        PROVE  outbox'[s] \in {outbox[s], None}
    <2>1. \E state : Hangup(o, h, state)
      BY <1>5 DEF ReadObjects, ReadApplied, ReadEOF
    <2>2. QED
      BY <1>h, <2>1
  <1>6. ASSUME NEW o \in Operator, NEW h \in Host, ConnectFails(o, h) \/ ConnectionLost(o, h)
        PROVE  outbox'[s] \in {outbox[s], None}
    BY <1>6, <1>d DEF ConnectFails, ConnectionLost, pipeVars
  <1>7. QED
    BY <1>1, <1>2, <1>3, <1>4, <1>5, <1>6 DEF DriverSide, DriverFault, ThreadStep

(* What a driver comes to believe of a host is a ref of the host, the      *)
(* commit it was told with LockStale, or the commit of its own plan.       *)
LEMMA DriverLearns ==
    ASSUME TypeOK, CommandInv, DriverSide, NEW o \in Operator, NEW h \in Host
    PROVE  /\ \/ tracking'[o][h] = tracking[o][h]
              \/ /\ thread[o][h] \in {"stale", "fetch"} /\ thread'[o][h] = "fetched"
                 /\ tracking'[o][h] = actual[o][h]
              \/ /\ cmd[o] = "deploy" /\ thread[o][h] = "applied" /\ thread'[o][h] = "done"
                 /\ tracking'[o][h] = plan[o].commit
           /\ \/ actual'[o][h] \in {actual[o][h], current[h], None}
              \/ /\ HasMessage(o, h) /\ Got(o, h) = "LockStale"
                 /\ actual'[o][h] = outbox[conn[o][h]].commit
  <1> DEFINE Learns ==
         /\ \/ tracking'[o][h] = tracking[o][h]
            \/ /\ thread[o][h] \in {"stale", "fetch"} /\ thread'[o][h] = "fetched"
               /\ tracking'[o][h] = actual[o][h]
            \/ /\ cmd[o] = "deploy" /\ thread[o][h] = "applied" /\ thread'[o][h] = "done"
               /\ tracking'[o][h] = plan[o].commit
         /\ \/ actual'[o][h] \in {actual[o][h], current[h], None}
            \/ /\ HasMessage(o, h) /\ Got(o, h) = "LockStale"
               /\ actual'[o][h] = outbox[conn[o][h]].commit
  <1>t. /\ tracking \in [Operator -> [Host -> OptCommit]]
        /\ actual \in [Operator -> [Host -> OptCommit]]
    BY DEF TypeOK, DriverTypeOK, StoreTypeOK, ThreadTypeOK
  <1>0. tracking' = tracking /\ actual' = actual => Learns
    OBVIOUS
  <1>h. \A p, g, state : Hangup(p, g, state) => actual' = actual
    BY DEF Hangup
  <1>s. \A p \in Operator, g \in Host : \A state :
           thread' = [thread EXCEPT ![p][g] = state] => thread'[p][g] = state
    BY DEF TypeOK, DriverTypeOK, ThreadTypeOK
  <1>1. ASSUME NEW p \in Operator, OperatorStep(p) \/ CommandStep(p) \/ DriverCrash(p)
        PROVE  Learns
    <2>1. tracking' = tracking /\
             (actual' = actual \/ actual' = [actual EXCEPT ![p] = [g \in Host |-> None]])
      BY <1>1 DEF OperatorStep, MakePlan, StartReapply, StartSync, Select, Confirm, Decline,
           CommandStep, ProceedDeploy, ProceedReapply, StartApplying, RefuseReapply,
           StartFetching, Finish, DriverCrash, EndCommand, storeVars, threadVars
    <2>2. QED
      BY <1>t, <2>1
  <1>2. ASSUME NEW p \in Operator, NEW g \in Host, Connect(p, g)
        PROVE  Learns
    BY <1>2, <1>t, <1>0 DEF Connect, ConnectAndLock, ConnectForSync, storeVars
  <1>3. ASSUME NEW p \in Operator, NEW g \in Host, ReadLock(p, g)
        PROVE  Learns
    BY <1>3, <1>t, <1>0, <1>h DEF ReadLock, storeVars
  <1>4. ASSUME NEW p \in Operator, NEW g \in Host, FetchStale(p, g) \/ ReadObjects(p, g)
        PROVE  Learns
    <2>1. /\ actual' = actual
          /\ \/ tracking' = tracking
             \/ /\ tracking' = [tracking EXCEPT ![p][g] = actual[p][g]]
                /\ thread[p][g] \in {"stale", "fetch"}
                /\ thread'[p][g] = "fetched"
      <3>1. \A state : Hangup(p, g, state) => thread'[p][g] = state
        BY <1>s DEF Hangup
      <3>2. CASE FetchStale(p, g)
        BY <1>h, <3>1, <3>2 DEF FetchStale, FetchedRef
      <3>3. CASE ReadObjects(p, g)
        BY <1>h, <3>1, <3>3 DEF ReadObjects, FetchedRef
      <3>4. QED
        BY <1>4, <3>2, <3>3
    <2>2. QED
      BY <1>t, <2>1
  <1>5. ASSUME NEW p \in Operator, NEW g \in Host,
               \/ SendPack(p, g) \/ ReadPackReceived(p, g) \/ SendReapply(p, g)
               \/ ReadApply(p, g) \/ ReadEOF(p, g)
               \/ ConnectFails(p, g) \/ ConnectionLost(p, g)
        PROVE  Learns
    BY <1>5, <1>0, <1>h DEF SendPack, ReadPackReceived, SendReapply, ReadApply, ReadEOF,
         ConnectFails, ConnectionLost, storeVars, Receive
  <1>6. ASSUME NEW p \in Operator, NEW g \in Host, ReadApplied(p, g)
        PROVE  Learns
    BY <1>6, <1>t, <1>h, <1>s DEF ReadApplied, Hangup
  <1>7. QED
    BY <1>1, <1>2, <1>3, <1>4, <1>5, <1>6 DEF DriverSide, DriverFault, ThreadStep

(* Refs move to commits that were created.                                 *)
LEMMA NextKnown ==
    ASSUME AssertInv, [Next]_vars
    PROVE  KnownInv'
  <1>t. TypeOK /\ ProcessInv /\ CommandInv /\ ApplyInv /\ HostTypeOK
    BY DEF AssertInv, RefineInv, LockInv, TypeOK, AgentTypeOK
  <1>n. conn \in [Operator -> [Host -> Slot \cup {None}]] /\ None \notin Slot
    BY <1>t, ConstantsAssumption DEF TypeOK, DriverTypeOK, ThreadTypeOK
  <1>k. KnownInv /\ Created \subseteq Created'
    BY <1>t, CreatedStays DEF AssertInv
  <1>a. (\A s \in Slot : Live(s) => ahost[s] \in Host)
    BY <1>t DEF TypeOK, ClusterTypeOK, ProcessTypeOK, ProcessInv
  <1>1. ASSUME NEW s \in Slot, AgentStep(s) \/ AgentKilled(s), UNCHANGED driverVars
        PROVE  KnownInv'
    <2>1. Live(s) /\ \A t \in Slot \ {s} : outbox'[t] = outbox[t]
      BY <1>1, <1>t, AgentFrame
    <2>2. \A h \in Host : Known(current'[h])
      <3>1. \A h \in Host : current'[h] # current[h] =>
               current'[h] \in {current[ahost[s]], target[ahost[s]]}
        BY <1>1, <1>t, AgentAnswers DEF ApplyInv
      <3>2. QED
        BY <1>k, <1>a, <2>1, <3>1 DEF KnownInv, Known
    <2>3. \A h \in Host : Known(target'[h])
      <3>1. \A h \in Host : target'[h] # target[h] =>
               \/ target'[h] = current[ahost[s]]
               \/ Asked(s, "Deploy") /\ target'[h] = inbox[s].commit
        BY <1>1, <1>t, AgentAnswers DEF ApplyInv
      <3>2. Asked(s, "Deploy") => inbox[s].commit \in Created
        BY <2>1 DEF AssertInv, RequestInv, Answerable, Fits
      <3>3. QED
        BY <1>k, <1>a, <2>1, <3>1, <3>2 DEF KnownInv, Known
    <2>4. outbox'[s] # None /\ outbox'[s].type = "LockStale" => Known(outbox'[s].commit)
      BY <1>1, <1>t, <1>k, <1>a, <2>1, AgentAnswers DEF KnownInv
    <2>5. UNCHANGED <<tracking, actual>>
      BY <1>1 DEF driverVars, storeVars, threadVars
    <2>6. QED
      BY <1>k, <2>1, <2>2, <2>3, <2>4, <2>5 DEF KnownInv, Known
  <1>2. ASSUME NEW a \in Host, NEW b \in Host, Wipe(a) \/ Rename(a, b), UNCHANGED driverVars
        PROVE  KnownInv'
    <2>1. UNCHANGED <<tracking, actual, outbox>>
      BY <1>2 DEF Wipe, Rename, driverVars, storeVars, threadVars, pipeVars
    <2>2. \A h \in Host : Known(current'[h]) /\ Known(target'[h])
      BY <1>2, <1>t, <1>k DEF Wipe, Rename, Swap, HostTypeOK, KnownInv, Known
    <2>3. QED
      BY <1>k, <2>1, <2>2 DEF KnownInv, Known
  <1>3. CASE DriverSide
    <2>1. UNCHANGED hostVars
      BY <1>3, <1>t, ConnectFrame, ThreadFrame, OperatorFrame DEF DriverSide, DriverFault
    <2>2. \A s \in Slot :
             outbox'[s] # None /\ outbox'[s].type = "LockStale" => Known(outbox'[s].commit)
      BY <1>3, <1>t, <1>k, DriverReads DEF KnownInv
    <2>3. \A o \in Operator, h \in Host : Known(tracking'[o][h])
      <3>1. \A o \in Operator, h \in Host :
               cmd[o] = "deploy" /\ thread[o][h] # "none" => plan[o].commit \in Created
        BY DEF AssertInv, PlanInv, Fits
      <3>2. QED
        BY <1>3, <1>t, <1>k, <3>1, DriverLearns DEF KnownInv, Known
    <2>4. \A o \in Operator, h \in Host : Known(actual'[o][h])
      BY <1>3, <1>t, <1>k, <1>n, DriverLearns DEF KnownInv, Known, HasMessage, Got
    <2>5. QED
      BY <1>k, <2>1, <2>2, <2>3, <2>4 DEF KnownInv, Known, hostVars
  <1>4. CASE UNCHANGED vars
    BY <1>4, <1>k DEF KnownInv, Known, vars, pipeVars, hostVars, driverVars, storeVars, threadVars
  <1>5. QED
    BY <1>1, <1>2, <1>3, <1>4 DEF Next, HostSide
-----------------------------------------------------------------------------
(* A process that lives after a step lived before it, or was just started. *)
LEMMA Lives ==
    ASSUME TypeOK, ProcessInv, CommandInv, [Next]_vars, NEW s \in Slot, Live(s)'
    PROVE  \/ Live(s) /\ ahost'[s] = ahost[s]
           \/ Free(s) /\ outbox'[s] = None /\ (inbox'[s] = None \/ inbox'[s].type = "Lock")
  <1>1. ASSUME NEW t \in Slot, AgentStep(t) \/ AgentKilled(t)
        PROVE  Live(s) /\ ahost'[s] = ahost[s]
    BY <1>1, AgentFrame DEF Live
  <1>2. CASE UNCHANGED processVars
    BY <1>2 DEF processVars, Live
  <1>3. ASSUME NEW a \in Host, NEW b \in Host, Wipe(a) \/ Rename(a, b)
        PROVE  UNCHANGED processVars
    BY <1>3 DEF Wipe, Rename
  <1>4. ASSUME NEW o \in Operator, NEW h \in Host, Connect(o, h)
        PROVE  \/ Live(s) /\ ahost'[s] = ahost[s]
               \/ Free(s) /\ outbox'[s] = None /\ (inbox'[s] = None \/ inbox'[s].type = "Lock")
    <2>1. PICK t \in Slot :
             /\ Free(t) /\ outbox'[t] = None
             /\ inbox'[t] = None \/ inbox'[t] = LockRequest(plan[o].expected[h])
             /\ \A r \in Slot \ {t} : apc'[r] = apc[r] /\ ahost'[r] = ahost[r]
      BY <1>4, ConnectFrame
    <2>2. QED
      BY <2>1 DEF Live, LockRequest
  <1>5. ASSUME NEW o \in Operator, NEW h \in Host,
               ThreadStep(o, h) \/ ConnectFails(o, h) \/ ConnectionLost(o, h)
        PROVE  UNCHANGED processVars
    BY <1>5, ThreadFrame
  <1>6. ASSUME NEW o \in Operator, OperatorStep(o) \/ CommandStep(o) \/ DriverCrash(o)
        PROVE  UNCHANGED processVars
    BY <1>6, OperatorFrame
  <1>7. QED
    BY <1>1, <1>2, <1>3, <1>4, <1>5, <1>6 DEF Next, HostSide, DriverSide, DriverFault, vars

(* How a thread comes to be stale. *)
LEMMA StaleMoves ==
    ASSUME TypeOK, CommandInv, DriverSide, NEW o \in Operator, NEW h \in Host,
           thread'[o][h] = "stale"
    PROVE  \/ /\ thread[o][h] = "stale"
              /\ conn'[o][h] = conn[o][h] /\ actual'[o][h] = actual[o][h]
           \/ actual'[o][h] \in {current[h], None}
           \/ /\ HasMessage(o, h) /\ Got(o, h) = "LockStale"
              /\ conn'[o][h] = conn[o][h] /\ actual'[o][h] = outbox[conn[o][h]].commit
              /\ UNCHANGED processVars
  <1> DEFINE Stale ==
         \/ /\ thread[o][h] = "stale"
            /\ conn'[o][h] = conn[o][h] /\ actual'[o][h] = actual[o][h]
         \/ actual'[o][h] \in {current[h], None}
         \/ /\ HasMessage(o, h) /\ Got(o, h) = "LockStale"
            /\ conn'[o][h] = conn[o][h] /\ actual'[o][h] = outbox[conn[o][h]].commit
            /\ UNCHANGED processVars
  <1>t. /\ thread \in [Operator -> [Host -> ThreadState]]
        /\ conn \in [Operator -> [Host -> Slot \cup {None}]]
        /\ actual \in [Operator -> [Host -> OptCommit]]
    BY DEF TypeOK, DriverTypeOK, ThreadTypeOK
  <1>s. \A p \in Operator, g \in Host : \A state :
           thread' = [thread EXCEPT ![p][g] = state] => thread'[p][g] = state
    BY <1>t
  <1>h. \A p \in Operator, g \in Host : \A state : Hangup(p, g, state) =>
           /\ thread'[p][g] = state
           /\ actual' = actual
           /\ p # o \/ g # h => conn'[o][h] = conn[o][h]
    BY <1>t, <1>s DEF Hangup
  <1>m. ASSUME NEW p \in Operator, NEW g \in Host,
               Connect(p, g) \/ ThreadStep(p, g) \/ ConnectFails(p, g) \/ ConnectionLost(p, g),
               p # o \/ g # h
        PROVE  thread'[o][h] = thread[o][h]
    BY <1>m, ThreadMoves DEF Moves
  <1>1. ASSUME NEW p \in Operator, OperatorStep(p) \/ CommandStep(p) \/ DriverCrash(p)
        PROVE  Stale
    <2>1. CASE UNCHANGED threadVars
      BY <2>1 DEF threadVars
    <2>2. ASSUME NEW H, StartThreads(p, H), (conn' = conn /\ actual' = actual) \/ EndCommand(p)
          PROVE  Stale
      BY <2>2, <1>t DEF StartThreads, EndCommand
    <2>3. CASE ProceedDeploy(p) \/ ProceedReapply(p)
      BY <1>t, <2>3, ProceedThreads DEF ProceedDeploy, ProceedReapply, StartApplying
    <2>4. \A H : StartReapply(p, H) \/ StartSync(p, H) =>
             StartThreads(p, H) /\ conn' = conn /\ actual' = actual
      BY DEF StartReapply, StartSync, Select
    <2>5. QED
      BY <1>1, <2>1, <2>2, <2>3, <2>4 DEF OperatorStep, MakePlan, Confirm, Decline, CommandStep,
           RefuseReapply, StartFetching, Finish, DriverCrash, EndCommand
  <1>2. ASSUME NEW p \in Operator, NEW g \in Host, Connect(p, g)
        PROVE  Stale
    <2>1. CASE p # o \/ g # h
      <3>1. conn'[o][h] = conn[o][h] /\ actual'[o][h] = actual[o][h]
        BY <1>2, <1>t, <2>1 DEF Connect, ConnectAndLock, ConnectForSync
      <3>2. QED
        BY <1>2, <1>m, <2>1, <3>1
    <2>2. CASE p = o /\ g = h
      BY <1>2, <1>t, <1>s, <2>2 DEF Connect, ConnectAndLock, ConnectForSync
    <2>3. QED
      BY <2>1, <2>2
  <1>3. ASSUME NEW p \in Operator, NEW g \in Host, ReadLock(p, g)
        PROVE  Stale
    <2>1. CASE p # o \/ g # h
      <3>1. conn'[o][h] = conn[o][h] /\ actual'[o][h] = actual[o][h]
        BY <1>3, <1>t, <1>h, <2>1 DEF ReadLock, Receive
      <3>2. QED
        BY <1>3, <1>m, <2>1, <3>1 DEF ThreadStep
    <2>2. CASE p = o /\ g = h
      BY <1>3, <1>t, <1>h, <1>s, <2>2 DEF ReadLock, Receive
    <2>3. QED
      BY <2>1, <2>2
  <1>4. ASSUME NEW p \in Operator, NEW g \in Host, ThreadStep(p, g), ~ReadLock(p, g)
        PROVE  Stale
    <2>1. actual' = actual
      BY <1>4, <1>h DEF ThreadStep, FetchStale, ReadObjects, SendPack, ReadPackReceived,
           SendReapply, ReadApply, Receive, ReadApplied, ReadEOF
    <2>2. CASE p # o \/ g # h
      <3>1. conn'[o][h] = conn[o][h]
        BY <1>4, <1>t, <1>h, <2>2 DEF ThreadStep, FetchStale, ReadObjects, SendPack,
             ReadPackReceived, SendReapply, ReadApply, Receive, ReadApplied, ReadEOF
      <3>2. QED
        BY <1>4, <1>m, <2>1, <2>2, <3>1
    <2>3. CASE p = o /\ g = h
      BY <1>4, <1>t, <1>h, <1>s, <2>3 DEF ThreadStep, FetchStale, ReadObjects, SendPack,
         ReadPackReceived, SendReapply, ReadApply, Receive, ReadApplied, ReadEOF, LostState
    <2>4. QED
      BY <2>2, <2>3
  <1>5. ASSUME NEW p \in Operator, NEW g \in Host, ConnectFails(p, g) \/ ConnectionLost(p, g)
        PROVE  Stale
    <2>1. CASE p # o \/ g # h
      <3>1. conn'[o][h] = conn[o][h] /\ actual'[o][h] = actual[o][h]
        BY <1>5, <1>t, <2>1 DEF ConnectFails, ConnectionLost
      <3>2. QED
        BY <1>5, <1>m, <2>1, <3>1
    <2>2. CASE p = o /\ g = h
      BY <1>5, <1>t, <1>s, <2>2 DEF ConnectFails, ConnectionLost, LostState
    <2>3. QED
      BY <2>1, <2>2
  <1>6. QED
    BY <1>1, <1>2, <1>3, <1>4, <1>5 DEF DriverSide, DriverFault

(* A host does not lose its commit between being found stale and being     *)
(* asked for its objects, while the process that will be asked lives.      *)
LEMMA NextStale ==
    ASSUME AssertInv, [Next]_vars
    PROVE  StaleInv'
  <1>t. TypeOK /\ ProcessInv /\ CommandInv /\ ConnInv /\ StaleInv
    BY DEF AssertInv, RefineInv, LockInv
  <1>n. /\ conn \in [Operator -> [Host -> Slot \cup {None}]] /\ None \notin Slot
        /\ \A s \in Slot : Live(s) => ahost[s] \in Host
    BY <1>t, ConstantsAssumption
       DEF TypeOK, ClusterTypeOK, DriverTypeOK, ThreadTypeOK, ProcessTypeOK, ProcessInv
  <1>k. \A s \in Slot : Live(s) /\ current[ahost[s]] # None => current'[ahost[s]] # None
    BY <1>t, CurrentKept
  <1>l. \A s \in Slot : apc'[s] # "gone" /\ reader[s] => Live(s) /\ ahost'[s] = ahost[s]
    BY <1>t, Lives DEF Free, Live
  <1>d. DriverSide => UNCHANGED hostVars
    BY <1>t, ConnectFrame, ThreadFrame, OperatorFrame DEF DriverSide, DriverFault
  <1>1. ASSUME NEW s \in Slot, Live(s)', outbox'[s] # None,
               outbox'[s].type = "LockStale", outbox'[s].commit # None
        PROVE  current'[ahost'[s]] # None
    <2>1. Live(s) /\ ahost'[s] = ahost[s]
      BY <1>1, <1>t, Lives
    <2>2. CASE outbox'[s] = outbox[s]
      BY <1>1, <1>t, <1>k, <2>1, <2>2 DEF StaleInv
    <2>3. CASE outbox'[s] # outbox[s]
      <3>1. ~DriverSide
        BY <1>1, <1>t, <2>3, DriverReads
      <3>2. PICK t \in Slot : AgentStep(t) \/ AgentKilled(t)
        BY <2>3, <3>1 DEF Next, HostSide, Wipe, Rename, vars, pipeVars
      <3>3. t = s
        BY <1>t, <2>3, <3>2, AgentFrame
      <3>4. outbox'[s].commit = current[ahost[s]] /\ UNCHANGED hostVars
        BY <1>1, <1>t, <2>3, <3>2, <3>3, AgentAnswers
      <3>5. QED
        BY <1>1, <2>1, <3>4 DEF hostVars
    <2>4. QED
      BY <2>2, <2>3
  <1>2. ASSUME NEW o \in Operator, NEW h \in Host, thread'[o][h] = "stale",
               conn'[o][h] # None, Live(conn[o][h])', actual'[o][h] # None
        PROVE  current'[h] # None
    <2>1. CASE DriverSide
      <3>1. CASE thread[o][h] = "stale" /\ conn'[o][h] = conn[o][h] /\ actual'[o][h] = actual[o][h]
        <4>1. conn[o][h] \in Slot /\ reader[conn[o][h]] /\ apc'[conn[o][h]] # "gone"
          BY <1>2, <1>t, <1>n, <3>1 DEF ConnInv, Live
        <4>2. Live(conn[o][h])
          BY <1>l, <4>1
        <4>3. QED
          BY <1>2, <1>d, <1>t, <2>1, <3>1, <4>2 DEF StaleInv, hostVars
      <3>2. CASE actual'[o][h] \in {current[h], None}
        BY <1>2, <1>d, <2>1, <3>2 DEF hostVars
      <3>3. CASE /\ HasMessage(o, h) /\ Got(o, h) = "LockStale"
                 /\ conn'[o][h] = conn[o][h] /\ actual'[o][h] = outbox[conn[o][h]].commit
                 /\ UNCHANGED processVars
        <4>1. conn[o][h] \in Slot /\ Live(conn[o][h]) /\ ahost[conn[o][h]] = h
          BY <1>2, <1>t, <1>n, <3>3 DEF ConnInv, Live, processVars, HasMessage
        <4>2. current[h] # None
          BY <1>2, <1>t, <3>3, <4>1 DEF StaleInv, HasMessage, Got
        <4>3. QED
          BY <1>d, <2>1, <4>2 DEF hostVars
      <3>4. QED
        BY <1>2, <1>t, <2>1, <3>1, <3>2, <3>3, StaleMoves
    <2>2. CASE UNCHANGED driverVars
      <3>1. thread[o][h] = "stale" /\ conn'[o][h] = conn[o][h] /\ actual'[o][h] = actual[o][h]
        BY <1>2, <2>2 DEF driverVars, threadVars
      <3>2. conn[o][h] \in Slot /\ reader[conn[o][h]] /\ apc'[conn[o][h]] # "gone"
        BY <1>2, <1>t, <1>n, <3>1 DEF ConnInv, Live
      <3>3. Live(conn[o][h]) /\ ahost[conn[o][h]] = h
        BY <1>l, <1>n, <1>t, <3>1, <3>2 DEF ConnInv
      <3>4. current[h] # None
        BY <1>2, <1>t, <3>1, <3>3 DEF StaleInv
      <3>5. QED
        BY <1>k, <3>2, <3>3, <3>4
    <2>3. QED
      BY <2>1, <2>2 DEF Next, HostSide, vars
  <1>3. QED
    BY <1>1, <1>2 DEF StaleInv
-----------------------------------------------------------------------------
(* A request that waits stays answerable as long as its session keeps the  *)
(* lock and the host stays where it is.                                    *)
LEMMA StaysAnswerable ==
    ASSUME AssertInv, [Next]_vars, NEW s \in Slot, Live(s),
           inbox'[s] = inbox[s] \/ inbox'[s] = None,
           ahost'[s] = ahost[s],
           Asked(s, "Deploy") \/ Asked(s, "Reapply") => apc'[s] = apc[s],
           Asked(s, "Deploy") => current'[ahost[s]] = current[ahost[s]]
    PROVE  Answerable(s)'
  <1>t. /\ TypeOK /\ ProcessInv /\ CommandInv /\ ProcessTypeOK /\ PipeTypeOK /\ HostTypeOK
        /\ Answerable(s)
    BY DEF AssertInv, RefineInv, LockInv, TypeOK, ClusterTypeOK, AgentTypeOK, RequestInv
  <1>1. Asked(s, "RequestObjects") => current'[ahost[s]] # None
    BY <1>t, CurrentKept DEF Answerable
  <1>2. Asked(s, "Deploy") => Fits(current[ahost[s]], inbox[s].commit, inbox[s].safe, ahost[s])
    BY <1>t DEF Answerable
  <1>3. Asked(s, "Deploy") =>
          \A b, c, w, g : /\ b = current[ahost[s]] /\ c = inbox[s].commit
                          /\ w = inbox[s].safe /\ g = ahost[s]
                          => Fits(b, c, w, g)'
    <2>1. current[ahost[s]] \in OptCommit /\ ahost[s] \in Host
      BY <1>t DEF HostTypeOK, ProcessInv, ProcessTypeOK
    <2>2. inbox[s] # None => inbox[s].commit \in OptCommit /\ inbox[s].safe \in BOOLEAN
      BY <1>t DEF PipeTypeOK, Request
    <2>3. QED
      BY <1>t, <1>2, <2>1, <2>2, FitsStays DEF AssertInv, Asked
  <1>4. QED
    BY <1>t, <1>1, <1>3 DEF Answerable, Asked, Fits

(* What a thread writes to its agent is a request the agent can answer:    *)
(* the lock pins the host to the commit the plan expects, and the plan     *)
(* fits that commit.                                                       *)
LEMMA ThreadAsks ==
    ASSUME AssertInv, NEW o \in Operator, NEW h \in Host, [Next]_vars,
           ThreadStep(o, h) \/ ConnectFails(o, h) \/ ConnectionLost(o, h),
           NEW s \in Slot, Live(s)
    PROVE  Answerable(s)'
  <1>t. /\ TypeOK /\ CommandInv /\ ConnInv /\ HandshakeInv /\ StaleInv /\ PlanInv
        /\ PipeTypeOK /\ CommandTypeOK
    BY DEF AssertInv, RefineInv, LockInv, TypeOK, ClusterTypeOK, DriverTypeOK
  <1>f. UNCHANGED <<processVars, hostVars>> /\ (s # conn[o][h] => inbox'[s] = inbox[s])
    BY <1>t, ThreadFrame
  <1>u. apc'[s] = apc[s] /\ ahost'[s] = ahost[s] /\ current' = current
    BY <1>f DEF processVars, hostVars
  <1>0. CASE inbox'[s] = inbox[s] \/ inbox'[s] = None
    BY <1>0, <1>u, StaysAnswerable
  <1>s. ASSUME NEW r, SendTo(conn[o][h], r), s = conn[o][h]
        PROVE  inbox'[s] = r
    BY <1>s, <1>t DEF SendTo, PipeTypeOK
  <1>1. CASE s = conn[o][h] /\ FetchStale(o, h) /\ ~NothingToFetch(o, actual[o][h])
    <2>1. inbox'[s] = ObjectsRequest(plan[o].expected[h])
      BY <1>1, <1>s DEF FetchStale
    <2>2. current[h] # None /\ ahost[s] = h
      <3>1. s # None
        BY ConstantsAssumption
      <3>2. QED
        BY <1>1, <1>t, <3>1 DEF FetchStale, NothingToFetch, StaleInv, ConnInv
    <2>3. QED
      BY <1>u, <2>1, <2>2 DEF Answerable, Asked, ObjectsRequest
  <1>2. CASE s = conn[o][h] /\ SendPack(o, h)
    <2>1. inbox'[s].type = "ReceivePack"
      BY <1>2, <1>s DEF SendPack, ReceivePackRequest
    <2>2. QED
      BY <2>1 DEF Answerable, Asked
  <1>3. CASE s = conn[o][h] /\ ReadPackReceived(o, h) /\ Got(o, h) = "PackReceived"
    <2> DEFINE b == plan[o].expected[h]
               c == plan[o].commit
               w == plan[o].safe[h]
    <2>1. inbox'[s] = ApplyDeploy(c, w)
      BY <1>3, <1>s DEF ReadPackReceived, SendApply
    <2>2. apc[s] = "locked" /\ current[h] = b /\ ahost[s] = h
      <3>1. s # None
        BY ConstantsAssumption
      <3>2. QED
        BY <1>3, <1>t, <3>1
           DEF ReadPackReceived, HandshakeInv, Handshake, Pinned, ConnInv
    <2>3. Fits(b, c, w, h)
      BY <1>3, <1>t DEF ReadPackReceived, CommandInv, PlanInv
    <2>4. b \in OptCommit /\ c \in OptCommit /\ w \in BOOLEAN
      BY <1>t, Fields DEF CommandTypeOK
    <2>5. \A x, y, z : x = b /\ y = c /\ z = w => Fits(x, y, z, h)'
      BY <1>t, <2>3, <2>4, FitsStays DEF AssertInv
    <2> HIDE DEF b, c, w
    <2>6. QED
      BY <1>u, <2>1, <2>2, <2>5 DEF Answerable, Asked, ApplyDeploy
  <1>4. CASE s = conn[o][h] /\ SendReapply(o, h)
    <2>1. inbox'[s].type = "Reapply"
      BY <1>4, <1>s DEF SendReapply, SendApply, ApplyReapply
    <2>2. apc[s] = "locked"
      <3>1. s # None
        BY ConstantsAssumption
      <3>2. QED
        BY <1>4, <1>t, <3>1 DEF SendReapply, HandshakeInv, Handshake, Pinned
    <2>3. QED
      BY <1>u, <2>1, <2>2 DEF Answerable, Asked
  <1>5. CASE s = conn[o][h] /\ ~(FetchStale(o, h) /\ ~NothingToFetch(o, actual[o][h]))
             /\ ~SendPack(o, h) /\ ~(ReadPackReceived(o, h) /\ Got(o, h) = "PackReceived")
             /\ ~SendReapply(o, h)
    <2>1. inbox'[s] = inbox[s] \/ inbox'[s] = None
      BY <1>5, <1>t DEF ThreadStep, ReadLock, Receive, Hangup, FetchStale, ReadObjects,
         ReadPackReceived, ReadApply, ReadApplied, ReadEOF, ConnectFails, ConnectionLost,
         pipeVars, PipeTypeOK
    <2>2. QED
      BY <1>0, <2>1
  <1>6. QED
    BY <1>0, <1>1, <1>2, <1>3, <1>4, <1>5, <1>f

(* Every step keeps the requests answerable: an agent takes its own up or  *)
(* leaves it until its apply ends, and moves no ref under another session. *)
LEMMA NextRequest ==
    ASSUME AssertInv, [Next]_vars
    PROVE  RequestInv'
  <1>t. /\ TypeOK /\ ProcessInv /\ CommandInv /\ LockExclusive /\ RequestInv
        /\ ProcessTypeOK /\ HostTypeOK
    BY DEF AssertInv, RefineInv, LockInv, TypeOK, ClusterTypeOK, AgentTypeOK
  <1> SUFFICES ASSUME NEW s \in Slot, Live(s)'
               PROVE  Answerable(s)'
    BY DEF RequestInv
  <1>1. CASE ~Live(s)
    <2>1. inbox'[s] = None \/ inbox'[s].type = "Lock"
      BY <1>t, <1>1, Lives
    <2>2. QED
      BY <2>1 DEF Answerable, Asked
  <1>2. CASE Live(s)
    <2> DEFINE kept == ahost'[s] = ahost[s] /\ apc'[s] = apc[s] /\ inbox'[s] = inbox[s]
    <2>1. ahost[s] \in Host /\ Answerable(s)
      BY <1>2, <1>t DEF ProcessInv, ProcessTypeOK, RequestInv
    <2>2. CASE kept /\ current'[ahost[s]] = current[ahost[s]]
      BY <1>2, <2>2, StaysAnswerable
    <2>3. ASSUME NEW t \in Slot, AgentStep(t) \/ AgentKilled(t)
          PROVE  Answerable(s)'
      <3>1. CASE t = s
        <4>1. CASE inbox'[s] = None
          BY <4>1 DEF Answerable, Asked
        <4>2. CASE inbox'[s] # None
          <5>1. inbox'[s] = inbox[s] /\ apc[s] \in {"modify", "record", "rollback"}
            BY <1>t, <2>3, <3>1, <4>2, AgentAnswers
          <5>2. ~Asked(s, "Deploy") /\ ~Asked(s, "Reapply")
            BY <2>1, <5>1 DEF Answerable
          <5>3. ahost'[s] = ahost[s]
            BY <1>t, <2>3, <3>1, AgentFrame
          <5>4. QED
            BY <1>2, <5>1, <5>2, <5>3, StaysAnswerable
        <4>3. QED
          BY <4>1, <4>2
      <3>2. CASE t # s
        <4>1. kept
          BY <1>t, <2>3, <3>2, AgentFrame
        <4>2. Asked(s, "Deploy") => current'[ahost[s]] = current[ahost[s]]
          <5>1. SUFFICES ASSUME Asked(s, "Deploy"), current'[ahost[s]] # current[ahost[s]]
                         PROVE  FALSE
            OBVIOUS
          <5>2. Holding(s)
            BY <2>1, <5>1 DEF Answerable, Holding
          <5>3. Holding(t) /\ ahost[t] = ahost[s]
            BY <1>t, <2>1, <2>3, <5>1, AgentRefs
          <5>4. QED
            BY <1>t, <3>2, <5>2, <5>3 DEF LockExclusive
        <4>3. QED
          BY <1>2, <4>1, <4>2, StaysAnswerable
      <3>3. QED
        BY <3>1, <3>2
    <2>4. ASSUME NEW a \in Host, NEW b \in Host, Wipe(a) \/ Rename(a, b)
          PROVE  Answerable(s)'
      <3>1. kept
        BY <2>4 DEF Wipe, Rename, processVars, pipeVars
      <3>2. current'[ahost[s]] = current[ahost[s]]
        BY <1>t, <2>1, <2>4 DEF Wipe, Rename, Quiet, Swap, HostTypeOK
      <3>3. QED
        BY <2>2, <3>1, <3>2
    <2>5. ASSUME NEW o \in Operator, NEW h \in Host, Connect(o, h)
          PROVE  Answerable(s)'
      <3>1. kept /\ UNCHANGED hostVars
        <4>1. PICK t \in Slot :
                 /\ Free(t)
                 /\ \A r \in Slot \ {t} : /\ apc'[r] = apc[r] /\ ahost'[r] = ahost[r]
                                          /\ inbox'[r] = inbox[r]
          BY <1>t, <2>5, ConnectFrame
        <4>2. s # t
          BY <1>2, <4>1 DEF Free
        <4>3. QED
          BY <1>t, <2>5, <4>1, <4>2, ConnectFrame
      <3>2. QED
        BY <2>2, <3>1 DEF hostVars
    <2>6. ASSUME NEW o \in Operator, NEW h \in Host,
                 ThreadStep(o, h) \/ ConnectFails(o, h) \/ ConnectionLost(o, h)
          PROVE  Answerable(s)'
      BY <1>2, <2>6, ThreadAsks
    <2>7. ASSUME NEW o \in Operator, OperatorStep(o) \/ CommandStep(o) \/ DriverCrash(o)
          PROVE  Answerable(s)'
      <3>1. kept /\ UNCHANGED hostVars
        BY <1>t, <2>7, OperatorFrame DEF processVars
      <3>2. QED
        BY <2>2, <3>1 DEF hostVars
    <2>8. CASE UNCHANGED vars
      BY <2>2, <2>8 DEF vars, processVars, pipeVars, hostVars
    <2>9. QED
      BY <2>3, <2>4, <2>5, <2>6, <2>7, <2>8 DEF Next, HostSide, DriverSide, DriverFault
  <1>3. QED
    BY <1>1, <1>2
-----------------------------------------------------------------------------
LEMMA InitAssertInv == Init => AssertInv
  <1> SUFFICES ASSUME Init PROVE AssertInv
    OBVIOUS
  <1>1. RefineInv
    BY InitImplements
  <1>2. GraphInv /\ KnownInv
    BY DEF Init, ClusterInit, AgentInit, DriverInit, GraphInv, Ordered, KnownInv, Known
  <1>3. PlanInv /\ StaleInv /\ RequestInv
    BY DEF Init, ClusterInit, DriverInit, PlanInv, StaleInv, RequestInv, Live
  <1>4. QED
    BY <1>1, <1>2, <1>3 DEF AssertInv

LEMMA NextAssertInv == AssertInv /\ [Next]_vars => AssertInv'
  <1> SUFFICES ASSUME AssertInv, [Next]_vars PROVE AssertInv'
    OBVIOUS
  <1>1. TypeOK /\ CommandInv
    BY DEF AssertInv, RefineInv, LockInv
  <1>2. RefineInv'
    BY NextRefineInv DEF AssertInv
  <1>3. GraphInv' /\ PlanInv'
    BY <1>1, NextGraph, NextPlan DEF AssertInv
  <1>4. KnownInv' /\ StaleInv' /\ RequestInv'
    BY NextKnown, NextStale, NextRequest
  <1>5. QED
    BY <1>2, <1>3, <1>4 DEF AssertInv

(* The assertions of handle_request and prepare_apply in deploy mode never *)
(* fail.  An Apply finds the session locked, its target descends from      *)
(* current, both sides agree on rollback safety, and RequestObjects finds  *)
(* a commit, for any number of operators, hosts and processes, whatever is *)
(* killed, lost, wiped or renamed in between.                              *)
THEOREM AssertionsHold == Spec => []DeployNeverPanics
  <1>1. AssertInv => DeployNeverPanics
    BY DEF AssertInv, RequestInv, Answerable, DeployNeverPanics, Panics, DeployAssertions, Fits,
           Live, Asked
  <1>2. QED
    BY <1>1, InitAssertInv, NextAssertInv, PTL DEF Spec
-----------------------------------------------------------------------------
(* The trees of the configuration are functions on the apps.               *)
ConfigType ==
    \A g \in Config, h \in Host : h \in DOMAIN TreeOf[g] =>
        TreeOf[g][h] = [app \in DOMAIN TreeOf[g][h] |-> TreeOf[g][h][app]]

(* `status`, which compares app trees, calls a host up to date exactly if  *)
(* it has been deployed to and `deploy`, which compares host trees and     *)
(* takes hosts without a tracking ref too, would leave it out of its plan. *)
LEMMA StatusLeavesOut ==
    ASSUME GraphTypeOK, StoreTypeOK, ConfigType,
           NEW o \in Operator, NEW g \in Config, NEW h \in DOMAIN TreeOf[g],
           Tracked(o, h) # None => Tracked(o, h) \in Created
    PROVE  HostStatus(o, g, h) = "UpToDate" <=> h \notin Changed(o, g, {h})
  <1> DEFINE t == Tracked(o, h)
  <1>1. h \in Host
    BY ConstantsAssumption
  <1>2. CASE t = None
    BY <1>2 DEF HostStatus, Changed
  <1>3. CASE t # None
    <2>1. t \in Created /\ HasEntry(t, h)
      BY <1>3 DEF Tracked
    <2>2. tree[t] \in Config /\ h \in DOMAIN TreeOf[tree[t]]
      BY <2>1 DEF Created, GraphTypeOK, HasEntry
    <2>3. HostApps(t, h) = TreeOf[tree[t]][h]
      BY <1>3, <2>1 DEF HostApps
    <2>4. DOMAIN DiffApps(HostApps(t, h), TreeOf[g][h]) = {} <=> HostApps(t, h) = TreeOf[g][h]
      <3> DEFINE deployed == TreeOf[tree[t]][h]
                 wanted == TreeOf[g][h]
      <3>1. /\ deployed = [app \in DOMAIN deployed |-> deployed[app]]
            /\ wanted = [app \in DOMAIN wanted |-> wanted[app]]
        BY <1>1, <2>2 DEF ConfigType
      <3> HIDE DEF deployed, wanted
      <3>2. DOMAIN DiffApps(deployed, wanted) = {} <=> deployed = wanted
        BY <3>1, NoDiffs
      <3>3. QED
        BY <2>3, <3>2 DEF deployed, wanted
    <2>5. HostStatus(o, g, h) = "UpToDate" <=> HostApps(t, h) = TreeOf[g][h]
      <3> HIDE DEF t
      <3>1. HostStatus(o, g, h) = IF t = None THEN "NewHost"
               ELSE IF DOMAIN DiffApps(HostApps(t, h), TreeOf[g][h]) = {} THEN "UpToDate"
               ELSE "HasChanges"
        BY DEF HostStatus, t
      <3>2. QED
        BY <1>3, <2>4, <3>1
    <2>6. h \in Changed(o, g, {h}) <=> TreeOf[tree[t]][h] # TreeOf[g][h]
      <3>1. Changed(o, g, {h}) = {x \in {h} : \/ Tracked(o, x) = None
                                              \/ TreeOf[tree[Tracked(o, x)]][x] # TreeOf[g][x]}
        BY DEF Changed
      <3>2. h \in Changed(o, g, {h}) <=>
               Tracked(o, h) = None \/ TreeOf[tree[Tracked(o, h)]][h] # TreeOf[g][h]
        BY <3>1
      <3>3. QED
        BY <1>3, <3>2
    <2>7. QED
      BY <2>3, <2>5, <2>6
  <1>4. QED
    BY <1>2, <1>3

(* ... which is what it has in every state the operators can get to.       *)
THEOREM StatusTellsPlan ==
    ASSUME ConfigType
    PROVE  Spec => [](\A o \in Operator, g \in Config : \A h \in DOMAIN TreeOf[g] :
                         HostStatus(o, g, h) = "UpToDate" <=> h \notin Changed(o, g, {h}))
  <1>1. AssertInv => \A o \in Operator, g \in Config : \A h \in DOMAIN TreeOf[g] :
                        HostStatus(o, g, h) = "UpToDate" <=> h \notin Changed(o, g, {h})
    <2> SUFFICES ASSUME AssertInv, NEW o \in Operator, NEW g \in Config,
                        NEW h \in DOMAIN TreeOf[g]
                 PROVE  HostStatus(o, g, h) = "UpToDate" <=> h \notin Changed(o, g, {h})
      OBVIOUS
    <2>1. GraphTypeOK /\ StoreTypeOK
      BY DEF AssertInv, RefineInv, LockInv, TypeOK, ClusterTypeOK, DriverTypeOK
    <2>2. Tracked(o, h) # None => Tracked(o, h) \in Created
      BY ConstantsAssumption DEF AssertInv, KnownInv, Known, Tracked
    <2>3. QED
      BY <2>1, <2>2, StatusLeavesOut
  <1>2. QED
    BY <1>1, InitAssertInv, NextAssertInv, PTL DEF Spec
-----------------------------------------------------------------------------
(* How far the apply of a session is, and that of a host whose sessions'   *)
(* states and hosts are pc and of.                                         *)
StageOf(state) ==
    CASE state = "modify"   -> "going"
      [] state = "record"   -> "there"
      [] state = "rollback" -> "back"
      [] OTHER              -> "rest"

AtWork == {"modify", "record", "rollback"}

ReachedBy(pc, of, h) ==
    LET doing(state) == \E s \in Slot : pc[s] = state /\ of[s] = h
    IN  CASE doing("modify")   -> "going"
          [] doing("record")   -> "there"
          [] doing("rollback") -> "back"
          [] OTHER             -> "rest"

Reached == [h \in Host |-> Progress(h)]

LEMMA ReachedIs == \A h : /\ Progress(h) = ReachedBy(apc, ahost, h)
                          /\ Progress(h)' = ReachedBy(apc', ahost', h)
  BY DEF Progress, ReachedBy

(* A host is where the only session is that may work on it ...             *)
LEMMA OneTells ==
    ASSUME NEW pc, NEW of, NEW s \in Slot, NEW h, of[s] = h,
           \A t \in Slot \ {s} : of[t] = h => pc[t] \notin AtWork
    PROVE  ReachedBy(pc, of, h) = StageOf(pc[s])
  <1>1. \A state \in AtWork : (\E t \in Slot : pc[t] = state /\ of[t] = h) <=> pc[s] = state
    OBVIOUS
  <1>2. QED
    BY <1>1 DEF ReachedBy, StageOf, AtWork

(* ... and at rest if there is none.                                       *)
LEMMA NobodyTells ==
    ASSUME NEW pc, NEW of, NEW h, \A t \in Slot : of[t] = h => pc[t] \notin AtWork
    PROVE  ReachedBy(pc, of, h) = "rest"
  BY DEF ReachedBy, AtWork

(* A host is not affected by what other hosts' sessions do, and by what a  *)
(* session does that is not at work.                                       *)
LEMMA OthersTell ==
    ASSUME NEW h, \A t \in Slot : \/ apc'[t] = apc[t] /\ ahost'[t] = ahost[t]
                                  \/ apc[t] \notin AtWork /\ apc'[t] \notin AtWork
                                  \/ ahost[t] # h /\ ahost'[t] # h
    PROVE  Progress(h)' = Progress(h)
  <1>1. \A state \in AtWork : (\E t \in Slot : apc'[t] = state /\ ahost'[t] = h)
                                <=> (\E t \in Slot : apc[t] = state /\ ahost[t] = h)
    OBVIOUS
  <1>2. ReachedBy(apc', ahost', h) = ReachedBy(apc, ahost, h)
    BY <1>1 DEF ReachedBy, AtWork
  <1>3. QED
    BY <1>2, ReachedIs

(* A session that holds the lock takes its host to the next stage.         *)
LEMMA HolderMoves ==
    ASSUME LockInv, LockInv', NEW s \in Slot, AgentStep(s) \/ AgentKilled(s), Holding(s),
           NEW h \in Host, ahost[s] = h
    PROVE  /\ Reached[h] = StageOf(apc[s])
           /\ Reached' = [Reached EXCEPT ![h] = StageOf(apc'[s])]
  <1>t. TypeOK /\ ProcessInv /\ LockExclusive /\ Live(s) /\ None \notin Host
    BY ConstantsAssumption, AgentFrame DEF LockInv
  <1>f. /\ \A t \in Slot \ {s} : apc'[t] = apc[t] /\ ahost'[t] = ahost[t]
        /\ Live(s)' => ahost'[s] = h
        /\ ~Live(s)' => ahost'[s] = None
    <2>1. ProcessInv'
      BY DEF LockInv
    <2>2. QED
      BY <1>t, <2>1, AgentFrame DEF ProcessInv, Live
  <1>o. \A t \in Slot \ {s} : ahost[t] = h => apc[t] \notin AtWork
    BY <1>t DEF LockExclusive, Holding, AtWork
  <1>1. Progress(h) = StageOf(apc[s])
    BY <1>o, OneTells, ReachedIs
  <1>p. \A t \in Slot \ {s} : ahost'[t] = h => apc'[t] \notin AtWork
    BY <1>f, <1>o
  <1>2. Progress(h)' = StageOf(apc'[s])
    <2>1. CASE Live(s)'
      <3>1. ahost'[s] = h
        BY <1>f, <2>1
      <3>2. ReachedBy(apc', ahost', h) = StageOf(apc'[s])
        BY <1>p, <3>1, OneTells
      <3>3. QED
        BY <3>2, ReachedIs
    <2>2. CASE ~Live(s)'
      <3>1. ReachedBy(apc', ahost', h) = "rest"
        <4>1. \A t \in Slot : ahost'[t] = h => apc'[t] \notin AtWork
          BY <1>f, <1>p, <1>t, <2>2
        <4>2. QED
          BY <4>1, NobodyTells
      <3>2. StageOf(apc'[s]) = "rest"
        BY <2>2 DEF StageOf, Live
      <3>3. QED
        BY <3>1, <3>2, ReachedIs
    <2>3. QED
      BY <2>1, <2>2
  <1>3. \A g \in Host \ {h} : Progress(g)' = Progress(g)
    <2> SUFFICES ASSUME NEW g \in Host \ {h} PROVE Progress(g)' = Progress(g)
      OBVIOUS
    <2>1. ahost[s] # g /\ ahost'[s] # g
      BY <1>f, <1>t
    <2>2. QED
      BY <1>f, <2>1, OthersTell
  <1>4. Reached' = [Reached EXCEPT ![h] = StageOf(apc'[s])]
    BY <1>2, <1>3 DEF Reached
  <1>5. QED
    BY <1>1, <1>4 DEF Reached

(* What an agent's step is to the apply on its host.                       *)
LEMMA AgentAttempts ==
    ASSUME AssertInv, LockInv', NEW s \in Slot, AgentStep(s) \/ AgentKilled(s)
    PROVE  [Applies!Next]_Applies!vars
  <1>t. /\ LockInv /\ ApplyInv /\ TypeOK /\ ProcessInv /\ Live(s)
        /\ ProcessTypeOK /\ HostTypeOK /\ JobTypeOK
    BY AgentFrame DEF AssertInv, RefineInv, LockInv, TypeOK, ClusterTypeOK, AgentTypeOK
  <1>h. PICK h \in Host : h = ahost[s]
    BY <1>t DEF ProcessInv, ProcessTypeOK
  <1>m. Holding(s) => /\ Reached[h] = StageOf(apc[s])
                      /\ Reached' = [Reached EXCEPT ![h] = StageOf(apc'[s])]
    BY <1>t, <1>h, HolderMoves
  <1>s. ASSUME UNCHANGED <<current, target>>, Reached' = Reached
        PROVE  UNCHANGED Applies!vars
    BY <1>s DEF Applies!vars, Reached
  <1>n. ASSUME UNCHANGED <<current, target>>,
               apc'[s] = apc[s] \/ (apc[s] \notin AtWork /\ apc'[s] \notin AtWork)
        PROVE  UNCHANGED Applies!vars
    <2>1. \A t \in Slot : \/ apc'[t] = apc[t] /\ ahost'[t] = ahost[t]
                          \/ apc[t] \notin AtWork /\ apc'[t] \notin AtWork
      <3>1. \A t \in Slot \ {s} : apc'[t] = apc[t] /\ ahost'[t] = ahost[t]
        BY <1>t, AgentFrame
      <3>2. Live(s)' => ahost'[s] = ahost[s]
        BY <1>t, AgentFrame
      <3>3. QED
        BY <1>n, <1>t, <3>1, <3>2 DEF Live, AtWork
    <2>2. \A g \in Host : Progress(g)' = Progress(g)
      BY <2>1, OthersTell
    <2>3. Reached' = Reached
      BY <2>2 DEF Reached
    <2>4. QED
      BY <1>n, <1>s, <2>3
  <1>e. ASSUME UNCHANGED <<current, target>>, Holding(s), StageOf(apc'[s]) = "rest"
        PROVE  Applies!Next
    <2>1. StageOf(apc[s]) \in Applies!Stage
      BY DEF StageOf, Applies!Stage
    <2>2. Applies!Stop(h)
      BY <1>e, <1>m, <2>1 DEF Applies!Stop, Applies!Moves, Reached
    <2>3. QED
      BY <2>2 DEF Applies!Next
  <1>1. CASE HandleLock(s)
    <2>1. UNCHANGED <<current, target>> /\ apc[s] \notin AtWork /\ apc'[s] \notin AtWork
      BY <1>1, <1>t DEF HandleLock, hostVars, ProcessTypeOK, AtWork
    <2>2. QED
      BY <1>n, <2>1
  <1>2. CASE HandleReceivePack(s) \/ HandleRequestObjects(s) \/ PreApplyError(s)
             \/ PrepareUnresolved(s)
    <2>1. UNCHANGED <<current, target>> /\ apc' = apc
      BY <1>2 DEF HandleReceivePack, HandleRequestObjects, PreApplyError, PrepareUnresolved,
                  processVars, hostVars
    <2>2. QED
      BY <1>n, <2>1
  <1>3. CASE PrepareDeploy(s) \/ PrepareReapply(s)
    <2> DEFINE c == inbox[s].commit
    <2>1. /\ c \in Commit /\ Holding(s) /\ apc[s] = "locked" /\ apc'[s] = "modify"
          /\ current' = current
      BY <1>3, <1>t DEF PrepareDeploy, PrepareReapply, StartJob, ProcessInv, Holding, ProcessTypeOK
    <2>2. target' = [target EXCEPT ![h] = c] /\ (c = current[h] => target[h] = c)
      <3>1. CASE PrepareDeploy(s)
        <4>1. target' = [target EXCEPT ![h] = c]
          BY <1>h, <3>1 DEF PrepareDeploy
        <4>2. c # current[h]
          <5>1. c \notin anc[c] /\ c # None
            BY <2>1, ConstantsAssumption DEF AssertInv, GraphInv, Ordered
          <5>2. QED
            BY <1>h, <3>1, <5>1 DEF PrepareDeploy, DeployAssertions, DescendsFrom
        <4>3. QED
          BY <4>1, <4>2
      <3>2. CASE PrepareReapply(s)
        BY <1>h, <1>t, <3>2 DEF PrepareReapply, ReapplyAssertions, HostTypeOK
      <3>3. QED
        BY <1>3, <3>1, <3>2
    <2>3. StageOf(apc[s]) = "rest" /\ StageOf(apc'[s]) = "going"
      BY <2>1 DEF StageOf
    <2>4. Applies!Begin(h, c)
      BY <1>m, <2>1, <2>2, <2>3 DEF Applies!Begin, Applies!Moves, Reached
    <2>5. QED
      BY <2>1, <2>4 DEF Applies!Next
  <1>4. CASE AgentPanic(s) \/ AgentExit(s) \/ AgentKilled(s)
    <2>1. UNCHANGED <<current, target>> /\ apc'[s] = "gone"
      BY <1>4, <1>t DEF AgentPanic, AgentExit, AgentKilled, Exit, hostVars, ProcessTypeOK
    <2>2. StageOf(apc'[s]) = "rest" /\ apc'[s] \notin AtWork
      BY <2>1 DEF StageOf, AtWork
    <2>3. QED
      BY <1>e, <1>n, <2>1, <2>2 DEF Holding, AtWork
  <1>5. CASE SetCurrent(s)
    <2>1. /\ Holding(s) /\ StageOf(apc[s]) = "going" /\ StageOf(apc'[s]) = "there"
          /\ current' = [current EXCEPT ![h] = job[s].commit] /\ target' = target
      BY <1>5, <1>h, <1>t DEF SetCurrent, Holding, StageOf, ProcessTypeOK
    <2>2. job[s].commit = target[h]
      BY <1>5, <1>h, <1>t DEF SetCurrent, ApplyInv
    <2>3. Applies!Arrive(h)
      BY <1>m, <2>1, <2>2 DEF Applies!Arrive, Applies!Moves, Reached
    <2>4. QED
      BY <2>3 DEF Applies!Next
  <1>6. CASE RecordHostname(s) \/ RecordFails(s) \/ ApplyFails(s) \/ RollbackFails(s)
    <2>1. UNCHANGED <<current, target>> /\ Holding(s) /\ StageOf(apc'[s]) = "rest"
      BY <1>6, <1>t DEF RecordHostname, RecordFails, ApplyFails, RollbackFails, EndJob, refVars,
                        Holding, StageOf, ProcessTypeOK
    <2>2. QED
      BY <1>e, <2>1
  <1>7. CASE StartRollback(s)
    <2>1. /\ Holding(s) /\ StageOf(apc[s]) = "going" /\ StageOf(apc'[s]) = "back"
          /\ UNCHANGED <<current, target>>
      BY <1>7, <1>t DEF StartRollback, Holding, StageOf, ProcessTypeOK, hostVars
    <2>2. Applies!TurnBack(h)
      BY <1>m, <2>1 DEF Applies!TurnBack, Applies!Moves, Reached
    <2>3. QED
      BY <2>2 DEF Applies!Next
  <1>8. CASE RollbackCompletes(s)
    <2>1. /\ Holding(s) /\ StageOf(apc[s]) = "back" /\ StageOf(apc'[s]) = "rest"
          /\ target' = [target EXCEPT ![h] = IF job[s].base # None THEN job[s].base ELSE @]
          /\ current' = current
      BY <1>8, <1>h, <1>t DEF RollbackCompletes, EndJob, Holding, StageOf, ProcessTypeOK
    <2>2. job[s].base = current[h]
      BY <1>8, <1>h, <1>t DEF RollbackCompletes, ApplyInv
    <2>3. Applies!TakeBack(h)
      BY <1>m, <2>1, <2>2 DEF Applies!TakeBack, Applies!Moves, Reached
    <2>4. QED
      BY <2>3 DEF Applies!Next
  <1>9. QED
    BY <1>1, <1>2, <1>3, <1>4, <1>5, <1>6, <1>7, <1>8 DEF AgentStep

(* Every step of the system is a step of the applies, or none.             *)
LEMMA NextAttempts ==
    ASSUME AssertInv, LockInv', [Next]_vars
    PROVE  [Applies!Next]_Applies!vars
  <1>t. /\ TypeOK /\ ProcessInv /\ CommandInv /\ HostTypeOK
    BY DEF AssertInv, RefineInv, LockInv, TypeOK, AgentTypeOK
  <1>1. CASE UNCHANGED <<processVars, hostVars>>
    BY <1>1 DEF Applies!vars, Progress, processVars, hostVars
  <1>2. ASSUME NEW s \in Slot, AgentStep(s) \/ AgentKilled(s)
        PROVE  [Applies!Next]_Applies!vars
    BY <1>2, AgentAttempts
  <1>3. ASSUME NEW o \in Operator, NEW h \in Host, Connect(o, h)
        PROVE  [Applies!Next]_Applies!vars
    <2>1. PICK s \in Slot :
             /\ Free(s) /\ apc'[s] = "idle"
             /\ \A t \in Slot \ {s} : apc'[t] = apc[t] /\ ahost'[t] = ahost[t]
      BY <1>3, <1>t, ConnectFrame
    <2>2. \A g \in Host : Progress(g)' = Progress(g)
      BY <2>1, OthersTell DEF Free, Live, AtWork
    <2>3. UNCHANGED <<current, target>>
      BY <1>3, <1>t, ConnectFrame DEF hostVars
    <2>4. QED
      BY <2>2, <2>3 DEF Applies!vars
  <1>4. ASSUME NEW o \in Operator, NEW h \in Host,
               ThreadStep(o, h) \/ ConnectFails(o, h) \/ ConnectionLost(o, h)
        PROVE  [Applies!Next]_Applies!vars
    BY <1>1, <1>4, <1>t, ThreadFrame
  <1>5. ASSUME NEW o \in Operator, OperatorStep(o) \/ CommandStep(o) \/ DriverCrash(o)
        PROVE  [Applies!Next]_Applies!vars
    BY <1>1, <1>5, <1>t, OperatorFrame
  <1>6. ASSUME NEW a \in Host, NEW b \in Host, Wipe(a) \/ Rename(a, b)
        PROVE  [Applies!Next]_Applies!vars
    <2>1. \A g \in Host : Progress(g)' = Progress(g)
      BY <1>6 DEF Wipe, Rename, processVars, Progress
    <2>2. \A g \in Host : Quiet(g) => Progress(g) = "rest"
      BY ReachedIs, NobodyTells DEF Quiet
    <2>3. CASE Wipe(a)
      <3>1. Applies!Erase(a)
        BY <2>1, <2>2, <2>3 DEF Wipe, Applies!Erase
      <3>2. QED
        BY <3>1 DEF Applies!Next
    <2>4. CASE Rename(a, b)
      <3>1. Applies!Exchange(a, b)
        BY <2>1, <2>2, <2>4 DEF Rename, Swap, Applies!Exchange
      <3>2. QED
        BY <3>1 DEF Applies!Next
    <2>5. QED
      BY <1>6, <2>3, <2>4
  <1>7. QED
    BY <1>1, <1>2, <1>3, <1>4, <1>5, <1>6 DEF Next, HostSide, DriverSide, DriverFault, vars

(* Every apply in the cluster is one that HostApply takes apart into steps *)
(* on the disk, of which StepsMakeAnAttempt shows the same: whoever else   *)
(* deploys and whatever is killed, it goes from where the host was to what *)
(* the target ref said before, or turns back and undoes that.              *)
THEOREM AppliesAreAttempts == Spec => Attempts
  <1>1. Init => Applies!Init
    BY DEF Init, ClusterInit, AgentInit, Applies!Init, Progress
  <1>2. AssertInv => LockInv
    BY DEF AssertInv, RefineInv
  <1>3. AssertInv /\ LockInv' /\ [Next]_vars => [Applies!Next]_Applies!vars
    BY NextAttempts
  <1>4. QED
    BY <1>1, <1>2, <1>3, InitAssertInv, NextAssertInv, PTL DEF Spec, Attempts, Applies!Spec
=============================================================================
