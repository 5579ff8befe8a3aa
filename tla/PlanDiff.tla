------------------------------ MODULE PlanDiff ------------------------------
(***************************************************************************)
(* The pure diff of plan.rs: from two versions of a host's apps to the     *)
(* side effects on the host, and whether those can be rolled back.         *)
(*                                                                         *)
(* An app tree is a record                                                 *)
(*   dirs     : [Subdir -> a function from file name to content]           *)
(*   symlinks : a function from link path to source, from the manifest     *)
(*   enabled  : the set of units the manifest enables                      *)
(*   files    : everything else in the app's directory                     *)
(* and a host tree is a function from the host's app names to app trees.   *)
(* Equality of tree oids is equality of these values.  The vectors of      *)
(* plan.rs are sets here: no caller depends on their order.                *)
(***************************************************************************)

Subdir == {"networkd", "quadlets", "sysusers", "systemd"}

NoEntries == [x \in {} |-> x]

(* empty_tree_oid(): the absent side of an added or a removed app.         *)
EmptyTree == [dirs     |-> [d \in Subdir |-> NoEntries],
              symlinks |-> NoEntries,
              enabled  |-> {},
              files    |-> {}]

(* A host without a commit, or without an entry in it, has no apps.        *)
NoApps == NoEntries

AppTree(apps, app) == IF app \in DOMAIN apps THEN apps[app] ELSE EmptyTree

(* The apps whose tree differs, each with its tree before and after.       *)
DiffApps(current, target) ==
    [app \in {a \in DOMAIN current \cup DOMAIN target :
                 \/ a \notin DOMAIN current
                 \/ a \notin DOMAIN target
                 \/ current[a] # target[a]}
        |-> [old |-> AppTree(current, app), new |-> AppTree(target, app)]]

SubdirChanges(old, new, d) ==
    [link            |-> DOMAIN new.dirs[d] \ DOMAIN old.dirs[d],
     unlink          |-> DOMAIN old.dirs[d] \ DOMAIN new.dirs[d],
     content_changed |-> old.dirs[d] # new.dirs[d]]

DiffEnabled(prev, target) ==
    [enable  |-> target \ prev,
     restart |-> target \cap prev,
     disable |-> prev \ target]

(* A symlink's source is resolved below its app's `current` directory, so  *)
(* it is the pair of the app and the path in the app.                      *)
DiffSymlinks(app, previous, target) ==
    [create |-> {<<l, app, target[l]>> : l \in DOMAIN target \ DOMAIN previous},
     remove |-> DOMAIN previous \ DOMAIN target,
     change |-> {<<l, app, target[l]>> :
                    l \in {m \in DOMAIN target \cap DOMAIN previous :
                              previous[m] # target[m]}}]

ComputeSystemDiff(app, diff) ==
    [dirs     |-> [d \in Subdir |-> SubdirChanges(diff.old, diff.new, d)],
     symlinks |-> DiffSymlinks(app, diff.old.symlinks, diff.new.symlinks),
     units    |-> DiffEnabled(diff.old.enabled, diff.new.enabled)]

IsRollbackSafe(system) ==
    /\ \A d \in Subdir : system.dirs[d].link = {}
    /\ system.symlinks.create = {}
    /\ system.units.enable = {}

(* SystemDiff::append over all changed apps of the host, as diff_host      *)
(* accumulates them.                                                       *)
AppendAll(diffs) ==
    LET sys == [app \in DOMAIN diffs |-> ComputeSystemDiff(app, diffs[app])]
    IN  [dirs |-> [d \in Subdir |->
            [link   |-> UNION {sys[a].dirs[d].link : a \in DOMAIN diffs},
             unlink |-> UNION {sys[a].dirs[d].unlink : a \in DOMAIN diffs},
             content_changed |->
                 \E a \in DOMAIN diffs : sys[a].dirs[d].content_changed]],
         symlinks |->
            [create |-> UNION {sys[a].symlinks.create : a \in DOMAIN diffs},
             remove |-> UNION {sys[a].symlinks.remove : a \in DOMAIN diffs},
             change |-> UNION {sys[a].symlinks.change : a \in DOMAIN diffs}],
         units |->
            [enable  |-> UNION {sys[a].units.enable : a \in DOMAIN diffs},
             restart |-> UNION {sys[a].units.restart : a \in DOMAIN diffs},
             disable |-> UNION {sys[a].units.disable : a \in DOMAIN diffs}]]

(* diff_host: the aggregate the agent executes.                            *)
DiffHost(current, target) == AppendAll(DiffApps(current, target))

(* Mutant of HostPlanSafe: forgets that enabling a unit is unsafe. *)
HostPlanSafeIgnoresUnits(current, target) ==
    LET diffs == DiffApps(current, target)
    IN  \A app \in DOMAIN diffs :
            /\ \A d \in Subdir : SubdirChanges(diffs[app].old, diffs[app].new, d).link = {}
            /\ DiffSymlinks(app, diffs[app].old.symlinks, diffs[app].new.symlinks).create = {}

(* HostPlan.is_rollback_safe: the driver's conjunction over the apps.      *)
HostPlanSafe(current, target) ==
    LET diffs == DiffApps(current, target)
    IN  \A app \in DOMAIN diffs : IsRollbackSafe(ComputeSystemDiff(app, diffs[app]))
=============================================================================
