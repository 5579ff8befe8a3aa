---------------------------- MODULE CommitGraph ----------------------------
(***************************************************************************)
(* The Git commit graph as Deptool uses it.  A commit's ancestry is fixed  *)
(* when the commit is created, so the graph is a function anc that maps    *)
(* each commit to the set of its strict ancestors.                         *)
(***************************************************************************)

CONSTANT None    \* the absent commit (Option::None)

(* What `revwalk.push(c)` reaches: the commit and everything before it. *)
History(anc, c) == {c} \cup anc[c]

(* libgit2's graph_descendant_of(c, d): strict, a commit does not descend  *)
(* from itself.                                                            *)
DescendsFrom(anc, c, d) == d \in anc[c]

(* Store::frontier: the members of S that no other member descends from.   *)
Frontier(anc, S) ==
    {c \in S : \A other \in S : other # c => ~DescendsFrom(anc, other, c)}

(* The strict ancestors of a commit created on top of these parents.       *)
Ancestry(anc, parents) == UNION {History(anc, p) : p \in parents}

(* Mutant of Pack: only the tip. *)
PackTipOnly(anc, want, have) == {want}

(* Store::create_pack: what is reachable from want and not from have.      *)
Pack(anc, want, have) ==
    History(anc, want) \ (IF have = None THEN {} ELSE History(anc, have))

(* The walk hides `have`, so the store that packs must hold it.            *)
CanPack(store, want, have) == {want, have} \ {None} \subseteq store

(* A store in which every commit comes with its whole history.             *)
Closed(anc, store) == \A c \in store : anc[c] \subseteq store
=============================================================================
