------------------------------- MODULE Register -------------------------------
(***************************************************************************)
(* What the hosts promise to the operators, whatever goes on between       *)
(* drivers and agents: every host is a register that holds the commit that *)
(* is deployed.  One session at a time may write to it.  It says where it  *)
(* is going before it goes there (a write-ahead goal), and it only ever    *)
(* goes to a commit that was made with knowledge of the one it leaves.     *)
(* It may stop anywhere; then the goal tells that it was under way.        *)
(*                                                                         *)
(* Module Deploy implements this specification: see Deploy!Registers.      *)
(***************************************************************************)
EXTENDS CommitGraph

CONSTANTS Host, Commit, Session

VARIABLES
    anc,        \* Commit -> its strict ancestors
    value,      \* Host -> the commit that is deployed
    goal,       \* Host -> the commit it was last told to go to
    holders     \* Host -> the sessions that hold its lock

vars == <<anc, value, goal, holders>>

Init ==
    /\ anc = [c \in Commit |-> {}]
    /\ value = [h \in Host |-> None]
    /\ goal = [h \in Host |-> None]
    /\ holders = [h \in Host |-> {}]

(* New commits are created; nothing is taken out of a history.             *)
Grow ==
    /\ anc' \in [Commit -> SUBSET Commit]
    /\ \A c \in Commit : anc[c] \subseteq anc'[c]
    /\ UNCHANGED <<value, goal, holders>>

Held(h) == holders[h] # {}

Acquire(h, s) ==
    /\ ~Held(h)
    /\ holders' = [holders EXCEPT ![h] = {s}]
    /\ UNCHANGED <<anc, value, goal>>

Release(h) ==
    /\ Held(h)
    /\ holders' = [holders EXCEPT ![h] = {}]
    /\ UNCHANGED <<anc, value, goal>>

Open(h, c) ==
    /\ Held(h)
    /\ value[h] # None => DescendsFrom(anc, c, value[h])
    /\ goal' = [goal EXCEPT ![h] = c]
    /\ UNCHANGED <<anc, value, holders>>

Advance(h) ==
    /\ Held(h)
    /\ value' = [value EXCEPT ![h] = goal[h]]
    /\ UNCHANGED <<anc, goal, holders>>

(* What was opened is given up, and nothing of it is left.                 *)
Abandon(h) ==
    /\ Held(h) /\ value[h] # None
    /\ goal' = [goal EXCEPT ![h] = value[h]]
    /\ UNCHANGED <<anc, value, holders>>

(* The machine is reprovisioned.                                           *)
Erase(h) ==
    /\ ~Held(h)
    /\ value' = [value EXCEPT ![h] = None]
    /\ goal' = [goal EXCEPT ![h] = None]
    /\ UNCHANGED <<anc, holders>>

(* Two machines exchange their names.                                      *)
Exchange(a, b) ==
    /\ ~Held(a) /\ ~Held(b)
    /\ value' = [value EXCEPT ![a] = value[b], ![b] = value[a]]
    /\ goal' = [goal EXCEPT ![a] = goal[b], ![b] = goal[a]]
    /\ UNCHANGED <<anc, holders>>

Next ==
    \/ Grow
    \/ \E h \in Host :
         \/ \E s \in Session : Acquire(h, s)
         \/ Release(h)
         \/ \E c \in Commit : Open(h, c)
         \/ Advance(h) \/ Abandon(h) \/ Erase(h)
    \/ \E a, b \in Host : Exchange(a, b)

Spec == Init /\ [][Next]_vars
-----------------------------------------------------------------------------
(* The goal is never behind or beside the value, so that it tells an       *)
(* unfinished deploy from a finished one.                                  *)
GoalAhead ==
    \A h \in Host : value[h] # None =>
        goal[h] # None /\ value[h] \in History(anc, goal[h])
=============================================================================
