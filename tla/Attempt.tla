-------------------------------- MODULE Attempt --------------------------------
(***************************************************************************)
(* The life of an apply, as far as the refs of a host tell of it.  An      *)
(* attempt writes its goal before anything else.  Then it is under way,    *)
(* until it arrives and the value becomes the goal, or turns back, which   *)
(* it only does before it arrived and which ends with the goal taken back. *)
(* It may stop at any point, with what it wrote left as it is.             *)
(*                                                                         *)
(* Two modules implement this specification, Deploy (Deploy!Attempts) with *)
(* the agents of a cluster, and HostApply (HostApply!Attempts) with the    *)
(* steps of an apply on a host's disk: they agree on what an apply is.     *)
(***************************************************************************)
CONSTANTS Host, Commit, None

VARIABLES
    value,   \* Host -> the commit that is deployed
    goal,    \* Host -> the commit that was last attempted
    at       \* Host -> how far the attempt in progress is

Stage == {"rest", "going", "there", "back"}

vars == <<value, goal, at>>

Init ==
    /\ value = [h \in Host |-> None]
    /\ goal = [h \in Host |-> None]
    /\ at = [h \in Host |-> "rest"]

Moves(h, from, to) ==
    /\ at[h] = from
    /\ at' = [at EXCEPT ![h] = to]

(* The commit that is deployed is attempted again only if no other attempt *)
(* was left half done.                                                     *)
Begin(h, c) ==
    /\ c = value[h] => goal[h] = c
    /\ Moves(h, "rest", "going")
    /\ goal' = [goal EXCEPT ![h] = c]
    /\ UNCHANGED value

Arrive(h) ==
    /\ Moves(h, "going", "there")
    /\ value' = [value EXCEPT ![h] = goal[h]]
    /\ UNCHANGED goal

TurnBack(h) == Moves(h, "going", "back") /\ UNCHANGED <<value, goal>>

(* Before the first deploy there is nothing to take the goal back to.      *)
TakeBack(h) ==
    /\ Moves(h, "back", "rest")
    /\ goal' = [goal EXCEPT ![h] = IF value[h] = None THEN @ ELSE value[h]]
    /\ UNCHANGED value

(* The attempt ends, by itself or because it was killed.                   *)
Stop(h) ==
    /\ \E from \in Stage : Moves(h, from, "rest")
    /\ UNCHANGED <<value, goal>>

(* What happens to machines between the attempts.                          *)
Erase(h) ==
    /\ at[h] = "rest"
    /\ value' = [value EXCEPT ![h] = None]
    /\ goal' = [goal EXCEPT ![h] = None]
    /\ UNCHANGED at

Exchange(a, b) ==
    /\ at[a] = "rest" /\ at[b] = "rest"
    /\ value' = [value EXCEPT ![a] = value[b], ![b] = value[a]]
    /\ goal' = [goal EXCEPT ![a] = goal[b], ![b] = goal[a]]
    /\ UNCHANGED at

Next ==
    \/ \E h \in Host :
         \/ \E c \in Commit : Begin(h, c)
         \/ Arrive(h) \/ TurnBack(h) \/ TakeBack(h) \/ Stop(h) \/ Erase(h)
    \/ \E a, b \in Host : Exchange(a, b)

Spec == Init /\ [][Next]_vars
=============================================================================
