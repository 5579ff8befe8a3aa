---------------------------- MODULE Register_proofs ----------------------------
(***************************************************************************)
(* What follows from the promise of the hosts alone, for any number of     *)
(* hosts, commits and sessions.                                            *)
(***************************************************************************)
EXTENDS Register, TLAPS

OptCommit == Commit \cup {None}

RegisterTypeOK ==
    /\ anc \in [Commit -> SUBSET Commit]
    /\ value \in [Host -> OptCommit]
    /\ goal \in [Host -> OptCommit]
    /\ holders \in [Host -> SUBSET Session]

(* The inductive invariant.                                                *)
RegisterInv == RegisterTypeOK /\ GoalAhead

(* What a step may do to the value: keep it, take it along with a renamed  *)
(* or erased machine, or go to a commit that descends from it.             *)
Onward ==
    \A h \in Host : Held(h) /\ value'[h] # value[h] /\ value[h] # None =>
        DescendsFrom(anc', value'[h], value[h])

LEMMA RegisterInit == ASSUME Init PROVE RegisterInv
  BY DEF Init, RegisterInv, RegisterTypeOK, GoalAhead, OptCommit

(* Every step keeps the goal ahead of the value, which is why a step that  *)
(* goes to the goal goes to a descendant.                                  *)
LEMMA RegisterStep ==
    ASSUME None \notin Commit, RegisterInv, [Next]_vars
    PROVE  RegisterInv' /\ Onward
  <1> USE DEF RegisterInv, RegisterTypeOK, GoalAhead, Onward, OptCommit, DescendsFrom, History
  <1>1. CASE Grow
    BY <1>1 DEF Grow
  <1>2. ASSUME NEW h \in Host, NEW s \in Session, Acquire(h, s)
        PROVE  RegisterInv' /\ Onward
    BY <1>2 DEF Acquire
  <1>3. ASSUME NEW h \in Host, Release(h)
        PROVE  RegisterInv' /\ Onward
    BY <1>3 DEF Release
  <1>4. ASSUME NEW h \in Host, NEW c \in Commit, Open(h, c)
        PROVE  RegisterInv' /\ Onward
    BY <1>4 DEF Open
  <1>5. ASSUME NEW h \in Host, Advance(h)
        PROVE  RegisterInv' /\ Onward
    BY <1>5 DEF Advance
  <1>6. ASSUME NEW h \in Host, Abandon(h)
        PROVE  RegisterInv' /\ Onward
    BY <1>6 DEF Abandon
  <1>7. ASSUME NEW h \in Host, Erase(h)
        PROVE  RegisterInv' /\ Onward
    BY <1>7 DEF Erase
  <1>8. ASSUME NEW a \in Host, NEW b \in Host, Exchange(a, b)
        PROVE  RegisterInv' /\ Onward
    BY <1>8 DEF Exchange
  <1>9. CASE UNCHANGED vars
    BY <1>9 DEF vars
  <1>10. QED
    BY <1>1, <1>2, <1>3, <1>4, <1>5, <1>6, <1>7, <1>8, <1>9 DEF Next

(* The goal of a register is never behind or beside its value.             *)
THEOREM GoalStaysAhead ==
    ASSUME None \notin Commit
    PROVE  Spec => []GoalAhead
  <1>1. RegisterInv /\ [Next]_vars => RegisterInv'
    BY RegisterStep
  <1>2. RegisterInv => GoalAhead
    BY DEF RegisterInv
  <1>3. QED
    BY <1>1, <1>2, RegisterInit, PTL DEF Spec

(* A held register only ever goes to a descendant of the commit it leaves. *)
THEOREM GoesOnward ==
    ASSUME None \notin Commit
    PROVE  Spec => [][Onward]_vars
  <1>1. RegisterInv /\ [Next]_vars => RegisterInv'
    BY RegisterStep
  <1>2. RegisterInv /\ [Next]_vars => [Onward]_vars
    BY RegisterStep
  <1>3. QED
    BY <1>1, <1>2, RegisterInit, PTL DEF Spec
=============================================================================
