------------------------------ MODULE MCDeploy ------------------------------
(* Instances of Deploy for TLC. *)
EXTENDS Deploy, TLC

(* One app.  Going from "A" to "U" enables a unit, which cannot be rolled  *)
(* back; every other change can be.                                        *)
AppA == [EmptyTree EXCEPT !.files = {"v1"}]
AppU == [EmptyTree EXCEPT !.files = {"v1"}, !.enabled = {"u"}]
AppV == [EmptyTree EXCEPT !.files = {"v2"}]
Apps(t) == [app \in {"a"} |-> t]

(* All hosts get the same app. *)
UniformTree(t) == [h \in Host |-> Apps(t)]

MCTreeOf == [g \in Config |->
    CASE g = "A" -> UniformTree(AppA)
      [] g = "U" -> UniformTree(AppU)
      [] g = "V" -> UniformTree(AppV)
      [] g = "drop" -> LET gone == CHOOSE h \in Host : TRUE
                       IN [h \in Host \ {gone} |-> Apps(AppA)]
      [] OTHER -> LET other == CHOOSE h \in Host : TRUE
                  IN [h \in Host |-> IF h = other THEN Apps(AppU) ELSE Apps(AppA)]]

Symmetry == Permutations(Operator) \cup Permutations(Slot) \cup Permutations(Commit)
=============================================================================
