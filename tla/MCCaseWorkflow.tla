--------------------------- MODULE MCCaseWorkflow ---------------------------
(* Finite instances of CaseWorkflow.                                       *)
EXTENDS CaseWorkflow, TLC

(* Requests are interchangeable, and so are users; used only where the run *)
(* checks safety: invariants, and action properties that name neither.     *)
AnyRequestAndActor == Permutations(Workers) \cup Permutations(Actors)

Three == [v \in Versions |-> 3]
Five == [v \in Versions |-> 5]

(* The process of the first version has a history, that of a later one is  *)
(* only created.                                                           *)
FirstFour == [v \in Versions |-> IF v = 1 THEN 4 ELSE 1]

=============================================================================
