-------------------------- MODULE MCTuningDecision --------------------------
(***************************************************************************)
(* A learning rate and a number of epochs, with rules of the three kinds   *)
(* semantic_rules.py has for them: a stagnation lowers the rate to 25-80 %, *)
(* overfitting lowers the epochs to no less than a half, underfitting      *)
(* raises them to no more than the double.  The proposals reach beyond the *)
(* bounds on both sides, and one of the runs a session may start from was  *)
(* trained with more epochs than the bounds allow.                         *)
(***************************************************************************)
EXTENDS TuningDecision

MCParams == {"lr0", "epochs"}
MCBounds == [p \in MCParams |-> IF p = "lr0" THEN [low |-> 2, high |-> 8] ELSE [low |-> 1, high |-> 3]]
MCSuggestible == [p \in MCParams |-> IF p = "lr0" THEN {1, 2, 3} ELSE {1, 2, 4}]
MCReferences == {[lr0 |-> 4, epochs |-> 2], [lr0 |-> 2, epochs |-> 5]}
MCFacts == {"plateau", "overfitting", "underfitting"}
MCReports == {{"plateau"}, {"overfitting"}, {"plateau", "underfitting"}, {"overfitting", "underfitting"}}

MCRules ==
  {[fact |-> "plateau", param |-> "lr0", dir |-> "down", limit |-> [kind |-> "ratio"]],
   [fact |-> "overfitting", param |-> "epochs", dir |-> "down", limit |-> [kind |-> "fraction", by |-> 2]],
   [fact |-> "underfitting", param |-> "epochs", dir |-> "up",
    limit |-> [kind |-> "multiple", by |-> 2, cap |-> None]]}
=============================================================================
