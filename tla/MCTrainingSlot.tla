--------------------------- MODULE MCTrainingSlot ---------------------------
(* TrainingSlot for TLC. *)
EXTENDS TrainingSlotInv, TLC

Symmetry == Permutations(Requests)
=============================================================================
