---------------------------- MODULE MCFormalRuns ----------------------------
(* Two formal trainings and one round of a tuning session on two directory   *)
(* names; one dataset is a snapshot and one is not.                          *)
EXTENDS FormalRuns, TLC
CONSTANTS f1, f2, w1, snap, plain
MCRuns == {f1, f2, w1}
MCRounds == {w1}
MCData == {snap, plain}
MCSnapshots == {snap}
MCDataOf == (f1 :> snap) @@ (f2 :> snap) @@ (w1 :> plain)
MCModeOf == (f1 :> "formal") @@ (f2 :> "formal")
Alike == Permutations({f1, f2})
=============================================================================
