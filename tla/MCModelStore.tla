---------------------------- MODULE MCModelStore ----------------------------
(* Two names with one stem, in one order with the automatic names. *)
EXTENDS ModelStore, TLC
CONSTANTS lower, upper, stem
MCOrder ==
  (lower :> 1) @@ (<<lower, 1>> :> 2) @@ (<<lower, 2>> :> 3)
  @@ (upper :> 4) @@ (<<upper, 1>> :> 5) @@ (<<upper, 2>> :> 6)
MCStem == (lower :> stem) @@ (upper :> stem)
Alike == Permutations(Uploads) \union Permutations(Exports)
=============================================================================
