------------------------- MODULE MCReferenceDataset -------------------------
EXTENDS ReferenceDataset, TLC
CONSTANTS d1, d2, f1, f2
MCShuffled == [s \in {7} |-> (f1 :> 1) @@ (f2 :> 2)]
Alike == UNION {Permutations(S) : S \in {Requests, Names, Trainings}}
=============================================================================
