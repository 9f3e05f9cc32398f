--------------------------- MODULE MCCredentials ---------------------------
(* Two services, two keys, two threads. *)
EXTENDS Credentials, TLC
Alike == Permutations(Readers) \union Permutations(Keys)
=============================================================================
