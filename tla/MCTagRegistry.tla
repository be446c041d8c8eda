---------------------------- MODULE MCTagRegistry ----------------------------
(* Small instances of TagRegistry for TLC. *)
EXTENDS TagRegistry, TLC

Symmetry == Permutations(Threads) \cup Permutations(Svc) \cup Permutations(Keys)
=============================================================================
