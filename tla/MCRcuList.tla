------------------------------ MODULE MCRcuList ------------------------------
(* Small instances of RcuList for TLC. *)
EXTENDS RcuRefinement, TLC

Symmetry == Permutations(Readers) \cup Permutations(Writers)
              \cup Permutations(Addr)
=============================================================================
