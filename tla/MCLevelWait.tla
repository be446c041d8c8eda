----------------------------- MODULE MCLevelWait -----------------------------
(* Small instances of LevelWait for TLC. *)
EXTENDS LevelWait, TLC

Symmetry == Permutations(Receivers) \cup Permutations(Senders)
=============================================================================
