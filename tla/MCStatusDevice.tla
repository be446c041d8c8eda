---------------------------- MODULE MCStatusDevice ----------------------------
(* Small instances of StatusDevice for TLC. *)
EXTENDS StatusDevice
=============================================================================
