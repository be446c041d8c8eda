---------------------------- MODULE MCIrqSections ----------------------------
(* Small instances of IrqSections for TLC. *)
EXTENDS IrqSections
=============================================================================
