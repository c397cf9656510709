------------------------------ MODULE MCPresets ------------------------------
(* Presets for TLC. *)
EXTENDS Presets
=============================================================================
