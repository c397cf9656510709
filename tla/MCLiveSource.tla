---------------------------- MODULE MCLiveSource ----------------------------
(* LiveSource for TLC. *)
EXTENDS LiveSource
=============================================================================
