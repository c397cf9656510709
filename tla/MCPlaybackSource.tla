-------------------------- MODULE MCPlaybackSource --------------------------
(* PlaybackSource for TLC. *)
EXTENDS PlaybackSource
=============================================================================
