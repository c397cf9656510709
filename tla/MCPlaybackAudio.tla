--------------------------- MODULE MCPlaybackAudio ---------------------------
(* PlaybackAudio for TLC. *)
EXTENDS PlaybackAudio
=============================================================================
