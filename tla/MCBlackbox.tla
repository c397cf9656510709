----------------------------- MODULE MCBlackbox -----------------------------
(* Instances of Blackbox for TLC: the bounds are in the .cfg files. *)
EXTENDS Blackbox

\* The first, the middle and the last frame of a log, and a last one without data.
MCFrames == {<<TRUE, FALSE, TRUE>>, <<FALSE, FALSE, TRUE>>, <<FALSE, TRUE, TRUE>>, <<FALSE, TRUE, FALSE>>}
=============================================================================
