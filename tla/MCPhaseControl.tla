---------------------------- MODULE MCPhaseControl ----------------------------
(* PhaseControl for TLC: a range narrower than ours and one wider. *)
EXTENDS PhaseControl

MCBands == {<<-1, 0>>, <<-4, 1>>}
MCRaws  == {-5, -1}
=============================================================================
