------------------------------ MODULE MCDisplay ------------------------------
(* Values of the constants of Display for TLC: an HDMI and a DisplayPort     *)
(* connector, ranked as role_rank ranks them.                                *)
EXTENDS Display, TLC

CONSTANTS hdmi, dp

MCRank == [c \in Conns |-> IF c = hdmi THEN 0 ELSE 1]
==============================================================================
