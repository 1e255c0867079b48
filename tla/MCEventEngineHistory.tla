------------------------- MODULE MCEventEngineHistory -------------------------
(***************************************************************************)
(* Two objects over five frames: an entry, an exit and a second entry of   *)
(* the one, with anything of the other.  Milliseconds are scaled down:     *)
(* what counts is which sums of clock steps reach MinDurationMs and        *)
(* LeaveGraceMs (3 alone, 2 = 3 - 1 not) and that a step may go backwards. *)
(* Every score is exactly on the threshold.                                *)
(***************************************************************************)
EXTENDS EventEngineHistory, TLC

CONSTANTS t1, t2, person, dog

mc_TrackIds == {t1, t2}
mc_Labels == {person, dog}
mc_Confidences == {35}
mc_ClockSteps == {-1, 3}

Symmetry == Permutations(mc_TrackIds) \cup Permutations(mc_Labels)
=============================================================================
