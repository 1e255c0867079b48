--------------------------- MODULE MCSessionPipeline ---------------------------
(***************************************************************************)
(* A small instance of SessionPipeline: one object that enters at its      *)
(* second sighting and leaves as soon as it is out of sight, so that a     *)
(* frame may or may not have events; clock steps that fall short of the    *)
(* minimal interval, reach it, or go backwards.                            *)
(***************************************************************************)
EXTENDS SessionPipeline

CONSTANTS t1, person

mc_TrackIds == {t1}
mc_Labels == {person}
mc_Confidences == {35}
mc_ClockSteps == {-1, 1, 3}
=============================================================================
