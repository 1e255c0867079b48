--------------------------- MODULE MCStreamGateway ---------------------------
(***************************************************************************)
(* Two connections, two frames each at most: enough for two answers to be  *)
(* out of order and for each to arrive after the disconnection.            *)
(***************************************************************************)
EXTENDS StreamGateway, TLC

CONSTANTS s1, s2

mc_Sockets == {s1, s2}

Symmetry == Permutations(mc_Sockets)
=============================================================================
