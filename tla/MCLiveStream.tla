---------------------------- MODULE MCLiveStream ----------------------------
(***************************************************************************)
(* One live camera with two credits and four frames, so that the frames    *)
(* written can outnumber the credits.                                      *)
(***************************************************************************)
EXTENDS LiveStream

CONSTANT s1

mc_Sockets == {s1}
=============================================================================
