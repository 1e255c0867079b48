---------------------------- MODULE MCCaptureLoop ----------------------------
(***************************************************************************)
(* Instance of CaptureLoop: two starts of the capture, which may overlap,  *)
(* and frames on the first peer.                                           *)
(***************************************************************************)
EXTENDS CaptureLoop

FramesOfPeer == <<2, 0>>
=============================================================================
