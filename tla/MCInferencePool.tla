--------------------------- MODULE MCInferencePool ---------------------------
(***************************************************************************)
(* Two streams on two threads, four tasks at most: a detection may wait    *)
(* behind two descriptions, and both threads may load the VLM.             *)
(***************************************************************************)
EXTENDS InferencePool

CONSTANTS s1, s2, w1, w2

mc_Streams == {s1, s2}
mc_Workers == {w1, w2}
mc_Vlms == {"off", "absent", "present"}
=============================================================================
