----------------------------- MODULE MCEventStore -----------------------------
(***************************************************************************)
(* Instance of EventStore: two sessions, which nothing tells apart, and    *)
(* four rows against a ring of two, in batches of one or two.              *)
(***************************************************************************)
EXTENDS EventStore, TLC

CONSTANTS s1, s2

Symmetry == Permutations({s1, s2})
=============================================================================
