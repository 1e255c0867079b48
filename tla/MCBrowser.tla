------------------------------ MODULE MCBrowser ------------------------------
(***************************************************************************)
(* Instance of Browser: the backend is open, or has one of two secrets,    *)
(* each with its password, over a database that may be away.               *)
(***************************************************************************)
EXTENDS Browser

Configurations ==
  {[secret |-> None, url |-> FALSE, password |-> None],
   [secret |-> "s1", url |-> TRUE, password |-> "p1"],
   [secret |-> "s2", url |-> TRUE, password |-> "p2"]}
=============================================================================
