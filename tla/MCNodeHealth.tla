----------------------------- MODULE MCNodeHealth -----------------------------
(* Instances of NodeHealth for TLC: a machine with one node, or with a second *)
(* one that mirrors it.                                                       *)
EXTENDS NodeHealth, TLC
=============================================================================
