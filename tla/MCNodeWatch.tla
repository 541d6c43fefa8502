---------------------------- MODULE MCNodeWatch ----------------------------
(* NodeWatch with one node and a name that no node has.                   *)
EXTENDS NodeWatch, TLC
=============================================================================
