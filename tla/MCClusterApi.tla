---------------------------- MODULE MCClusterApi ----------------------------
(* ClusterApi on small instances.                                          *)
EXTENDS ClusterApi, TLC

Symmetry == Permutations(Tasks) \cup Permutations(Nodes)
=============================================================================
