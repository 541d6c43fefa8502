-------------------------- MODULE MCClusterThreads --------------------------
(* ClusterThreads on small instances.                                      *)
EXTENDS ClusterThreads, TLC

NodeSymmetry == Permutations(Nodes)
=============================================================================
