---------------------------- MODULE MCClusterCore ----------------------------
(* ClusterCore for TLC: the second task may wait for the first.            *)
EXTENDS ClusterCore, TLC

CONSTANTS T1, T2
FirstToSelf == {<<T1, Self>>}
FirstFirst == (T1 :> {{}}) @@ (T2 :> {{T1}})
NoCaps == {{}}
==============================================================================
