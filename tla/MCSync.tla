------------------------------- MODULE MCSync -------------------------------
(* Sync between two clusters, in both directions or in one.                *)
EXTENDS Sync, TLC

CONSTANTS A, B
BothWays == (A :> <<B>>) @@ (B :> <<A>>)
OneWay == (A :> <<B>>) @@ (B :> <<>>)
=============================================================================
