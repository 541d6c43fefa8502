------------------------------- MODULE MCHooks -------------------------------
(* Hooks with two webhooks and a short history.                            *)
EXTENDS Hooks, TLC
=============================================================================
