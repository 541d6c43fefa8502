----------------------------- MODULE MCServices -----------------------------
(* Services started a few times.                                           *)
EXTENDS Services, TLC
=============================================================================
