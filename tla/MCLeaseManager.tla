--------------------------- MODULE MCLeaseManager ---------------------------
(* LeaseManager with two callers, one of which makes all calls while the   *)
(* other extends, and the scanner.  The SQLite store, which scans without  *)
(* a lock, has far more interleavings to a lease.                          *)
EXTENDS LeaseManager, TLC

CONSTANTS c1, c2

UsesOfBoth == (c1 :> {"create", "revoke", "list", "extend"}) @@ (c2 :> {"extend"})
Leases == [b \in Backends |-> IF b = "memory" THEN 3 ELSE 2]
=============================================================================
