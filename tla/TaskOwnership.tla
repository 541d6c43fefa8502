--------------------------- MODULE TaskOwnership ---------------------------
(***************************************************************************)
(* What the lease mechanism promises: a task is held by one node at a      *)
(* time, a node gets a task only when nobody holds it, and a task passes   *)
(* from one node to another only by being given up first.  Holders may     *)
(* lose any number of tasks at once (a node recovered, a scan of overdue   *)
(* leases).                                                                *)
(***************************************************************************)
CONSTANTS Tasks, Nodes, None

VARIABLE holder   \* the node holding each task, or None

Init == holder = [t \in Tasks |-> None]

Acquire(t, n) ==
    /\ holder[t] = None
    /\ holder' = [holder EXCEPT ![t] = n]

GiveUp(S) == holder' = [t \in Tasks |-> IF t \in S THEN None ELSE holder[t]]

Next ==
    \/ \E t \in Tasks, n \in Nodes : Acquire(t, n)
    \/ \E S \in SUBSET Tasks : GiveUp(S)

Spec == Init /\ [][Next]_holder
=============================================================================
