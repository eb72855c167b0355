------------------------- MODULE MCTransferTrackers -------------------------
(***************************************************************************)
(* Small instance of TransferTrackers: two connections of one process and  *)
(* one of another, with and without names, with counters that grow and go  *)
(* back, timestamps that are missing, stand still and go back, and a       *)
(* connection listed twice with different counters.                        *)
(***************************************************************************)
EXTENDS TransferTrackers, TLC

CONSTANTS a1, a2, b1

MCKeys == {a1, a2, b1}
MCPids == {1, 2}
MCPidOf == (a1 :> 1) @@ (a2 :> 1) @@ (b1 :> 2)
MCTimes == {2}

Reading(k, n, t, s, r) ==
    [conn |-> k, name |-> n, timestamp |-> t,
     bytes |-> [d \in Directions |-> IF d = "sent" THEN s ELSE r]]

RowsA1 == {Reading(a1, NoName, 1, 0, 0), Reading(a1, "app", NoTime, 2, 1)}
RowsA2 == {Reading(a2, NoName, 3, 1, 0), Reading(a2, "svc", 1, 2, 0)}
RowB1 == Reading(b1, NoName, 3, 0, 1)

MCSnapshots ==
    {<<>>} \cup {<<r>> : r \in RowsA1}
           \cup {<<r, s>> : r \in RowsA1, s \in RowsA2}
           \cup {<<s, RowB1>> : s \in RowsA2}
           \cup {<<r, s>> : r \in RowsA2, s \in RowsA2}
=============================================================================
