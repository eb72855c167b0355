--------------------------- MODULE MCUploadTracker ---------------------------
(***************************************************************************)
(* Small instance of UploadTracker: two connections, a process name that   *)
(* may be missing from a row, counters that grow, stand still and go back, *)
(* rows with and without a timestamp, and snapshots with duplicate rows.   *)
(***************************************************************************)
EXTENDS UploadTracker

CONSTANTS c1, c2

MCKeys == {c1, c2}
MCTimes == {1}

Reading(k, n, t, b) ==
    [conn |-> k, name |-> n, timestamp |-> t,
     bytes |-> [d \in Directions |-> IF d = Counter THEN b ELSE 0]]

First == {Reading(c1, "app", NoTime, 0), Reading(c1, NoName, NoTime, 1),
          Reading(c1, NoName, 2, 3)}
Second == {Reading(c2, NoName, 2, b) : b \in {0, 2}}

\* No row, one row, two rows, and a connection listed twice.
MCSnapshots ==
    {<<>>} \cup {<<r>> : r \in First \cup Second}
           \cup {<<r, s>> : r \in First, s \in Second}
           \cup {<<Reading(c1, NoName, 2, b), Reading(c1, "app", 2, 3 - b)>> : b \in {1, 3}}
=============================================================================
