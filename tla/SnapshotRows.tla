---------------------------- MODULE SnapshotRows ----------------------------
(***************************************************************************)
(* What every tracker of the engine does first with a snapshot, a vector   *)
(* of rows: index it by connection key, keeping the first row of each key. *)
(*                                                                         *)
(* A row is a record with a field conn, the connection's identity.  The    *)
(* code builds that identity as a string "protocol|pid|local|port|remote|  *)
(* port"; distinct identities give distinct strings, so the identity       *)
(* itself stands for the key.                                              *)
(***************************************************************************)
EXTENDS Integers, Sequences, Maps

\* The two byte counters of a transfer snapshot.
Directions == {"sent", "received"}

\* time_point{}: a snapshot without a timestamp.
NoTime == 0

makeKey(row) == row.conn

KeysOf(rows) == {makeKey(rows[i]) : i \in DOMAIN rows}

FirstIndex(rows, k) ==
    CHOOSE i \in DOMAIN rows :
        /\ makeKey(rows[i]) = k
        /\ \A j \in DOMAIN rows : makeKey(rows[j]) = k => i <= j

\* The loops "if (!seen.insert(key).second) continue": later rows of a key
\* that was already seen are skipped.
Dedupe(rows) == [k \in KeysOf(rows) |-> rows[FirstIndex(rows, k)]]

\* Fault: a counter that went backwards is not recognised.
RawDelta(previousCounter, currentCounter) == currentCounter - previousCounter

\* Fresh progress between two readings of an operating system counter.  A
\* counter that went backwards was reset: what it shows now is all new.
computeDelta(previousCounter, currentCounter) ==
    IF currentCounter >= previousCounter
    THEN currentCounter - previousCounter
    ELSE currentCounter

\* When a row was taken: its own timestamp, or the tracker's clock.
ObservedAt(row, now) == IF row.timestamp # NoTime THEN row.timestamp ELSE now
=============================================================================
