--------------------------- MODULE TransferLedger ---------------------------
(***************************************************************************)
(* What the transfer trackers promise, without counters, baselines, rows   *)
(* or seeding: a ledger of byte totals.  An observation says which         *)
(* connections exist.  A connection that stays keeps its total, which may  *)
(* only grow; one that appears starts at zero; one that disappears leaves  *)
(* its final total behind as a settled one.  The ledger keeps the last     *)
(* settlement of a connection only: when the same endpoints close again    *)
(* the earlier total is replaced, as the trackers do.                      *)
(***************************************************************************)
EXTENDS SnapshotRows

CONSTANT Keys

VARIABLES open,    \* connection -> running total, for the connections seen last
          settled  \* connection -> the total it last ended with

IsTotals(f) == DOMAIN f \subseteq Keys /\ f \in [DOMAIN f -> Nat]

Init == open = EmptyMap /\ settled = EmptyMap

Observe ==
    /\ IsTotals(open)'
    /\ \A k \in DOMAIN open' :
          IF k \in DOMAIN open THEN open'[k] >= open[k] ELSE open'[k] = 0
    /\ settled' = Put(settled, [k \in DOMAIN open \ DOMAIN open' |-> open[k]])

Forget == open' = EmptyMap /\ settled' = EmptyMap

Next == Observe \/ Forget

Spec == Init /\ [][Next]_<<open, settled>>
=============================================================================
