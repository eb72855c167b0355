--------------------------- MODULE TimelineOrder ---------------------------
(***************************************************************************)
(* The order of a timeline.  TimelineEventHistory, TimelineQuery and       *)
(* ProcessTimelineBuilder each have their own copy of earlierThan and sort *)
(* with std::stable_sort.                                                  *)
(*                                                                         *)
(* An event is a record with the fields timestamp, pid, name and type; a   *)
(* timestamp of 0 is the default time_point.                               *)
(***************************************************************************)
EXTENDS Integers, Sequences, FiniteSets

\* ProcessActivityEventType, whose order decides between simultaneous events.
TypeNumber ==
    [PROCESS_SEEN |-> 0, CONNECTION_OPENED |-> 1, UPLOAD_ACTIVITY |-> 2,
     DOWNLOAD_ACTIVITY |-> 3, CONNECTION_CLOSED |-> 4, SUSPICIOUS_ACTIVITY |-> 5]

earlierThan(left, right) ==
    \/ left.timestamp < right.timestamp
    \/ left.timestamp = right.timestamp
       /\ \/ left.pid < right.pid
          \/ left.pid = right.pid /\ TypeNumber[left.type] < TypeNumber[right.type]

\* What comes before x, of the elements of S, in the order R, a set of pairs.
Below(x, S, R) == {y \in S : <<y, x>> \in R}

\* The elements of S, one after the other.
InOrder(S, R) ==
    [k \in 1..Cardinality(S) |-> CHOOSE x \in S : Cardinality(Below(x, S, R)) = k - 1]

\* What stands before what in a sorted timeline.  Equal elements keep their
\* order.
SortOrder(events) ==
    {p \in (DOMAIN events) \X (DOMAIN events) :
        \/ earlierThan(events[p[1]], events[p[2]])
        \/ ~earlierThan(events[p[2]], events[p[1]]) /\ p[1] < p[2]}

\* std::stable_sort.
StableSort(events) ==
    LET order == InOrder(DOMAIN events, SortOrder(events))
    IN  [k \in DOMAIN events |-> events[order[k]]]

Ascending(indices) == {p \in indices \X indices : p[1] < p[2]}

\* The loops that push the events at these indices to a new vector.
Selected(events, indices) ==
    LET order == InOrder(indices, Ascending(indices))
    IN  [k \in DOMAIN order |-> events[order[k]]]

\* The last n elements, or all if there are fewer.
Newest(events, n) ==
    IF n >= Len(events) THEN events ELSE SubSeq(events, Len(events) - n + 1, Len(events))
=============================================================================
