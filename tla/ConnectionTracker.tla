------------------------- MODULE ConnectionTracker -------------------------
(***************************************************************************)
(* network::ConnectionTracker: compares each snapshot with the previous    *)
(* one and reports what appeared and what disappeared.  The module has no  *)
(* specification of its own; ConnectionPipeline runs it on what the        *)
(* collector returns.                                                      *)
(***************************************************************************)
EXTENDS SnapshotRows, SequencesExt

VARIABLES activeConnections,  \* key -> connection, as last seen
          seeded              \* has the first snapshot been taken?

Event(type, c) == [type |-> type, conn |-> c]

Init == activeConnections = EmptyMap /\ seeded = FALSE

Created(snap) == DOMAIN snap \ DOMAIN activeConnections

Closed(snap) == DOMAIN activeConnections \ DOMAIN snap

EventsFor(type, keys) == {[i \in DOMAIN s |-> Event(type, s[i])] : s \in SetToSeqs(keys)}

\* Fault: connections that were there before are reported again.
ChangesRepeated(snap) ==
    IF ~seeded THEN {<<>>}
    ELSE {created \o closed : created \in EventsFor("CREATED", DOMAIN snap),
                              closed \in EventsFor("CLOSED", Closed(snap))}

\* Fault: the loop over the previous connections is missing.
ChangesWithoutClosed(snap) ==
    IF ~seeded THEN {<<>>} ELSE EventsFor("CREATED", Created(snap))

\* The vectors of events update may return: none for the first snapshot, else
\* all creations before all closings, each group in the hash map's order.
Changes(snap) ==
    IF ~seeded THEN {<<>>}
    ELSE {created \o closed : created \in EventsFor("CREATED", Created(snap)),
                              closed \in EventsFor("CLOSED", Closed(snap))}

\* update, once the snapshot is indexed by key; events is what it returns.
Apply(snap, events) ==
    /\ events \in Changes(snap)
    /\ activeConnections' = snap
    /\ seeded' = TRUE

update(rows, events) == Apply(Dedupe(rows), events)

reset == activeConnections' = EmptyMap /\ seeded' = FALSE
=============================================================================
