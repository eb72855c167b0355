---------------------------- MODULE UploadTracker ----------------------------
(***************************************************************************)
(* network::UploadTracker: turns successive readings of the operating      *)
(* system's per-connection byte counters into running totals.              *)
(* network::DownloadTracker is the same class over the other counter, so   *)
(* the counter is a parameter: "sent" gives UploadTracker, "received"      *)
(* gives DownloadTracker.                                                  *)
(***************************************************************************)
EXTENDS SnapshotRows

CONSTANTS Keys,       \* connection identities
          Names,      \* process names
          NoName,     \* the empty process name
          Times,      \* readings of the system clock
          Counter,    \* which counter this tracker follows
          Snapshots,  \* the snapshots a caller may hand over
          MaxTotal    \* bound on a running total, for model checking

ASSUME ConstantsAssumption ==
    /\ NoName \in Names
    /\ Times \subseteq Nat \ {NoTime}
    /\ Counter \in Directions
    /\ MaxTotal \in Nat

\* One ConnectionTransferSnapshot.
Row == [conn : Keys, name : Names, timestamp : Nat, bytes : [Directions -> Nat]]

ASSUME SnapshotsAssumption == Snapshots \subseteq Seq(Row)

VARIABLES activeUploads,      \* key -> TrackedUpload
          closedUploadStats,  \* key -> ConnectionUploadStats
          seeded,             \* has the first snapshot been taken?
          session             \* history: key -> first reading of the counter,
                              \* and the sum of the readings lost to resets

vars == <<activeUploads, closedUploadStats, seeded, session>>

TrackedUpload ==
    [processName : Names, firstObserved : Nat, lastUpdated : Nat,
     baseline : Nat, cumulative : Nat]

UploadStats ==
    [processName : Names, uploadedBytes : Nat, firstObserved : Nat,
     lastUpdated : Nat, isActive : BOOLEAN]

\* The statistics published for a tracked connection.
toStats(tracked, isActive) ==
    [processName |-> tracked.processName, uploadedBytes |-> tracked.cumulative,
     firstObserved |-> tracked.firstObserved, lastUpdated |-> tracked.lastUpdated,
     isActive |-> isActive]

\* activeUploadStats_ is rebuilt from activeUploads_ whenever that changes.
activeUploadStats ==
    [k \in DOMAIN activeUploads |-> toStats(activeUploads[k], TRUE)]

-----------------------------------------------------------------------------
\* Fault: what the counter showed before tracking began is counted.
StartTrackingCounted(row, now) ==
    [processName |-> row.name, firstObserved |-> ObservedAt(row, now),
     lastUpdated |-> ObservedAt(row, now),
     baseline |-> row.bytes[Counter], cumulative |-> row.bytes[Counter]]

\* A row of a connection that is not tracked: the counter it shows is the
\* baseline, nothing is counted yet.
StartTracking(row, now) ==
    [processName   |-> row.name,
     firstObserved |-> ObservedAt(row, now),
     lastUpdated   |-> ObservedAt(row, now),
     baseline      |-> row.bytes[Counter],
     cumulative    |-> 0]

\* Fault: the baseline stays at the first reading.
KeepTrackingStale(row, now) ==
    LET existing == activeUploads[makeKey(row)]
    IN  [existing EXCEPT !.cumulative = @ + computeDelta(existing.baseline, row.bytes[Counter])]

\* A row of a tracked connection.
KeepTracking(row, now) ==
    LET existing == activeUploads[makeKey(row)]
    IN  [processName   |-> IF row.name = NoName THEN existing.processName
                                                ELSE row.name,
         firstObserved |-> existing.firstObserved,
         lastUpdated   |-> ObservedAt(row, now),
         baseline      |-> row.bytes[Counter],
         cumulative    |-> existing.cumulative
                             + IF seeded
                               THEN computeDelta(existing.baseline, row.bytes[Counter])
                               ELSE 0]

\* Fault: a connection missing from the snapshot stays in the map.
NextActiveKeepsMissing(snap, now) ==
    [k \in DOMAIN snap \cup DOMAIN activeUploads |->
        IF k \notin DOMAIN snap THEN activeUploads[k]
        ELSE IF k \in DOMAIN activeUploads THEN KeepTracking(snap[k], now)
        ELSE StartTracking(snap[k], now)]

NextActive(snap, now) ==
    [k \in DOMAIN snap |-> IF k \in DOMAIN activeUploads
                           THEN KeepTracking(snap[k], now)
                           ELSE StartTracking(snap[k], now)]

\* Connections that were tracked and are missing from the snapshot.  The
\* first snapshot closes nothing.
Closing(snap) == IF seeded THEN DOMAIN activeUploads \ DOMAIN snap ELSE {}

\* History only: a new session starts at the counter's first reading; a
\* counter that goes backwards loses the reading it had reached.
NextSession(snap) ==
    [k \in DOMAIN snap |->
        LET reading == snap[k].bytes[Counter]
        IN  IF k \notin DOMAIN activeUploads
            THEN [origin |-> reading, lost |-> 0]
            ELSE IF reading >= activeUploads[k].baseline THEN session[k]
            ELSE [session[k] EXCEPT !.lost = @ + activeUploads[k].baseline]]

\* update, once the snapshot is indexed by key.
Apply(snap, now) ==
    /\ activeUploads' = NextActive(snap, now)
    /\ closedUploadStats' =
          Put(closedUploadStats, [k \in Closing(snap) |-> toStats(activeUploads[k], FALSE)])
    /\ seeded' = TRUE
    /\ session' = NextSession(snap)

update(rows, now) == Apply(Dedupe(rows), now)

reset ==
    /\ activeUploads' = EmptyMap
    /\ closedUploadStats' = EmptyMap
    /\ seeded' = FALSE
    /\ session' = EmptyMap

-----------------------------------------------------------------------------
Init ==
    /\ activeUploads = EmptyMap
    /\ closedUploadStats = EmptyMap
    /\ seeded = FALSE
    /\ session = EmptyMap

TotalsBounded == \A k \in DOMAIN activeUploads : activeUploads[k].cumulative <= MaxTotal

Next ==
    \/ \E rows \in Snapshots, now \in Times : update(rows, now) /\ TotalsBounded'
    \/ reset

Spec == Init /\ [][Next]_vars

-----------------------------------------------------------------------------
\* Every map has the keys and the values its declaration gives it; in
\* particular no total is negative.
TypeOK ==
    /\ DOMAIN activeUploads \subseteq Keys
    /\ activeUploads \in [DOMAIN activeUploads -> TrackedUpload]
    /\ DOMAIN closedUploadStats \subseteq Keys
    /\ closedUploadStats \in [DOMAIN closedUploadStats -> UploadStats]
    /\ seeded \in BOOLEAN
    /\ session \in [DOMAIN activeUploads -> [origin : Nat, lost : Nat]]

\* The running total of a connection is exactly the growth of its counter
\* since the tracker first saw it, plus what the counter had reached at each
\* reset: no byte shown by the counter is lost or counted twice, whatever
\* duplicates, gaps and resets the snapshots bring (UploadTracker::update,
\* computeDelta).
TotalsFollowCounter ==
    \A k \in DOMAIN activeUploads :
        activeUploads[k].cumulative + session[k].origin
            = activeUploads[k].baseline + session[k].lost

\* The ledger a tracker stands for.
Ledger == INSTANCE TransferLedger WITH
    open    <- [k \in DOMAIN activeUploads |-> activeUploads[k].cumulative],
    settled <- [k \in DOMAIN closedUploadStats |-> closedUploadStats[k].uploadedBytes]

\* What the tracker promises its users: totals that only grow while a
\* connection lasts, start at zero and are kept when it closes, whatever rows,
\* repeats and counter resets the snapshots bring (UploadTracker::update).
ImplementsLedger == Ledger!Spec
=============================================================================
