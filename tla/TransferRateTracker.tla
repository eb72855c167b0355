------------------------- MODULE TransferRateTracker -------------------------
(***************************************************************************)
(* network::TransferRateTracker: totals and rates in both directions per   *)
(* connection, and per process.  A process keeps the bytes of connections  *)
(* it has closed, moves to the closed processes when it loses its last     *)
(* connection and back when it opens one again.                            *)
(***************************************************************************)
EXTENDS SnapshotRows, FiniteSetsExt

CONSTANTS Keys,       \* connection identities
          Pids,       \* process identifiers
          PidOf,      \* the process of a connection (part of its identity)
          Names,      \* process names
          NoName,     \* the empty process name
          Times,      \* readings of the system clock
          RateUnit,   \* rates are integers: bytes per RateUnit clock ticks
          Snapshots,  \* the snapshots a caller may hand over
          MaxTotal    \* bound on a process total, for model checking

ASSUME ConstantsAssumption ==
    /\ PidOf \in [Keys -> Pids]
    /\ NoName \in Names
    /\ Times \subseteq Nat \ {NoTime}
    /\ RateUnit \in Nat
    /\ MaxTotal \in Nat

\* One ConnectionTransferSnapshot.
Row == [conn : Keys, name : Names, timestamp : Nat, bytes : [Directions -> Nat]]

ASSUME SnapshotsAssumption == Snapshots \subseteq Seq(Row)

VARIABLES activeTransfers,       \* key -> TrackedTransfer
          closedConnectionStats, \* key -> ConnectionBandwidthStats
          activeProcessStats,    \* pid -> ProcessBandwidthStats
          closedProcessStats,    \* pid -> ProcessBandwidthStats
          closedByProcess,       \* pid -> bytes of its closed connections
          processNames,          \* pid -> last known name
          processFirstObserved,  \* pid -> earliest observation
          seeded,                \* has the first snapshot been taken?
          credited               \* history: pid -> every byte ever counted

vars == <<activeTransfers, closedConnectionStats, activeProcessStats,
          closedProcessStats, closedByProcess, processNames,
          processFirstObserved, seeded, credited>>

Zero == [d \in Directions |-> 0]

TrackedTransfer ==
    [processName : Names, firstObserved : Nat, lastUpdated : Nat,
     baseline : [Directions -> Nat], cumulative : [Directions -> Nat],
     rate : [Directions -> Nat]]

ConnectionBandwidthStats ==
    [processName : Names, bytes : [Directions -> Nat], rate : [Directions -> Nat],
     firstObserved : Nat, lastUpdated : Nat, isActive : BOOLEAN]

ProcessBandwidthStats ==
    [processName : Names, bytes : [Directions -> Nat], rate : [Directions -> Nat],
     firstObserved : Nat, lastUpdated : Nat, activeConnectionCount : Nat]

-----------------------------------------------------------------------------
\* Bytes per second; no time passed, or the clock went back: zero.
computeRate(byteDelta, elapsed) ==
    IF elapsed <= 0 THEN 0 ELSE (byteDelta * RateUnit) \div elapsed

toConnectionStats(tracked, isActive) ==
    [processName |-> tracked.processName, bytes |-> tracked.cumulative,
     rate |-> IF isActive THEN tracked.rate ELSE Zero,
     firstObserved |-> tracked.firstObserved, lastUpdated |-> tracked.lastUpdated,
     isActive |-> isActive]

\* activeConnectionStats_ is rebuilt from activeTransfers_ at each update.
activeConnectionStats ==
    [k \in DOMAIN activeTransfers |-> toConnectionStats(activeTransfers[k], TRUE)]

\* Fault: what the counters showed before tracking began is counted.
StartTrackingCounted(row, now) ==
    [processName |-> row.name, firstObserved |-> ObservedAt(row, now),
     lastUpdated |-> ObservedAt(row, now),
     baseline |-> row.bytes, cumulative |-> row.bytes, rate |-> Zero]

StartTracking(row, now) ==
    [processName   |-> row.name,
     firstObserved |-> ObservedAt(row, now),
     lastUpdated   |-> ObservedAt(row, now),
     baseline      |-> row.bytes,
     cumulative    |-> Zero,
     rate          |-> Zero]

\* Fault: a counter that went backwards counts for nothing.
FreshClamped(k, row) ==
    [d \in Directions |-> Max({0, row.bytes[d] - activeTransfers[k].baseline[d]})]

Fresh(k, row) ==
    [d \in Directions |-> computeDelta(activeTransfers[k].baseline[d], row.bytes[d])]

KeepTracking(row, now) ==
    LET k        == makeKey(row)
        existing == activeTransfers[k]
        elapsed  == ObservedAt(row, now) - existing.lastUpdated
    IN  [processName   |-> IF row.name = NoName THEN existing.processName
                                                ELSE row.name,
         firstObserved |-> existing.firstObserved,
         lastUpdated   |-> ObservedAt(row, now),
         baseline      |-> row.bytes,
         cumulative    |-> [d \in Directions |->
                              existing.cumulative[d] + IF seeded THEN Fresh(k, row)[d] ELSE 0],
         rate          |-> [d \in Directions |->
                              IF seeded THEN computeRate(Fresh(k, row)[d], elapsed) ELSE 0]]

NextActive(snap, now) ==
    [k \in DOMAIN snap |-> IF k \in DOMAIN activeTransfers
                           THEN KeepTracking(snap[k], now)
                           ELSE StartTracking(snap[k], now)]

Closing(snap) == IF seeded THEN DOMAIN activeTransfers \ DOMAIN snap ELSE {}

-----------------------------------------------------------------------------
\* The per-process part of update and rebuildProcessStats.  next is the new
\* activeTransfers, closing the set of connections that just disappeared.

ConnsOf(p, S) == {k \in S : PidOf[k] = p}

PidsOf(S) == {PidOf[k] : k \in S}

\* Fault: the bytes of earlier closed connections are replaced, not added to.
ClosedByProcessReplaced(closing) ==
    Put(closedByProcess, [p \in PidsOf(closing) |-> [d \in Directions |->
        SumFunction([k \in ConnsOf(p, closing) |-> activeTransfers[k].cumulative[d]])]])

\* Bytes of closed connections, per process.
NextClosedByProcess(closing) ==
    Put(closedByProcess, [p \in PidsOf(closing) |-> [d \in Directions |->
        (IF p \in DOMAIN closedByProcess THEN closedByProcess[p][d] ELSE 0)
          + SumFunction([k \in ConnsOf(p, closing) |-> activeTransfers[k].cumulative[d]])]])

\* Fault: names known from earlier snapshots are not consulted.
NamesFromRows(p, next, closing) ==
    LET live == {next[k].processName : k \in ConnsOf(p, DOMAIN next)} \ {NoName}
    IN  IF live # {} THEN live ELSE {NoName}

\* A name for process p after the update: one of its connections' names; else
\* the name of a connection that just closed; else what was known.  Which
\* connection is asked first depends on the hash map's order.
NameCandidates(p, next, closing) ==
    LET live == {next[k].processName : k \in ConnsOf(p, DOMAIN next)} \ {NoName}
        gone == {activeTransfers[k].processName : k \in ConnsOf(p, closing)} \ {NoName}
    IN  IF live # {} THEN live
        ELSE IF gone # {} THEN gone
        ELSE IF p \in DOMAIN processNames THEN {processNames[p]}
        ELSE {NoName}

NextNames(next, closing) ==
    LET known == DOMAIN processNames \cup PidsOf(DOMAIN next)
    IN  {names \in [known -> Names] :
            \A p \in known : names[p] \in NameCandidates(p, next, closing)}

\* Fault: earlier observations of the process are not consulted.
FirstObservedNow(next) ==
    Put(processFirstObserved, [p \in PidsOf(DOMAIN next) |->
        Min({next[k].firstObserved : k \in ConnsOf(p, DOMAIN next)})])

NextFirstObserved(next) ==
    Put(processFirstObserved, [p \in PidsOf(DOMAIN next) |->
        Min({next[k].firstObserved : k \in ConnsOf(p, DOMAIN next)}
              \cup IF p \in DOMAIN processFirstObserved
                   THEN {processFirstObserved[p]} ELSE {})])

ClosedBytes(p, closedBytes) == IF p \in DOMAIN closedBytes THEN closedBytes[p] ELSE Zero

\* The aggregate of process p, which has a connection.
Aggregate(p, next, closedBytes, names, firsts) ==
    LET mine == ConnsOf(p, DOMAIN next)
    IN  [processName   |-> names[p],
         bytes         |-> [d \in Directions |->
                              SumFunction([k \in mine |-> next[k].cumulative[d]])
                                + ClosedBytes(p, closedBytes)[d]],
         rate          |-> [d \in Directions |->
                              SumFunction([k \in mine |-> next[k].rate[d]])],
         firstObserved |-> firsts[p],
         lastUpdated   |-> Max({next[k].lastUpdated : k \in mine}),
         activeConnectionCount |-> Cardinality(mine)]

\* The record of process p, which has lost its last connection.
Retired(p, closedBytes) ==
    LET previous == activeProcessStats[p]
    IN  [processName   |-> previous.processName,
         bytes         |-> IF p \in DOMAIN closedBytes THEN closedBytes[p] ELSE previous.bytes,
         rate          |-> Zero,
         firstObserved |-> previous.firstObserved,
         lastUpdated   |-> previous.lastUpdated,
         activeConnectionCount |-> 0]

Retiring(running) == DOMAIN activeProcessStats \ running

\* Fault: a process that returns stays among the closed ones.
ClosedProcessesKept(running, closedBytes) ==
    [p \in DOMAIN closedProcessStats \cup Retiring(running) |->
        IF p \in Retiring(running) THEN Retired(p, closedBytes) ELSE closedProcessStats[p]]

NextClosedProcesses(running, closedBytes) ==
    [p \in (DOMAIN closedProcessStats \cup Retiring(running)) \ running |->
        IF p \in Retiring(running) THEN Retired(p, closedBytes) ELSE closedProcessStats[p]]

rebuildProcessStats(next, closing) ==
    LET running == PidsOf(DOMAIN next)
        closedBytes == NextClosedByProcess(closing)
    IN  \E names \in NextNames(next, closing) :
        /\ processNames' = names
        /\ processFirstObserved' = NextFirstObserved(next)
        /\ closedByProcess' = closedBytes
        /\ closedProcessStats' = NextClosedProcesses(running, closedBytes)
        /\ activeProcessStats' =
              [p \in running |->
                  Aggregate(p, next, closedBytes, names, NextFirstObserved(next))]

\* History only.
NextCredited(snap) ==
    LET staying(p) == ConnsOf(p, DOMAIN snap \cap DOMAIN activeTransfers)
    IN  [p \in Pids |-> [d \in Directions |->
            credited[p][d] + SumFunction([k \in staying(p) |-> Fresh(k, snap[k])[d]])]]

update(rows, now) ==
    LET snap == Dedupe(rows)
        next == NextActive(snap, now)
        closing == Closing(snap)
    IN  /\ activeTransfers' = next
        /\ closedConnectionStats' =
              Put(closedConnectionStats,
                  [k \in closing |-> toConnectionStats(activeTransfers[k], FALSE)])
        /\ rebuildProcessStats(next, closing)
        /\ seeded' = TRUE
        /\ credited' = NextCredited(snap)

Init ==
    /\ activeTransfers = EmptyMap
    /\ closedConnectionStats = EmptyMap
    /\ activeProcessStats = EmptyMap
    /\ closedProcessStats = EmptyMap
    /\ closedByProcess = EmptyMap
    /\ processNames = EmptyMap
    /\ processFirstObserved = EmptyMap
    /\ seeded = FALSE
    /\ credited = [p \in Pids |-> Zero]

reset ==
    /\ activeTransfers' = EmptyMap
    /\ closedConnectionStats' = EmptyMap
    /\ activeProcessStats' = EmptyMap
    /\ closedProcessStats' = EmptyMap
    /\ closedByProcess' = EmptyMap
    /\ processNames' = EmptyMap
    /\ processFirstObserved' = EmptyMap
    /\ seeded' = FALSE
    /\ credited' = [p \in Pids |-> Zero]

TotalsBounded == \A p \in Pids, d \in Directions : credited[p][d] <= MaxTotal

Next ==
    \/ \E rows \in Snapshots, now \in Times : update(rows, now) /\ TotalsBounded'
    \/ reset

Spec == Init /\ [][Next]_vars

-----------------------------------------------------------------------------
\* Every map has the keys and the values its declaration gives it.
TypeOK ==
    /\ DOMAIN activeTransfers \subseteq Keys
    /\ activeTransfers \in [DOMAIN activeTransfers -> TrackedTransfer]
    /\ DOMAIN closedConnectionStats \subseteq Keys
    /\ closedConnectionStats \in [DOMAIN closedConnectionStats -> ConnectionBandwidthStats]
    /\ DOMAIN activeProcessStats \subseteq Pids
    /\ activeProcessStats \in [DOMAIN activeProcessStats -> ProcessBandwidthStats]
    /\ DOMAIN closedProcessStats \subseteq Pids
    /\ closedProcessStats \in [DOMAIN closedProcessStats -> ProcessBandwidthStats]
    /\ closedByProcess \in [DOMAIN closedByProcess -> [Directions -> Nat]]
    /\ processNames \in [DOMAIN processNames -> Names]
    /\ processFirstObserved \in [DOMAIN processFirstObserved -> Nat]
    /\ seeded \in BOOLEAN
    /\ credited \in [Pids -> [Directions -> Nat]]

Reported(p) == IF p \in DOMAIN activeProcessStats THEN activeProcessStats[p]
                                                  ELSE closedProcessStats[p]

Known == DOMAIN activeProcessStats \cup DOMAIN closedProcessStats

\* A process that has ever been seen is listed exactly once, as running or as
\* closed, and it is listed as running exactly when it has a connection
\* (rebuildProcessStats, lines 146-211).
EachProcessListedOnce ==
    /\ DOMAIN activeProcessStats \cap DOMAIN closedProcessStats = {}
    /\ Known = DOMAIN processFirstObserved
    /\ DOMAIN activeProcessStats = PidsOf(DOMAIN activeTransfers)

\* The total shown for a process, running or closed, is every byte ever counted
\* for any of its connections: closing, reopening and key reuse neither lose
\* nor repeat one (update, lines 326-342; rebuildProcessStats, 115-183).
ProcessTotalsConserved ==
    \A p \in Known : Reported(p).bytes = credited[p]

\* A process once named is never shown without a name again, although rows
\* may come without one (lines 129-133, 279-282, 295-298, 337-340).
NameNeverForgotten ==
    [][seeded' => \A p \in Known : Reported(p).processName # NoName
                                     => Reported(p)'.processName # NoName]_vars

\* The first observation of a process never moves to a later time, also when
\* it returns after having been closed or the clock steps back.
FirstObservedNeverLater ==
    [][seeded' => \A p \in Known : Reported(p)'.firstObserved <= Reported(p).firstObserved]_vars

\* The ledger of sent bytes.
SentLedger == INSTANCE TransferLedger WITH
    open    <- [k \in DOMAIN activeTransfers |-> activeTransfers[k].cumulative["sent"]],
    settled <- [k \in DOMAIN closedConnectionStats |-> closedConnectionStats[k].bytes["sent"]]

\* For sent bytes the tracker keeps the same promise as UploadTracker
\* (TransferRateTracker::update).
ImplementsSentLedger == SentLedger!Spec
=============================================================================
