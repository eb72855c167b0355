----------------------- MODULE TransferTrackersProofs -----------------------
(***************************************************************************)
(* TransferRateTracker alone and beside UploadTracker and DownloadTracker, *)
(* for every set of connections and processes and every snapshot: which    *)
(* processes it lists, what it remembers of them, that it keeps the ledger *)
(* of sent bytes, and that the three trackers agree.                       *)
(***************************************************************************)
EXTENDS TransferTrackers, SnapshotRowsProofs

\* A snapshot indexed by key.
IsSnap(snap) ==
    /\ DOMAIN snap \subseteq Keys
    /\ snap \in [DOMAIN snap -> Row]
    /\ \A k \in DOMAIN snap : snap[k].conn = k

-----------------------------------------------------------------------------
(* Inductive invariants of the rate tracker.                               *)

\* What is tracked of a connection.  Before the first snapshot, and after
\* reset(), nothing is: no counter moves without being counted.
ConnectionShape ==
    /\ DOMAIN activeTransfers \subseteq Keys
    /\ \A k \in DOMAIN activeTransfers :
          /\ activeTransfers[k].baseline \in [Directions -> Nat]
          /\ activeTransfers[k].cumulative \in [Directions -> Nat]
          /\ activeTransfers[k].firstObserved \in Nat
    /\ ~seeded => DOMAIN activeTransfers = {}

\* What the lists say of a process agrees with the maps that outlive them: a
\* process keeps its first observation, and its name if it ever had one.
ProcessShape ==
    /\ DOMAIN processNames = DOMAIN processFirstObserved
    /\ \A p \in DOMAIN processFirstObserved : processFirstObserved[p] \in Nat
    /\ \A p \in Known : Reported(p).firstObserved = processFirstObserved[p]
    /\ \A p \in DOMAIN activeProcessStats : activeProcessStats[p].processName = processNames[p]
    /\ \A p \in Known : Reported(p).processName # NoName => processNames[p] # NoName

RateInv == ConnectionShape /\ EachProcessListedOnce /\ ProcessShape

-----------------------------------------------------------------------------
(* Operators.                                                              *)

\* Every snapshot a caller hands over is indexed into one row per key.
LEMMA SnapFromRows ==
    ASSUME NEW rows \in Snapshots
    PROVE  IsSnap(Dedupe(rows))
<1>1. rows \in Seq(Row)
  BY SnapshotsAssumption
<1>2. KeysOf(rows) \subseteq Keys
  <2>1. \A i \in DOMAIN rows : rows[i] \in Row
    BY <1>1
  <2>2. \A i \in DOMAIN rows : rows[i].conn \in Keys
    BY <2>1 DEF Row
  <2> QED BY <2>2 DEF KeysOf, makeKey
<1> QED BY <1>1, <1>2, DedupeRows DEF IsSnap

\* The least element of a set of naturals.
LEMMA MinLeast ==
    ASSUME NEW T, T \subseteq Nat, T # {}
    PROVE  Min(T) \in T /\ \A y \in T : Min(T) <= y
<1>1. PICK x \in T : \A y \in T : x <= y
  BY LeastIndex
<1>2. \A y \in T : x =< y
  BY <1>1
<1> QED BY <1>2 DEF Min

\* The connections tracked after an update are those of the snapshot.
LEMMA NextActiveShape ==
    ASSUME ConnectionShape, NEW snap, IsSnap(snap), NEW now \in Nat
    PROVE  /\ DOMAIN NextActive(snap, now) = DOMAIN snap
           /\ \A k \in DOMAIN snap :
                 /\ NextActive(snap, now)[k].baseline = snap[k].bytes
                 /\ NextActive(snap, now)[k].baseline \in [Directions -> Nat]
                 /\ NextActive(snap, now)[k].cumulative \in [Directions -> Nat]
                 /\ NextActive(snap, now)[k].firstObserved \in Nat
           /\ \A k \in DOMAIN snap \cap DOMAIN activeTransfers : \A d \in Directions :
                 NextActive(snap, now)[k].cumulative[d] = activeTransfers[k].cumulative[d]
                     + (IF seeded THEN computeDelta(activeTransfers[k].baseline[d], snap[k].bytes[d])
                        ELSE 0)
           /\ \A k \in DOMAIN snap \ DOMAIN activeTransfers :
                 NextActive(snap, now)[k].cumulative = Zero
<1>1. ASSUME NEW k \in DOMAIN snap
      PROVE  /\ snap[k].bytes \in [Directions -> Nat] /\ snap[k].conn = k
             /\ ObservedAt(snap[k], now) \in Nat
  BY DEF IsSnap, Row, ObservedAt
<1>2. ASSUME NEW k \in DOMAIN snap \cap DOMAIN activeTransfers
      PROVE  LET new == NextActive(snap, now)[k]
             IN  /\ new.baseline = snap[k].bytes
                 /\ new.firstObserved \in Nat
                 /\ new.cumulative \in [Directions -> Nat]
                 /\ \A d \in Directions :
                       new.cumulative[d] = activeTransfers[k].cumulative[d]
                         + (IF seeded
                            THEN computeDelta(activeTransfers[k].baseline[d], snap[k].bytes[d])
                            ELSE 0)
  <2>1. NextActive(snap, now)[k] = KeepTracking(snap[k], now)
    BY DEF NextActive
  <2>2. makeKey(snap[k]) = k
    BY <1>1 DEF makeKey
  <2>3. /\ KeepTracking(snap[k], now).baseline = snap[k].bytes
        /\ KeepTracking(snap[k], now).firstObserved = activeTransfers[k].firstObserved
        /\ KeepTracking(snap[k], now).cumulative =
              [d \in Directions |-> activeTransfers[k].cumulative[d]
                                      + IF seeded THEN Fresh(k, snap[k])[d] ELSE 0]
    BY <2>2 DEF KeepTracking
  <2>4. \A d \in Directions :
            /\ Fresh(k, snap[k])[d] = computeDelta(activeTransfers[k].baseline[d], snap[k].bytes[d])
            /\ activeTransfers[k].baseline[d] \in Nat /\ snap[k].bytes[d] \in Nat
            /\ activeTransfers[k].cumulative[d] \in Nat
    BY <1>1 DEF Fresh, ConnectionShape
  <2>5. \A d \in Directions : Fresh(k, snap[k])[d] \in Nat
    BY <2>4, DeltaBounds
  <2> QED BY <2>1, <2>3, <2>4, <2>5 DEF ConnectionShape
<1>3. ASSUME NEW k \in DOMAIN snap \ DOMAIN activeTransfers
      PROVE  LET new == NextActive(snap, now)[k]
             IN  /\ new.baseline = snap[k].bytes
                 /\ new.firstObserved \in Nat
                 /\ new.cumulative = Zero
  BY <1>1 DEF NextActive, StartTracking
<1>4. Zero \in [Directions -> Nat]
  BY DEF Zero
<1>5. DOMAIN NextActive(snap, now) = DOMAIN snap
  BY DEF NextActive
<1> QED BY <1>1, <1>2, <1>3, <1>4, <1>5

\* The earliest observation of a process with a connection.
LEMMA FirstObservedEffect ==
    ASSUME ProcessShape, NEW next, \A k \in DOMAIN next : next[k].firstObserved \in Nat
    PROVE  /\ DOMAIN NextFirstObserved(next) = DOMAIN processFirstObserved \cup PidsOf(DOMAIN next)
           /\ \A p \in DOMAIN NextFirstObserved(next) : NextFirstObserved(next)[p] \in Nat
           /\ \A p \in DOMAIN processFirstObserved :
                 /\ NextFirstObserved(next)[p] <= processFirstObserved[p]
                 /\ p \notin PidsOf(DOMAIN next) =>
                       NextFirstObserved(next)[p] = processFirstObserved[p]
<1> DEFINE T(p) == {next[k].firstObserved : k \in ConnsOf(p, DOMAIN next)}
                     \cup IF p \in DOMAIN processFirstObserved THEN {processFirstObserved[p]} ELSE {}
<1>1. /\ DOMAIN NextFirstObserved(next) = DOMAIN processFirstObserved \cup PidsOf(DOMAIN next)
      /\ \A p \in PidsOf(DOMAIN next) : NextFirstObserved(next)[p] = Min(T(p))
      /\ \A p \in DOMAIN processFirstObserved \ PidsOf(DOMAIN next) :
            NextFirstObserved(next)[p] = processFirstObserved[p]
  BY DEF NextFirstObserved, Put
<1>2. ASSUME NEW p \in PidsOf(DOMAIN next)
      PROVE  /\ Min(T(p)) \in Nat
             /\ p \in DOMAIN processFirstObserved => Min(T(p)) <= processFirstObserved[p]
  <2>1. T(p) \subseteq Nat
    BY DEF ConnsOf, ProcessShape
  <2>2. T(p) # {}
    <3>1. PICK k \in DOMAIN next : PidOf[k] = p
      BY DEF PidsOf
    <3>2. next[k].firstObserved \in T(p)
      BY <3>1 DEF ConnsOf
    <3> QED BY <3>2
  <2>3. Min(T(p)) \in T(p) /\ \A y \in T(p) : Min(T(p)) <= y
    <3> HIDE DEF T
    <3> QED BY <2>1, <2>2, MinLeast
  <2>4. p \in DOMAIN processFirstObserved => processFirstObserved[p] \in T(p)
    OBVIOUS
  <2> HIDE DEF T
  <2> QED BY <2>1, <2>3, <2>4
<1> HIDE DEF T
<1>3. ASSUME NEW p \in DOMAIN NextFirstObserved(next) PROVE NextFirstObserved(next)[p] \in Nat
  BY <1>1, <1>2 DEF ProcessShape
<1>4. ASSUME NEW p \in DOMAIN processFirstObserved
      PROVE  NextFirstObserved(next)[p] <= processFirstObserved[p]
  BY <1>1, <1>2 DEF ProcessShape
<1> QED BY <1>1, <1>3, <1>4

\* A process that was ever named has a name to be given.
LEMMA NamesOffered ==
    ASSUME NEW next, NEW closing, NEW names \in NextNames(next, closing)
    PROVE  /\ DOMAIN names = DOMAIN processNames \cup PidsOf(DOMAIN next)
           /\ \A p \in DOMAIN processNames : processNames[p] # NoName => names[p] # NoName
  BY DEF NextNames, NameCandidates

-----------------------------------------------------------------------------
(* Steps of the rate tracker.                                              *)

\* What an update does to the lists of processes, whatever the connections.
LEMMA ProcessesRebuilt ==
    ASSUME RateInv, NEW next, NEW closing, rebuildProcessStats(next, closing),
           \A k \in DOMAIN next : next[k].firstObserved \in Nat,
           activeTransfers' = next
    PROVE  /\ EachProcessListedOnce' /\ ProcessShape'
           /\ \A p \in Known :
                 /\ p \in Known'
                 /\ Reported(p)'.firstObserved <= Reported(p).firstObserved
                 /\ Reported(p).processName # NoName => Reported(p)'.processName # NoName
<1> DEFINE running == PidsOf(DOMAIN next)
           closedBytes == NextClosedByProcess(closing)
           firsts == NextFirstObserved(next)
<1>1. PICK names \in NextNames(next, closing) :
        /\ processNames' = names
        /\ processFirstObserved' = firsts
        /\ closedProcessStats' = NextClosedProcesses(running, closedBytes)
        /\ activeProcessStats' = [p \in running |-> Aggregate(p, next, closedBytes, names, firsts)]
  BY DEF rebuildProcessStats
<1>2. /\ DOMAIN names = DOMAIN processNames \cup running
      /\ \A p \in DOMAIN processNames : processNames[p] # NoName => names[p] # NoName
  BY NamesOffered
<1>3. /\ DOMAIN firsts = DOMAIN processFirstObserved \cup running
      /\ \A p \in DOMAIN firsts : firsts[p] \in Nat
      /\ \A p \in DOMAIN processFirstObserved :
            /\ firsts[p] <= processFirstObserved[p]
            /\ p \notin running => firsts[p] = processFirstObserved[p]
  BY FirstObservedEffect DEF RateInv
<1>4. /\ DOMAIN activeProcessStats' = running
      /\ \A p \in running : /\ activeProcessStats'[p].processName = names[p]
                            /\ activeProcessStats'[p].firstObserved = firsts[p]
  BY <1>1 DEF Aggregate
<1>5. /\ DOMAIN closedProcessStats' =
            (DOMAIN closedProcessStats \cup DOMAIN activeProcessStats) \ running
      /\ \A p \in DOMAIN closedProcessStats' :
            IF p \in DOMAIN activeProcessStats
            THEN /\ closedProcessStats'[p].processName = activeProcessStats[p].processName
                 /\ closedProcessStats'[p].firstObserved = activeProcessStats[p].firstObserved
            ELSE closedProcessStats'[p] = closedProcessStats[p]
  BY <1>1 DEF NextClosedProcesses, Retiring, Retired
<1>6. PidsOf(DOMAIN activeTransfers)' = running
  BY DEF PidsOf
<1> HIDE DEF running, closedBytes, firsts
<1>7. /\ Known = DOMAIN processFirstObserved
      /\ DOMAIN processNames = DOMAIN processFirstObserved
      /\ DOMAIN activeProcessStats \cap DOMAIN closedProcessStats = {}
  BY DEF RateInv, EachProcessListedOnce, ProcessShape
<1>8. Known' = Known \cup running
  BY <1>4, <1>5 DEF Known
<1>9. EachProcessListedOnce'
  BY <1>1, <1>3, <1>4, <1>5, <1>6, <1>7, <1>8 DEF EachProcessListedOnce
<1>10. \A p \in Known' : IF p \in running
                         THEN Reported(p)' = activeProcessStats'[p]
                         ELSE Reported(p)' = closedProcessStats'[p]
  BY <1>4 DEF Reported
<1>11. ASSUME NEW p \in Known'
       PROVE  IF p \in running
              THEN Reported(p)'.firstObserved = firsts[p] /\ Reported(p)'.processName = names[p]
              ELSE /\ p \in Known
                   /\ Reported(p)'.firstObserved = Reported(p).firstObserved
                   /\ Reported(p)'.processName = Reported(p).processName
  <2>1. CASE p \in running
    BY <1>4, <1>10, <2>1
  <2>2. CASE p \notin running
    <3>1. p \in DOMAIN closedProcessStats' /\ p \in Known /\ Reported(p)' = closedProcessStats'[p]
      BY <1>5, <1>8, <1>10, <2>2 DEF Known
    <3> QED BY <1>5, <2>2, <3>1 DEF Reported
  <2> QED BY <2>1, <2>2
<1>12. ASSUME NEW p \in Known
       PROVE  /\ Reported(p).firstObserved = processFirstObserved[p]
              /\ processFirstObserved[p] \in Nat
              /\ Reported(p).processName # NoName => processNames[p] # NoName
  BY <1>7 DEF RateInv, ProcessShape
<1>13. ProcessShape'
  <2>1. DOMAIN processNames' = DOMAIN processFirstObserved'
    BY <1>1, <1>2, <1>3, <1>7
  <2>2. \A p \in DOMAIN processFirstObserved' : processFirstObserved'[p] \in Nat
    BY <1>1, <1>3
  <2>3. ASSUME NEW p \in Known' PROVE Reported(p)'.firstObserved = processFirstObserved'[p]
    BY <1>1, <1>3, <1>7, <1>11, <1>12
  <2>4. \A p \in DOMAIN activeProcessStats' : activeProcessStats'[p].processName = processNames'[p]
    BY <1>1, <1>4
  <2>5. ASSUME NEW p \in Known', Reported(p)'.processName # NoName PROVE processNames'[p] # NoName
    BY <1>1, <1>2, <1>7, <1>11, <1>12, <2>5
  <2> QED BY <2>1, <2>2, <2>3, <2>4, <2>5 DEF ProcessShape
<1>14. ASSUME NEW p \in Known
       PROVE  /\ p \in Known'
              /\ Reported(p)'.firstObserved <= Reported(p).firstObserved
              /\ Reported(p).processName # NoName => Reported(p)'.processName # NoName
  BY <1>2, <1>3, <1>7, <1>8, <1>11, <1>12
<1> QED BY <1>9, <1>13, <1>14

\* The parts of an update.
LEMMA UpdateParts ==
    ASSUME RateInv, NEW rows \in Snapshots, NEW now \in Times, update(rows, now)
    PROVE  LET snap == Dedupe(rows)
           IN  /\ IsSnap(snap) /\ now \in Nat
               /\ activeTransfers' = NextActive(snap, now)
               /\ closedConnectionStats' =
                     Put(closedConnectionStats,
                         [k \in Closing(snap) |-> toConnectionStats(activeTransfers[k], FALSE)])
               /\ rebuildProcessStats(NextActive(snap, now), Closing(snap))
               /\ seeded' = TRUE
               /\ \A k \in DOMAIN NextActive(snap, now) :
                     NextActive(snap, now)[k].firstObserved \in Nat
<1> DEFINE snap == Dedupe(rows)
<1>1. IsSnap(snap) /\ now \in Nat
  BY SnapFromRows, ConstantsAssumption
<1>2. \A k \in DOMAIN NextActive(snap, now) : NextActive(snap, now)[k].firstObserved \in Nat
  <2> HIDE DEF snap
  <2> QED BY <1>1, NextActiveShape DEF RateInv
<1> QED BY <1>1, <1>2 DEF update

\* An update keeps the invariant.
LEMMA UpdateInv ==
    ASSUME RateInv, NEW rows \in Snapshots, NEW now \in Times, update(rows, now)
    PROVE  RateInv'
<1>1. PICK snap : /\ IsSnap(snap) /\ now \in Nat
                  /\ activeTransfers' = NextActive(snap, now)
                  /\ rebuildProcessStats(NextActive(snap, now), Closing(snap))
                  /\ seeded' = TRUE
                  /\ \A k \in DOMAIN NextActive(snap, now) :
                        NextActive(snap, now)[k].firstObserved \in Nat
  BY UpdateParts
<1>2. EachProcessListedOnce' /\ ProcessShape'
  BY <1>1, ProcessesRebuilt
<1>3. ConnectionShape'
  BY <1>1, NextActiveShape DEF RateInv, ConnectionShape, IsSnap
<1> QED BY <1>2, <1>3 DEF RateInv

\* reset() forgets connections and processes.
LEMMA ResetInv == reset => RateInv'
<1> SUFFICES ASSUME reset PROVE RateInv'
  OBVIOUS
<1>1. /\ DOMAIN activeTransfers' = {} /\ DOMAIN activeProcessStats' = {}
      /\ DOMAIN closedProcessStats' = {} /\ DOMAIN processNames' = {}
      /\ DOMAIN processFirstObserved' = {}
  BY DEF reset, EmptyMap
<1> QED BY <1>1 DEF RateInv, ConnectionShape, EachProcessListedOnce, ProcessShape, Known, PidsOf

\* The invariant holds initially and is preserved by every step.
LEMMA RateInvariance == Spec => []RateInv
<1>1. Init => RateInv
  <2> SUFFICES ASSUME Init PROVE RateInv
    OBVIOUS
  <2>1. /\ DOMAIN activeTransfers = {} /\ DOMAIN activeProcessStats = {}
        /\ DOMAIN closedProcessStats = {} /\ DOMAIN processNames = {}
        /\ DOMAIN processFirstObserved = {}
    BY DEF Init, EmptyMap
  <2> QED BY <2>1 DEF RateInv, ConnectionShape, EachProcessListedOnce, ProcessShape, Known, PidsOf
<1>2. RateInv /\ [Next]_vars => RateInv'
  <2> SUFFICES ASSUME RateInv, [Next]_vars PROVE RateInv'
    OBVIOUS
  <2>1. CASE UNCHANGED vars
    <3>1. UNCHANGED <<activeTransfers, activeProcessStats, closedProcessStats, processNames,
                      processFirstObserved, seeded>>
      BY <2>1 DEF vars
    <3>2. EachProcessListedOnce' /\ ProcessShape'
      BY <3>1 DEF RateInv, EachProcessListedOnce, ProcessShape, Known, Reported, PidsOf
    <3>3. ConnectionShape'
      BY <3>1 DEF RateInv, ConnectionShape
    <3> QED BY <3>2, <3>3 DEF RateInv
  <2> QED BY <2>1, UpdateInv, ResetInv DEF Next
<1> QED BY <1>1, <1>2, PTL DEF Spec

-----------------------------------------------------------------------------
(* Theorems about the rate tracker.                                        *)

\* Every process ever seen is listed once, as running exactly while it has a
\* connection: for any connections and processes, and through every closing and
\* return of a process.
THEOREM ProcessesListedOnce == Spec => []EachProcessListedOnce
<1>1. RateInv => EachProcessListedOnce
  BY DEF RateInv
<1> QED BY <1>1, RateInvariance, PTL

\* A step that ends seeded and changes anything is an update.
LEMMA SeededStep ==
    ASSUME RateInv, Next, seeded', NEW p \in Known
    PROVE  /\ Reported(p)'.firstObserved <= Reported(p).firstObserved
           /\ Reported(p).processName # NoName => Reported(p)'.processName # NoName
<1>1. PICK rows \in Snapshots, now \in Times : update(rows, now)
  <2>1. ~reset
    BY DEF reset
  <2> QED BY <2>1 DEF Next
<1>2. PICK snap : /\ activeTransfers' = NextActive(snap, now)
                  /\ rebuildProcessStats(NextActive(snap, now), Closing(snap))
                  /\ \A k \in DOMAIN NextActive(snap, now) :
                        NextActive(snap, now)[k].firstObserved \in Nat
  BY <1>1, UpdateParts
<1> QED BY <1>2, ProcessesRebuilt

\* A process once named stays named, whichever of its connections come, go or
\* arrive without a name.
THEOREM NamesKept == Spec => NameNeverForgotten
<1>1. RateInv /\ [Next]_vars =>
        [seeded' => \A p \in Known : Reported(p).processName # NoName
                                       => Reported(p)'.processName # NoName]_vars
  BY SeededStep
<1> QED BY <1>1, RateInvariance, PTL DEF Spec, NameNeverForgotten

\* The first observation of a process only ever moves to an earlier time.
THEOREM FirstObservationsKept == Spec => FirstObservedNeverLater
<1>1. RateInv /\ [Next]_vars =>
        [seeded' => \A p \in Known : Reported(p)'.firstObserved <= Reported(p).firstObserved]_vars
  BY SeededStep
<1> QED BY <1>1, RateInvariance, PTL DEF Spec, FirstObservedNeverLater

-----------------------------------------------------------------------------
(* The ledger of sent bytes.                                               *)

Open == [k \in DOMAIN activeTransfers |-> activeTransfers[k].cumulative["sent"]]
Settled == [k \in DOMAIN closedConnectionStats |-> closedConnectionStats[k].bytes["sent"]]

\* An update is an observation of the ledger.
LEMMA UpdateObserves ==
    ASSUME RateInv, NEW rows \in Snapshots, NEW now \in Times, update(rows, now)
    PROVE  SentLedger!Observe
<1>1. PICK snap : /\ IsSnap(snap) /\ now \in Nat
                  /\ activeTransfers' = NextActive(snap, now)
                  /\ closedConnectionStats' =
                        Put(closedConnectionStats,
                            [k \in Closing(snap) |-> toConnectionStats(activeTransfers[k], FALSE)])
  BY UpdateParts
<1>2. ConnectionShape' /\ DOMAIN activeTransfers' = DOMAIN snap
  BY <1>1, UpdateInv, NextActiveShape DEF RateInv
<1>3. SentLedger!IsTotals(Open)'
  <2>1. DOMAIN Open' = DOMAIN activeTransfers'
    BY DEF Open
  <2>2. \A k \in DOMAIN activeTransfers' : activeTransfers'[k].cumulative["sent"] \in Nat
    BY <1>2 DEF ConnectionShape, Directions
  <2>3. Open' \in [DOMAIN activeTransfers' -> Nat]
    BY <2>2 DEF Open
  <2> QED BY <1>2, <2>1, <2>3 DEF SentLedger!IsTotals, ConnectionShape
<1>4. ASSUME NEW k \in DOMAIN Open'
      PROVE  IF k \in DOMAIN Open THEN Open'[k] >= Open[k] ELSE Open'[k] = 0
  <2>1. k \in DOMAIN snap /\ Open'[k] = activeTransfers'[k].cumulative["sent"]
    BY <1>2 DEF Open
  <2>2. CASE k \in DOMAIN activeTransfers
    <3>1. /\ activeTransfers[k].cumulative["sent"] \in Nat
          /\ activeTransfers[k].baseline["sent"] \in Nat
          /\ snap[k].bytes["sent"] \in Nat
      BY <1>1, <2>1, <2>2 DEF RateInv, ConnectionShape, Directions, IsSnap, Row
    <3>2. computeDelta(activeTransfers[k].baseline["sent"], snap[k].bytes["sent"]) \in Nat
      BY <3>1, DeltaBounds
    <3>3. activeTransfers'[k].cumulative["sent"] = activeTransfers[k].cumulative["sent"]
            + (IF seeded
               THEN computeDelta(activeTransfers[k].baseline["sent"], snap[k].bytes["sent"])
               ELSE 0)
      BY <1>1, <2>1, <2>2, NextActiveShape DEF RateInv, Directions
    <3> QED BY <2>1, <2>2, <3>1, <3>2, <3>3 DEF Open
  <2>3. CASE k \notin DOMAIN activeTransfers
    <3>1. activeTransfers'[k].cumulative = Zero
      BY <1>1, <2>1, <2>3, NextActiveShape DEF RateInv
    <3> QED BY <2>1, <2>3, <3>1 DEF Open, Zero, Directions
  <2> QED BY <2>2, <2>3
<1>5. Settled' = Put(Settled, [k \in DOMAIN Open \ DOMAIN Open' |-> Open[k]])
  <2>1. DOMAIN Open \ DOMAIN Open' = Closing(snap)
    <3>1. CASE seeded
      BY <3>1, <1>2 DEF Open, Closing
    <3>2. CASE ~seeded
      BY <3>2 DEF Open, Closing, RateInv, ConnectionShape
    <3> QED BY <3>1, <3>2
  <2>2. Closing(snap) \subseteq DOMAIN activeTransfers
    BY DEF Closing
  <2> QED BY <1>1, <2>1, <2>2 DEF Settled, Open, Put, toConnectionStats
<1> QED BY <1>3, <1>4, <1>5
        DEF SentLedger!Observe, SentLedger!IsTotals, Open, Settled, Put, SentLedger!Put

\* The rate tracker keeps the ledger of sent bytes: the same promise as
\* UploadTracker, in a class that counts for itself.
THEOREM KeepsSentLedger == Spec => ImplementsSentLedger
<1>1. Init => SentLedger!Init
  BY DEF Init, SentLedger!Init, EmptyMap, SentLedger!EmptyMap
<1>2. RateInv /\ [Next]_vars => [SentLedger!Next]_<<Open, Settled>>
  <2> SUFFICES ASSUME RateInv, [Next]_vars PROVE [SentLedger!Next]_<<Open, Settled>>
    OBVIOUS
  <2>1. ASSUME NEW rows \in Snapshots, NEW now \in Times, update(rows, now)
        PROVE  SentLedger!Next
    BY <2>1, UpdateObserves DEF SentLedger!Next
  <2>2. CASE reset
    BY <2>2 DEF reset, SentLedger!Next, SentLedger!Forget, EmptyMap, SentLedger!EmptyMap
  <2>3. CASE UNCHANGED vars
    BY <2>3 DEF vars, Open, Settled
  <2> QED BY <2>1, <2>2, <2>3 DEF Next
<1> QED BY <1>1, <1>2, RateInvariance, PTL
        DEF Spec, ImplementsSentLedger, SentLedger!Spec, Open, Settled

-----------------------------------------------------------------------------
(* The bytes of a process.                                                 *)

\* What the open connections of p in the set conns have counted.
CountedBy(conns, tracked, d) == SumFunction([k \in conns |-> tracked[k].cumulative[d]])

LedgersTyped ==
    /\ IsFiniteSet(DOMAIN activeTransfers)
    /\ closedByProcess \in [DOMAIN closedByProcess -> [Directions -> Nat]]
    /\ credited \in [Pids -> [Directions -> Nat]]
    /\ Known \subseteq Pids

\* Every byte ever counted for a process is with one of its open connections or
\* with its closed ones.
NothingLost ==
    \A p \in Pids, d \in Directions :
        credited[p][d] = CountedBy(ConnsOf(p, DOMAIN activeTransfers), activeTransfers, d)
                           + ClosedBytes(p, closedByProcess)[d]

TotalsInv == RateInv /\ LedgersTyped /\ NothingLost /\ ProcessTotalsConserved

\* Sums over connections are naturals, and split with the connections.
LEMMA CountedSplit ==
    ASSUME NEW S, IsFiniteSet(S), NEW T, IsFiniteSet(T), NEW U, Disjoint(S, T, U),
           NEW tracked, NEW d, \A k \in U : tracked[k].cumulative[d] \in Nat
    PROVE  /\ CountedBy(U, tracked, d) = CountedBy(S, tracked, d) + CountedBy(T, tracked, d)
           /\ CountedBy(S, tracked, d) \in Nat /\ CountedBy(T, tracked, d) \in Nat
<1>1. PICK f \in [S -> Nat] : f = [k \in S |-> tracked[k].cumulative[d]]
  BY DEF Disjoint
<1>2. PICK g \in [T -> Nat] : g = [k \in T |-> tracked[k].cumulative[d]]
  BY DEF Disjoint
<1>3. PICK h \in [U -> Nat] : h = [k \in U |-> tracked[k].cumulative[d]]
  OBVIOUS
<1>4. /\ \A k \in S : h[k] = f[k]
      /\ \A k \in T : h[k] = g[k]
  BY <1>1, <1>2, <1>3 DEF Disjoint
<1>5. SumFunction(h) = SumFunction(f) + SumFunction(g)
  BY <1>4, SumSplit
<1>6. SumFunction(f) \in Nat /\ SumFunction(g) \in Nat
  BY SumCounts
<1>7. /\ CountedBy(S, tracked, d) = SumFunction(f)
      /\ CountedBy(T, tracked, d) = SumFunction(g)
      /\ CountedBy(U, tracked, d) = SumFunction(h)
  BY <1>1, <1>2, <1>3, Zenon DEF CountedBy
<1> QED BY <1>5, <1>6, <1>7

\* What the connections that stay gain is what the history is credited with.
LEMMA CountedGrowth ==
    ASSUME NEW S, IsFiniteSet(S), NEW old, NEW new, NEW gain, NEW d,
           \A k \in S : /\ old[k].cumulative[d] \in Nat /\ gain[k] \in Nat
                        /\ new[k].cumulative[d] = old[k].cumulative[d] + gain[k],
           gain = [k \in S |-> gain[k]]
    PROVE  /\ CountedBy(S, new, d) = CountedBy(S, old, d) + SumFunction(gain)
           /\ SumFunction(gain) \in Nat
<1>1. PICK f \in [S -> Nat] : f = [k \in S |-> old[k].cumulative[d]]
  OBVIOUS
<1>2. PICK h \in [S -> Nat] : h = [k \in S |-> new[k].cumulative[d]]
  <2>1. ASSUME NEW k \in S PROVE new[k].cumulative[d] \in Nat
    OBVIOUS
  <2> QED BY <2>1
<1>3. gain \in [S -> Nat]
  OBVIOUS
<1>4. \A k \in S : h[k] = f[k] + gain[k]
  BY <1>1, <1>2
<1>5. SumFunction(h) = SumFunction(f) + SumFunction(gain)
  BY <1>3, <1>4, SumAdded
<1>6. CountedBy(S, old, d) = SumFunction(f) /\ CountedBy(S, new, d) = SumFunction(h)
  BY <1>1, <1>2, Zenon DEF CountedBy
<1>7. SumFunction(gain) \in Nat
  BY <1>3, SumCounts
<1> QED BY <1>5, <1>6, <1>7

\* Connections that have counted nothing.
LEMMA CountedNothing ==
    ASSUME NEW S, IsFiniteSet(S), NEW tracked, NEW d, \A k \in S : tracked[k].cumulative[d] = 0
    PROVE  CountedBy(S, tracked, d) = 0
<1>1. PICK f \in [S -> Nat] : f = [k \in S |-> tracked[k].cumulative[d]]
  <2>1. ASSUME NEW k \in S PROVE tracked[k].cumulative[d] \in Nat
    OBVIOUS
  <2> QED BY <2>1
<1>2. SumFunction(f) = 0
  BY <1>1, SumNothing
<1>3. CountedBy(S, tracked, d) = SumFunction(f)
  BY <1>1, Zenon DEF CountedBy
<1> QED BY <1>2, <1>3

\* The connections of p in a finite set.
LEMMA ConnsOfFinite ==
    ASSUME NEW p, NEW S, IsFiniteSet(S)
    PROVE  IsFiniteSet(ConnsOf(p, S)) /\ ConnsOf(p, S) \subseteq S
<1>1. ConnsOf(p, S) \in SUBSET S
  BY DEF ConnsOf
<1> QED BY <1>1, FS_Subset

\* The bytes of a process that has connections closing, and of one that has not.
LEMMA ClosedBytesStep ==
    ASSUME TotalsInv, NEW closing, closing \subseteq DOMAIN activeTransfers,
           NEW p \in Pids, NEW d \in Directions
    PROVE  /\ ClosedBytes(p, closedByProcess)[d] \in Nat
           /\ CountedBy(ConnsOf(p, closing), activeTransfers, d) \in Nat
           /\ ClosedBytes(p, NextClosedByProcess(closing))[d] =
                 ClosedBytes(p, closedByProcess)[d] + CountedBy(ConnsOf(p, closing), activeTransfers, d)
<1>1. ClosedBytes(p, closedByProcess)[d] \in Nat
  BY DEF TotalsInv, LedgersTyped, ClosedBytes, Zero
<1>2. IsFiniteSet(closing)
  BY FS_Subset DEF TotalsInv, LedgersTyped
<1>3. IsFiniteSet(ConnsOf(p, closing)) /\ ConnsOf(p, closing) \subseteq closing
  BY <1>2, ConnsOfFinite
<1>4. CountedBy(ConnsOf(p, closing), activeTransfers, d) \in Nat
  <2>1. PICK f \in [ConnsOf(p, closing) -> Nat] :
           f = [k \in ConnsOf(p, closing) |-> activeTransfers[k].cumulative[d]]
    BY <1>3 DEF TotalsInv, RateInv, ConnectionShape
  <2>2. SumFunction(f) \in Nat
    BY <1>3, SumCounts
  <2> QED BY <2>1, <2>2, Zenon DEF CountedBy
<1>5. CASE p \in PidsOf(closing)
  <2>1. ClosedBytes(p, NextClosedByProcess(closing))[d] =
          (IF p \in DOMAIN closedByProcess THEN closedByProcess[p][d] ELSE 0)
            + CountedBy(ConnsOf(p, closing), activeTransfers, d)
    BY <1>5 DEF ClosedBytes, NextClosedByProcess, Put, CountedBy
  <2> QED BY <1>1, <1>4, <2>1 DEF ClosedBytes, Zero
<1>6. CASE p \notin PidsOf(closing)
  <2>1. ClosedBytes(p, NextClosedByProcess(closing)) = ClosedBytes(p, closedByProcess)
    BY <1>6 DEF ClosedBytes, NextClosedByProcess, Put
  <2>2. \A k \in ConnsOf(p, closing) : FALSE
    BY <1>6 DEF ConnsOf, PidsOf
  <2>3. CountedBy(ConnsOf(p, closing), activeTransfers, d) = 0
    BY <1>3, <2>2, CountedNothing
  <2> QED BY <1>1, <1>4, <2>1, <2>3
<1> QED BY <1>1, <1>4, <1>5, <1>6

\* One update, for one process: what is credited is what its connections and
\* the record of its closed ones gain together.
LEMMA BalanceStep ==
    ASSUME TotalsInv, NEW snap, IsSnap(snap), IsFiniteSet(DOMAIN snap), NEW now \in Nat,
           NEW next, next = NextActive(snap, now), NEW p \in Pids, NEW d \in Directions
    PROVE  /\ NextCredited(snap)[p][d] =
                 CountedBy(ConnsOf(p, DOMAIN snap), next, d)
                   + ClosedBytes(p, NextClosedByProcess(Closing(snap)))[d]
           /\ NextCredited(snap)[p][d] \in Nat
           /\ ClosedBytes(p, NextClosedByProcess(Closing(snap)))[d] \in Nat
           /\ p \notin PidsOf(DOMAIN snap) =>
                 /\ NextCredited(snap)[p][d] = credited[p][d]
                 /\ CountedBy(ConnsOf(p, DOMAIN snap), next, d) = 0
<1> DEFINE active == DOMAIN activeTransfers
           mine == ConnsOf(p, active)
           gone == ConnsOf(p, Closing(snap))
           stay == ConnsOf(p, DOMAIN snap \cap active)
           come == ConnsOf(p, DOMAIN snap \ active)
           after == ConnsOf(p, DOMAIN snap)
           gain == [k \in stay |-> Fresh(k, snap[k])[d]]
<1>1. ~seeded => active = {}
  BY DEF TotalsInv, RateInv, ConnectionShape
<1>2. Closing(snap) = active \ DOMAIN snap
  BY <1>1 DEF Closing
<1>3. IsFiniteSet(active)
  BY DEF TotalsInv, LedgersTyped
<1>4. /\ IsFiniteSet(mine) /\ IsFiniteSet(gone) /\ IsFiniteSet(stay)
      /\ IsFiniteSet(come) /\ IsFiniteSet(after)
  <2>1. /\ IsFiniteSet(active \ DOMAIN snap) /\ IsFiniteSet(DOMAIN snap \cap active)
        /\ IsFiniteSet(DOMAIN snap \ active)
    BY <1>3, FS_Difference, FS_Intersection
  <2>2. IsFiniteSet(Closing(snap))
    BY <1>2, <2>1, Zenon
  <2> QED BY <1>3, <2>1, <2>2, ConnsOfFinite
<1>5. Disjoint(stay, gone, mine) /\ Disjoint(stay, come, after)
  BY <1>2 DEF Disjoint, ConnsOf
<1>6. /\ \A k \in mine : activeTransfers[k].cumulative[d] \in Nat
      /\ stay \subseteq mine /\ stay \subseteq DOMAIN snap \cap active
      /\ come \subseteq DOMAIN snap \ active /\ after \subseteq DOMAIN snap
  BY DEF ConnsOf, TotalsInv, RateInv, ConnectionShape
<1>7. /\ \A k \in DOMAIN snap : next[k].cumulative \in [Directions -> Nat]
      /\ \A k \in DOMAIN snap \cap active :
            next[k].cumulative[d] = activeTransfers[k].cumulative[d]
                + (IF seeded THEN computeDelta(activeTransfers[k].baseline[d], snap[k].bytes[d])
                   ELSE 0)
      /\ \A k \in DOMAIN snap \ active : next[k].cumulative = Zero
  BY NextActiveShape DEF TotalsInv, RateInv
<1>8. ASSUME NEW k \in stay
      PROVE  /\ gain[k] \in Nat
             /\ next[k].cumulative[d] = activeTransfers[k].cumulative[d] + gain[k]
  <2>1. gain[k] = computeDelta(activeTransfers[k].baseline[d], snap[k].bytes[d])
    BY DEF Fresh
  <2>2. k \in DOMAIN snap /\ k \in active
    BY <1>6
  <2>3. activeTransfers[k].baseline[d] \in Nat /\ snap[k].bytes[d] \in Nat
    BY <2>2 DEF TotalsInv, RateInv, ConnectionShape, IsSnap, Row
  <2>4. computeDelta(activeTransfers[k].baseline[d], snap[k].bytes[d]) \in Nat
    BY <2>3, DeltaBounds
  <2> HIDE DEF gain, stay, active
  <2>5. seeded
    BY <1>1, <2>2
  <2> QED BY <1>7, <2>1, <2>2, <2>4, <2>5
<1>9. ASSUME NEW k \in come PROVE next[k].cumulative[d] = 0
  BY <1>6, <1>7 DEF Zero
<1>10. NextCredited(snap)[p][d] = credited[p][d] + SumFunction(gain)
  BY DEF NextCredited
<1>11. gain = [k \in stay |-> gain[k]]
  OBVIOUS
<1>12. \A k \in after : next[k].cumulative[d] \in Nat
  BY <1>6, <1>7
<1>13. credited[p][d] \in Nat
  BY DEF TotalsInv, LedgersTyped
<1>14. credited[p][d] = CountedBy(mine, activeTransfers, d) + ClosedBytes(p, closedByProcess)[d]
  BY DEF TotalsInv, NothingLost
<1>15. /\ ClosedBytes(p, closedByProcess)[d] \in Nat
       /\ ClosedBytes(p, NextClosedByProcess(Closing(snap)))[d] =
             ClosedBytes(p, closedByProcess)[d] + CountedBy(gone, activeTransfers, d)
  BY <1>2, ClosedBytesStep
<1>16. p \notin PidsOf(DOMAIN snap) => stay = {} /\ after = {}
  BY DEF ConnsOf, PidsOf
<1> HIDE DEF active, mine, gone, stay, come, after, gain
<1>17. /\ CountedBy(mine, activeTransfers, d) =
             CountedBy(stay, activeTransfers, d) + CountedBy(gone, activeTransfers, d)
       /\ CountedBy(stay, activeTransfers, d) \in Nat /\ CountedBy(gone, activeTransfers, d) \in Nat
  BY <1>4, <1>5, <1>6, CountedSplit
<1>18. /\ CountedBy(after, next, d) = CountedBy(stay, next, d) + CountedBy(come, next, d)
       /\ CountedBy(stay, next, d) \in Nat
  BY <1>4, <1>5, <1>12, CountedSplit
<1>19. CountedBy(come, next, d) = 0
  BY <1>4, <1>9, CountedNothing
<1>20. /\ CountedBy(stay, next, d) = CountedBy(stay, activeTransfers, d) + SumFunction(gain)
       /\ SumFunction(gain) \in Nat
  <2>1. \A k \in stay : /\ activeTransfers[k].cumulative[d] \in Nat /\ gain[k] \in Nat
                        /\ next[k].cumulative[d] = activeTransfers[k].cumulative[d] + gain[k]
    BY <1>6, <1>8
  <2> QED BY <1>4, <1>11, <2>1, CountedGrowth
<1>21. NextCredited(snap)[p][d] =
          CountedBy(after, next, d) + ClosedBytes(p, NextClosedByProcess(Closing(snap)))[d]
  BY <1>10, <1>13, <1>14, <1>15, <1>17, <1>18, <1>19, <1>20
<1>22. ASSUME p \notin PidsOf(DOMAIN snap)
       PROVE  NextCredited(snap)[p][d] = credited[p][d] /\ CountedBy(after, next, d) = 0
  <2>1. SumFunction(gain) = 0
    <3>1. gain \in [stay -> Nat] /\ \A k \in stay : gain[k] = 0
      BY <1>8, <1>11, <1>16, <1>22
    <3> QED BY <1>4, <3>1, SumNothing
  <2>2. CountedBy(after, next, d) = 0
    BY <1>4, <1>16, <1>22, CountedNothing
  <2> QED BY <1>10, <1>13, <2>1, <2>2
<1> QED BY <1>10, <1>13, <1>15, <1>17, <1>20, <1>21, <1>22 DEF after

\* What update() does to the bytes of processes.
LEMMA UpdateTotals ==
    ASSUME TotalsInv, NEW rows \in Snapshots, NEW now \in Times, update(rows, now)
    PROVE  LedgersTyped' /\ NothingLost' /\ ProcessTotalsConserved'
<1>1. PICK snap, next :
        /\ snap = Dedupe(rows) /\ IsSnap(snap) /\ now \in Nat
        /\ next = NextActive(snap, now) /\ activeTransfers' = next
        /\ rebuildProcessStats(next, Closing(snap))
        /\ credited' = NextCredited(snap)
        /\ \A k \in DOMAIN next : next[k].firstObserved \in Nat
  <2>1. credited' = NextCredited(Dedupe(rows))
    BY DEF update
  <2> QED BY <2>1, UpdateParts DEF TotalsInv
<1>2. IsFiniteSet(DOMAIN snap) /\ DOMAIN next = DOMAIN snap /\ DOMAIN snap \subseteq Keys
  <2>1. rows \in Seq(Row)
    BY SnapshotsAssumption
  <2>2. DOMAIN snap = KeysOf(rows)
    BY <1>1 DEF Dedupe
  <2>3. IsFiniteSet(KeysOf(rows))
    BY <2>1, KeysFinite
  <2> QED BY <1>1, <2>2, <2>3 DEF NextActive, IsSnap
<1>3. PICK closedBytes, names, firsts :
        /\ closedBytes = NextClosedByProcess(Closing(snap))
        /\ closedByProcess' = closedBytes
        /\ closedProcessStats' = NextClosedProcesses(PidsOf(DOMAIN next), closedBytes)
        /\ activeProcessStats' = [p \in PidsOf(DOMAIN next) |->
                                     Aggregate(p, next, closedBytes, names, firsts)]
  BY <1>1 DEF rebuildProcessStats
<1>4. ASSUME NEW p \in Pids, NEW d \in Directions
      PROVE  /\ credited'[p][d] =
                   CountedBy(ConnsOf(p, DOMAIN snap), next, d) + ClosedBytes(p, closedBytes)[d]
             /\ credited'[p][d] \in Nat
             /\ ClosedBytes(p, closedBytes)[d] \in Nat
             /\ p \notin PidsOf(DOMAIN snap) =>
                   /\ credited'[p][d] = credited[p][d]
                   /\ CountedBy(ConnsOf(p, DOMAIN snap), next, d) = 0
  BY <1>1, <1>2, <1>3, BalanceStep
<1>5. NothingLost'
  BY <1>1, <1>2, <1>3, <1>4 DEF NothingLost, CountedBy, ConnsOf, ClosedBytes
<1>6. /\ Closing(snap) \subseteq DOMAIN activeTransfers
      /\ PidsOf(Closing(snap)) \subseteq Pids /\ PidsOf(DOMAIN snap) \subseteq Pids
  BY <1>2, ConstantsAssumption DEF Closing, PidsOf, TotalsInv, RateInv, ConnectionShape
<1>7. credited' = [p \in Pids |-> credited'[p]]
      /\ \A p \in Pids : credited'[p] = [d \in Directions |-> credited'[p][d]]
  BY <1>1 DEF NextCredited
<1>8. credited' \in [Pids -> [Directions -> Nat]]
  BY <1>4, <1>7
<1>9. closedBytes \in [DOMAIN closedBytes -> [Directions -> Nat]]
  <2>1. DOMAIN closedBytes = DOMAIN closedByProcess \cup PidsOf(Closing(snap))
    BY <1>3 DEF NextClosedByProcess, Put
  <2>2. ASSUME NEW p \in PidsOf(Closing(snap)) PROVE closedBytes[p] \in [Directions -> Nat]
    <3>1. closedBytes[p] = [d \in Directions |-> closedBytes[p][d]]
      BY <1>3 DEF NextClosedByProcess, Put
    <3>2. \A d \in Directions : closedBytes[p][d] \in Nat
      BY <1>4, <1>6, <2>1 DEF ClosedBytes
    <3> QED BY <3>1, <3>2
  <2>3. ASSUME NEW p \in DOMAIN closedByProcess \ PidsOf(Closing(snap))
        PROVE  closedBytes[p] \in [Directions -> Nat]
    BY <1>3 DEF NextClosedByProcess, Put, TotalsInv, LedgersTyped
  <2>4. closedBytes = [p \in DOMAIN closedBytes |-> closedBytes[p]]
    BY <1>3 DEF NextClosedByProcess, Put
  <2> QED BY <2>1, <2>2, <2>3, <2>4
<1>10. /\ DOMAIN activeProcessStats' = PidsOf(DOMAIN snap)
       /\ DOMAIN closedProcessStats' =
             (DOMAIN closedProcessStats \cup DOMAIN activeProcessStats) \ PidsOf(DOMAIN snap)
  BY <1>2, <1>3 DEF NextClosedProcesses, Retiring
<1>11. Known' \subseteq Pids
  BY <1>6, <1>10 DEF Known, TotalsInv, LedgersTyped
<1>12. ASSUME NEW p \in PidsOf(DOMAIN snap) PROVE activeProcessStats'[p].bytes = credited'[p]
  <2>1. activeProcessStats'[p].bytes =
          [d \in Directions |-> CountedBy(ConnsOf(p, DOMAIN snap), next, d)
                                  + ClosedBytes(p, closedBytes)[d]]
    BY <1>2, <1>3 DEF Aggregate, CountedBy
  <2> QED BY <1>4, <1>6, <1>7, <2>1
<1>13. ASSUME NEW p \in DOMAIN closedProcessStats' PROVE closedProcessStats'[p].bytes = credited'[p]
  <2>1. p \notin PidsOf(DOMAIN snap) /\ p \in Pids
    BY <1>10, <1>11 DEF Known
  <2>2. CASE p \in DOMAIN activeProcessStats
    <3>1. PICK k \in DOMAIN activeTransfers : PidOf[k] = p
      BY <2>2 DEF TotalsInv, RateInv, EachProcessListedOnce, PidsOf
    <3>2. k \notin DOMAIN snap /\ seeded
      BY <2>1, <3>1 DEF PidsOf, TotalsInv, RateInv, ConnectionShape
    <3>3. p \in PidsOf(Closing(snap))
      BY <3>1, <3>2 DEF Closing, PidsOf
    <3>4. p \in DOMAIN closedBytes
      BY <1>3, <3>3 DEF NextClosedByProcess, Put
    <3>5. closedProcessStats'[p].bytes = closedBytes[p]
      BY <1>2, <1>3, <2>1, <2>2, <3>4 DEF NextClosedProcesses, Retiring, Retired
    <3>6. ASSUME NEW d \in Directions PROVE credited'[p][d] = closedBytes[p][d]
      BY <1>4, <2>1, <3>4 DEF ClosedBytes
    <3> QED BY <1>7, <1>9, <2>1, <3>4, <3>5, <3>6
  <2>3. CASE p \notin DOMAIN activeProcessStats
    <3>1. closedProcessStats'[p] = closedProcessStats[p] /\ p \in DOMAIN closedProcessStats
      BY <1>2, <1>3, <1>10, <2>3 DEF NextClosedProcesses, Retiring
    <3>2. closedProcessStats[p].bytes = credited[p]
      BY <2>3, <3>1 DEF TotalsInv, ProcessTotalsConserved, Known, Reported
    <3>3. credited[p] \in [Directions -> Nat]
      BY <2>1 DEF TotalsInv, LedgersTyped
    <3> QED BY <1>4, <1>7, <2>1, <3>1, <3>2, <3>3
  <2> QED BY <2>2, <2>3
<1>14. ProcessTotalsConserved'
  BY <1>10, <1>12, <1>13 DEF ProcessTotalsConserved, Known, Reported
<1>15. LedgersTyped'
  BY <1>1, <1>2, <1>3, <1>8, <1>9, <1>11 DEF LedgersTyped
<1> QED BY <1>5, <1>14, <1>15

\* With nothing tracked and nothing credited the books balance.
LEMMA EmptyBooks ==
    ASSUME activeTransfers = EmptyMap, activeProcessStats = EmptyMap,
           closedProcessStats = EmptyMap, closedByProcess = EmptyMap,
           credited = [p \in Pids |-> Zero]
    PROVE  LedgersTyped /\ NothingLost /\ ProcessTotalsConserved
<1>1. /\ DOMAIN activeTransfers = {} /\ DOMAIN activeProcessStats = {}
      /\ DOMAIN closedProcessStats = {} /\ DOMAIN closedByProcess = {}
  BY DEF EmptyMap
<1>2. IsFiniteSet(DOMAIN activeTransfers)
  BY <1>1, FS_EmptySet
<1>3. LedgersTyped
  BY <1>1, <1>2 DEF LedgersTyped, Zero, Known
<1>4. ProcessTotalsConserved
  BY <1>1 DEF ProcessTotalsConserved, Known
<1>5. ASSUME NEW p \in Pids, NEW d \in Directions
      PROVE  credited[p][d] = CountedBy(ConnsOf(p, DOMAIN activeTransfers), activeTransfers, d)
                                + ClosedBytes(p, closedByProcess)[d]
  <2>1. IsFiniteSet(ConnsOf(p, DOMAIN activeTransfers)) /\ ConnsOf(p, DOMAIN activeTransfers) = {}
    BY <1>1, <1>2, ConnsOfFinite DEF ConnsOf
  <2>2. CountedBy(ConnsOf(p, DOMAIN activeTransfers), activeTransfers, d) = 0
    BY <2>1, CountedNothing
  <2>3. ClosedBytes(p, closedByProcess)[d] = 0 /\ credited[p][d] = 0
    BY <1>1 DEF ClosedBytes, Zero
  <2> QED BY <2>2, <2>3
<1> QED BY <1>3, <1>4, <1>5 DEF NothingLost

\* The books stay balanced.
LEMMA TotalsInvariance == Spec => []TotalsInv
<1>1. Init => LedgersTyped /\ NothingLost /\ ProcessTotalsConserved
  BY EmptyBooks DEF Init
<1>2. TotalsInv /\ [Next]_vars => (LedgersTyped /\ NothingLost /\ ProcessTotalsConserved)'
  <2> SUFFICES ASSUME TotalsInv, [Next]_vars
               PROVE  (LedgersTyped /\ NothingLost /\ ProcessTotalsConserved)'
    OBVIOUS
  <2>1. CASE reset
    <3>1. /\ (activeTransfers = EmptyMap)' /\ (activeProcessStats = EmptyMap)'
          /\ (closedProcessStats = EmptyMap)' /\ (closedByProcess = EmptyMap)'
          /\ (credited = [p \in Pids |-> Zero])'
      BY <2>1 DEF reset
    <3> QED BY <3>1, EmptyBooks, PTL
  <2>2. CASE UNCHANGED vars
    BY <2>2 DEF vars, TotalsInv, LedgersTyped, NothingLost, ProcessTotalsConserved, Known,
                Reported, CountedBy, ConnsOf, ClosedBytes
  <2> QED BY <2>1, <2>2, UpdateTotals DEF Next
<1> QED BY <1>1, <1>2, RateInvariance, PTL DEF Spec, TotalsInv

\* The bytes of a process are never lost and never counted twice: what
\* TransferRateTracker shows for a process, running or closed, is all that was
\* ever counted for its connections.
THEOREM TotalsConserved == Spec => []ProcessTotalsConserved
<1>1. TotalsInv => ProcessTotalsConserved
  BY DEF TotalsInv
<1> QED BY <1>1, TotalsInvariance, PTL

-----------------------------------------------------------------------------
(* Types.                                                                  *)

\* The greatest element of a finite set of naturals.
LEMMA MaxGreatest ==
    ASSUME NEW T, T \subseteq Nat, T # {}, IsFiniteSet(T)
    PROVE  Max(T) \in T
<1>1. PICK x \in T : \A y \in T : x >= y
  BY GreatestIndex
<1> QED BY <1>1 DEF Max

\* A rate is a natural number, also when the clock stands still or goes back.
LEMMA RateNatural ==
    ASSUME NEW b \in Nat, NEW elapsed \in Int
    PROVE  computeRate(b, elapsed) \in Nat
<1>1. PICK n \in Nat : n = b * RateUnit
  BY ConstantsAssumption
<1>2. elapsed > 0 => n \div elapsed \in Nat
  OBVIOUS
<1>3. computeRate(b, elapsed) = IF elapsed <= 0 THEN 0 ELSE n \div elapsed
  BY <1>1 DEF computeRate
<1> QED BY <1>2, <1>3

\* Rows become tracked connections of the right type.
LEMMA NextActiveTyped ==
    ASSUME RateInv, TypeOK, NEW snap, IsSnap(snap), NEW now \in Nat
    PROVE  NextActive(snap, now) \in [DOMAIN snap -> TrackedTransfer]
<1>1. ASSUME NEW k \in DOMAIN snap PROVE NextActive(snap, now)[k] \in TrackedTransfer
  <2>1. /\ snap[k].bytes \in [Directions -> Nat] /\ snap[k].conn = k /\ snap[k].name \in Names
        /\ ObservedAt(snap[k], now) \in Nat
    BY DEF IsSnap, Row, ObservedAt
  <2>2. Zero \in [Directions -> Nat]
    BY DEF Zero
  <2>3. CASE k \notin DOMAIN activeTransfers
    BY <2>1, <2>2, <2>3 DEF NextActive, StartTracking, TrackedTransfer
  <2>4. CASE k \in DOMAIN activeTransfers
    <3>1. NextActive(snap, now)[k] = KeepTracking(snap[k], now) /\ makeKey(snap[k]) = k
      BY <2>1, <2>4 DEF NextActive, makeKey
    <3>2. activeTransfers[k] \in TrackedTransfer
      BY <2>4 DEF TypeOK
    <3>3. /\ activeTransfers[k].processName \in Names /\ activeTransfers[k].firstObserved \in Nat
          /\ activeTransfers[k].lastUpdated \in Nat
          /\ activeTransfers[k].baseline \in [Directions -> Nat]
          /\ activeTransfers[k].cumulative \in [Directions -> Nat]
      BY <3>2 DEF TrackedTransfer
    <3>4. ASSUME NEW d \in Directions PROVE Fresh(k, snap[k])[d] \in Nat
      <4>1. activeTransfers[k].baseline[d] \in Nat /\ snap[k].bytes[d] \in Nat
        BY <2>1, <3>3
      <4> QED BY <4>1, DeltaBounds DEF Fresh
    <3>5. PICK elapsed \in Int : elapsed = ObservedAt(snap[k], now) - activeTransfers[k].lastUpdated
      BY <2>1, <3>3
    <3>6. ASSUME NEW d \in Directions PROVE computeRate(Fresh(k, snap[k])[d], elapsed) \in Nat
      BY <3>4, RateNatural
    <3>7. PICK rate \in [Directions -> Nat] :
             rate = [d \in Directions |->
                        IF seeded THEN computeRate(Fresh(k, snap[k])[d], elapsed) ELSE 0]
      BY <3>6
    <3>8. PICK sum \in [Directions -> Nat] :
             sum = [d \in Directions |-> activeTransfers[k].cumulative[d]
                                           + IF seeded THEN Fresh(k, snap[k])[d] ELSE 0]
      <4>1. ASSUME NEW d \in Directions
            PROVE  activeTransfers[k].cumulative[d]
                     + (IF seeded THEN Fresh(k, snap[k])[d] ELSE 0) \in Nat
        BY <3>3, <3>4
      <4> QED BY <4>1
    <3>9. KeepTracking(snap[k], now) =
            [processName   |-> IF snap[k].name = NoName THEN activeTransfers[k].processName
                                                        ELSE snap[k].name,
             firstObserved |-> activeTransfers[k].firstObserved,
             lastUpdated   |-> ObservedAt(snap[k], now),
             baseline      |-> snap[k].bytes, cumulative |-> sum, rate |-> rate]
      BY <3>1, <3>5, <3>7, <3>8 DEF KeepTracking
    <3> QED BY <2>1, <3>1, <3>3, <3>9 DEF TrackedTransfer
  <2> QED BY <2>3, <2>4
<1> QED BY <1>1 DEF NextActive

\* The aggregate of a process has its type, given that its bytes have.
LEMMA AggregateTyped ==
    ASSUME NEW next, next \in [DOMAIN next -> TrackedTransfer], IsFiniteSet(DOMAIN next),
           NEW p \in PidsOf(DOMAIN next), NEW closedBytes, NEW names, NEW firsts,
           names[p] \in Names, firsts[p] \in Nat,
           Aggregate(p, next, closedBytes, names, firsts).bytes \in [Directions -> Nat]
    PROVE  Aggregate(p, next, closedBytes, names, firsts) \in ProcessBandwidthStats
<1> DEFINE mine == ConnsOf(p, DOMAIN next)
           times == {next[k].lastUpdated : k \in mine}
<1>1. /\ \A k \in mine : next[k].lastUpdated \in Nat /\ next[k].rate \in [Directions -> Nat]
      /\ mine \subseteq DOMAIN next /\ mine # {}
  BY DEF ConnsOf, PidsOf, TrackedTransfer
<1>2. IsFiniteSet(mine)
  BY ConnsOfFinite
<1>3. Cardinality(mine) \in Nat
  BY <1>2, FS_CardinalityType
<1>4. times \subseteq Nat /\ times # {}
  BY <1>1
<1>5. IsFiniteSet(times)
  <2> DEFINE time == [k \in mine |-> next[k].lastUpdated]
  <2>1. time \in [mine -> times] /\ \A s \in times : \E k \in mine : time[k] = s
    OBVIOUS
  <2> HIDE DEF time, times, mine
  <2>2. time \in Surjection(mine, times)
    BY <2>1 DEF Surjection
  <2> QED BY <1>2, <2>2, FS_Surjection
<1>6. Max(times) \in Nat
  <2> HIDE DEF times
  <2> QED BY <1>4, <1>5, MaxGreatest
<1>7. ASSUME NEW d \in Directions PROVE SumFunction([k \in mine |-> next[k].rate[d]]) \in Nat
  <2>1. PICK f \in [mine -> Nat] : f = [k \in mine |-> next[k].rate[d]]
    BY <1>1
  <2>2. SumFunction(f) \in Nat
    BY <1>2, SumCounts
  <2> QED BY <2>1, <2>2, Zenon
<1>8. PICK bytes \in [Directions -> Nat] :
         bytes = Aggregate(p, next, closedBytes, names, firsts).bytes
  OBVIOUS
<1>9. PICK rate \in [Directions -> Nat] :
         rate = [d \in Directions |-> SumFunction([k \in mine |-> next[k].rate[d]])]
  BY <1>7
<1>10. Aggregate(p, next, closedBytes, names, firsts) =
          [processName |-> names[p], bytes |-> bytes, rate |-> rate, firstObserved |-> firsts[p],
           lastUpdated |-> Max(times), activeConnectionCount |-> Cardinality(mine)]
  BY <1>8, <1>9 DEF Aggregate
<1> HIDE DEF mine, times
<1> QED BY <1>3, <1>6, <1>10 DEF ProcessBandwidthStats

\* The record of a closed connection has its type.
LEMMA ClosedConnectionTyped ==
    ASSUME NEW tracked \in TrackedTransfer
    PROVE  toConnectionStats(tracked, FALSE) \in ConnectionBandwidthStats
<1>1. Zero \in [Directions -> Nat]
  BY DEF Zero
<1> QED BY <1>1 DEF toConnectionStats, TrackedTransfer, ConnectionBandwidthStats

\* The record of a process that has lost its last connection has its type.
LEMMA RetiredTyped ==
    ASSUME NEW p, activeProcessStats[p] \in ProcessBandwidthStats, NEW closedBytes,
           closedBytes \in [DOMAIN closedBytes -> [Directions -> Nat]]
    PROVE  Retired(p, closedBytes) \in ProcessBandwidthStats
<1>1. Zero \in [Directions -> Nat]
  BY DEF Zero
<1>2. PICK bytes \in [Directions -> Nat] :
         bytes = IF p \in DOMAIN closedBytes THEN closedBytes[p] ELSE activeProcessStats[p].bytes
  BY DEF ProcessBandwidthStats
<1> QED BY <1>1, <1>2 DEF Retired, ProcessBandwidthStats

\* An update keeps every map within its type.
LEMMA UpdateTyped ==
    ASSUME TotalsInv, TypeOK, NEW rows \in Snapshots, NEW now \in Times, update(rows, now)
    PROVE  TypeOK'
<1>1. PICK snap, next :
        /\ snap = Dedupe(rows) /\ IsSnap(snap) /\ now \in Nat
        /\ next = NextActive(snap, now) /\ activeTransfers' = next
        /\ rebuildProcessStats(next, Closing(snap))
        /\ \A k \in DOMAIN next : next[k].firstObserved \in Nat
  BY UpdateParts DEF TotalsInv
<1>2. IsFiniteSet(DOMAIN snap) /\ DOMAIN next = DOMAIN snap /\ DOMAIN snap \subseteq Keys
  <2>1. rows \in Seq(Row)
    BY SnapshotsAssumption
  <2>2. DOMAIN snap = KeysOf(rows)
    BY <1>1 DEF Dedupe
  <2>3. IsFiniteSet(KeysOf(rows))
    BY <2>1, KeysFinite
  <2> QED BY <1>1, <2>2, <2>3 DEF NextActive, IsSnap
<1>3. next \in [DOMAIN next -> TrackedTransfer]
  BY <1>1, <1>2, NextActiveTyped DEF TotalsInv
<1>4. LedgersTyped' /\ ProcessTotalsConserved' /\ EachProcessListedOnce'
  BY <1>1, UpdateTotals, ProcessesRebuilt DEF TotalsInv
<1>5. /\ DOMAIN closedConnectionStats' \subseteq Keys
      /\ closedConnectionStats' \in [DOMAIN closedConnectionStats' -> ConnectionBandwidthStats]
  <2>1. closedConnectionStats' =
          Put(closedConnectionStats,
              [k \in Closing(snap) |-> toConnectionStats(activeTransfers[k], FALSE)])
    BY <1>1 DEF update
  <2>2. Closing(snap) \subseteq DOMAIN activeTransfers
    BY DEF Closing
  <2>3. \A k \in Closing(snap) :
           toConnectionStats(activeTransfers[k], FALSE) \in ConnectionBandwidthStats
    BY <2>2, ClosedConnectionTyped DEF TypeOK
  <2> QED BY <2>1, <2>2, <2>3 DEF Put, TypeOK
<1>6. PICK closedBytes, firsts, names :
        /\ names \in NextNames(next, Closing(snap))
        /\ firsts = NextFirstObserved(next) /\ processFirstObserved' = firsts
        /\ processNames' = names /\ closedByProcess' = closedBytes
        /\ closedProcessStats' = NextClosedProcesses(PidsOf(DOMAIN next), closedBytes)
        /\ activeProcessStats' = [p \in PidsOf(DOMAIN next) |->
                                     Aggregate(p, next, closedBytes, names, firsts)]
  BY <1>1 DEF rebuildProcessStats
<1>7. processNames' \in [DOMAIN processNames' -> Names] /\ PidsOf(DOMAIN next) \subseteq DOMAIN names
  BY <1>6 DEF NextNames
<1>8. /\ processFirstObserved' \in [DOMAIN processFirstObserved' -> Nat]
      /\ PidsOf(DOMAIN next) \subseteq DOMAIN firsts
  <2>1. /\ DOMAIN firsts = DOMAIN processFirstObserved \cup PidsOf(DOMAIN next)
        /\ \A p \in DOMAIN firsts : firsts[p] \in Nat
    BY <1>1, <1>6, FirstObservedEffect DEF TotalsInv, RateInv
  <2>2. firsts = [p \in DOMAIN firsts |-> firsts[p]]
    BY <1>6 DEF NextFirstObserved, Put
  <2> QED BY <1>6, <2>1, <2>2
<1>9. /\ closedBytes \in [DOMAIN closedBytes -> [Directions -> Nat]]
      /\ credited' \in [Pids -> [Directions -> Nat]]
      /\ DOMAIN activeProcessStats' \subseteq Pids /\ DOMAIN closedProcessStats' \subseteq Pids
  BY <1>4, <1>6 DEF LedgersTyped, Known
<1>10. ASSUME NEW p \in PidsOf(DOMAIN next)
       PROVE  Aggregate(p, next, closedBytes, names, firsts) \in ProcessBandwidthStats
  <2>1. activeProcessStats'[p].bytes = credited'[p] /\ p \in Pids
    BY <1>4, <1>6, <1>9 DEF ProcessTotalsConserved, Known, Reported
  <2>2. Aggregate(p, next, closedBytes, names, firsts).bytes \in [Directions -> Nat]
    BY <1>6, <1>9, <2>1
  <2>3. names[p] \in Names /\ firsts[p] \in Nat
    BY <1>6, <1>7, <1>8
  <2> QED BY <1>2, <1>3, <2>2, <2>3, AggregateTyped
<1>11. activeProcessStats' \in [DOMAIN activeProcessStats' -> ProcessBandwidthStats]
  BY <1>6, <1>10
<1>12. closedProcessStats' \in [DOMAIN closedProcessStats' -> ProcessBandwidthStats]
  <2>1. \A p \in Retiring(PidsOf(DOMAIN next)) :
           Retired(p, closedBytes) \in ProcessBandwidthStats
    BY <1>9, RetiredTyped DEF Retiring, TypeOK
  <2> QED BY <1>6, <2>1 DEF NextClosedProcesses, TypeOK
<1>13. seeded' = TRUE
  BY DEF update
<1> QED BY <1>1, <1>2, <1>3, <1>5, <1>6, <1>7, <1>8, <1>9, <1>11, <1>12, <1>13 DEF TypeOK

\* Nothing tracked: every map is empty, and of its type.
LEMMA EmptyTyped ==
    ASSUME activeTransfers = EmptyMap, closedConnectionStats = EmptyMap,
           activeProcessStats = EmptyMap, closedProcessStats = EmptyMap,
           closedByProcess = EmptyMap, processNames = EmptyMap,
           processFirstObserved = EmptyMap, seeded = FALSE,
           credited = [p \in Pids |-> Zero]
    PROVE  TypeOK
  BY DEF TypeOK, EmptyMap, Zero

\* TransferRateTracker's maps keep the keys and values they are declared with,
\* for any connections and processes: rates and totals are naturals whichever
\* way the counters and the clock move.
THEOREM RateTrackerTyped == Spec => []TypeOK
<1>1. Init => TypeOK
  BY EmptyTyped DEF Init
<1>2. TotalsInv /\ TypeOK /\ [Next]_vars => TypeOK'
  <2> SUFFICES ASSUME TotalsInv, TypeOK, [Next]_vars PROVE TypeOK'
    OBVIOUS
  <2>1. CASE reset
    <3>1. /\ (activeTransfers = EmptyMap)' /\ (closedConnectionStats = EmptyMap)'
          /\ (activeProcessStats = EmptyMap)' /\ (closedProcessStats = EmptyMap)'
          /\ (closedByProcess = EmptyMap)' /\ (processNames = EmptyMap)'
          /\ (processFirstObserved = EmptyMap)' /\ (seeded = FALSE)'
          /\ (credited = [p \in Pids |-> Zero])'
      BY <2>1 DEF reset
    <3> QED BY <3>1, EmptyTyped, PTL
  <2>2. CASE UNCHANGED vars
    BY <2>2 DEF vars, TypeOK
  <2> QED BY <2>1, <2>2, UpdateTyped DEF Next
<1> QED BY <1>1, <1>2, TotalsInvariance, PTL DEF Spec

-----------------------------------------------------------------------------
(* The three trackers side by side.                                        *)

\* Agreement on totals needs agreement on what they are computed from.
BaselinesAgree ==
    /\ uploadSeeded = seeded /\ downloadSeeded = seeded
    /\ \A k \in DOMAIN activeTransfers :
          /\ activeUploads[k].baseline = activeTransfers[k].baseline["sent"]
          /\ activeDownloads[k].baseline = activeTransfers[k].baseline["received"]

SideBySideInv == RateInv /\ TrackersAgree /\ BaselinesAgree

\* A step of all three is a step of the rate tracker.
LEMMA RateTrackerSteps == [TrackersNext]_allVars => [Next]_vars
  BY DEF TrackersNext, UpdateAll, ResetAll, Next, allVars

\* The trackers index a snapshot alike.
LEMMA SameIndex ==
    ASSUME NEW rows
    PROVE  Upload!Dedupe(rows) = Dedupe(rows) /\ Download!Received!Dedupe(rows) = Dedupe(rows)
<1>1. Upload!Dedupe(rows) = Dedupe(rows)
  BY DEF Dedupe, KeysOf, FirstIndex, makeKey,
         Upload!Dedupe, Upload!KeysOf, Upload!FirstIndex, Upload!makeKey
<1>2. Download!Received!Dedupe(rows) = Dedupe(rows)
  BY DEF Dedupe, KeysOf, FirstIndex, makeKey, Download!Received!Dedupe,
         Download!Received!KeysOf, Download!Received!FirstIndex, Download!Received!makeKey
<1> QED BY <1>1, <1>2

\* What an update makes of the uploads.
LEMMA UploadsFollow ==
    ASSUME SideBySideInv, NEW snap, IsSnap(snap), NEW t, Upload!Apply(snap, t)
    PROVE  /\ DOMAIN activeUploads' = DOMAIN snap
           /\ uploadSeeded' = TRUE
           /\ \A k \in DOMAIN snap :
                 /\ activeUploads'[k].baseline = snap[k].bytes["sent"]
                 /\ k \in DOMAIN activeTransfers =>
                       activeUploads'[k].cumulative = activeTransfers[k].cumulative["sent"]
                         + (IF seeded
                            THEN computeDelta(activeTransfers[k].baseline["sent"],
                                              snap[k].bytes["sent"])
                            ELSE 0)
                 /\ k \notin DOMAIN activeTransfers => activeUploads'[k].cumulative = 0
           /\ DOMAIN closedUploadStats' = DOMAIN closedUploadStats \cup Closing(snap)
           /\ \A k \in Closing(snap) :
                 closedUploadStats'[k].uploadedBytes = activeTransfers[k].cumulative["sent"]
           /\ \A k \in DOMAIN closedUploadStats \ Closing(snap) :
                 closedUploadStats'[k] = closedUploadStats[k]
<1>1. /\ DOMAIN activeUploads = DOMAIN activeTransfers
      /\ uploadSeeded = seeded
      /\ \A k \in DOMAIN activeTransfers :
            /\ activeUploads[k].baseline = activeTransfers[k].baseline["sent"]
            /\ activeUploads[k].cumulative = activeTransfers[k].cumulative["sent"]
  BY DEF SideBySideInv, TrackersAgree, BaselinesAgree
<1>2. DOMAIN activeUploads' = DOMAIN snap /\ uploadSeeded' = TRUE
  BY DEF Upload!Apply, Upload!NextActive
<1>3. ASSUME NEW k \in DOMAIN snap, k \in DOMAIN activeTransfers
      PROVE  /\ activeUploads'[k].baseline = snap[k].bytes["sent"]
             /\ activeUploads'[k].cumulative = activeTransfers[k].cumulative["sent"]
                         + (IF seeded
                            THEN computeDelta(activeTransfers[k].baseline["sent"],
                                              snap[k].bytes["sent"])
                            ELSE 0)
  <2>1. activeUploads'[k] = Upload!KeepTracking(snap[k], t) /\ snap[k].conn = k
    BY <1>1, <1>3 DEF Upload!Apply, Upload!NextActive, IsSnap
  <2> QED BY <1>1, <1>3, <2>1
          DEF Upload!KeepTracking, Upload!makeKey, Upload!computeDelta, computeDelta
<1>4. ASSUME NEW k \in DOMAIN snap, k \notin DOMAIN activeTransfers
      PROVE  activeUploads'[k].baseline = snap[k].bytes["sent"] /\ activeUploads'[k].cumulative = 0
  BY <1>1, <1>4 DEF Upload!Apply, Upload!NextActive, Upload!StartTracking
<1>5. Upload!Closing(snap) = Closing(snap) /\ Closing(snap) \subseteq DOMAIN activeTransfers
  BY <1>1 DEF Upload!Closing, Closing
<1>6. closedUploadStats' =
        Upload!Put(closedUploadStats,
                   [k \in Closing(snap) |-> Upload!toStats(activeUploads[k], FALSE)])
  BY <1>5 DEF Upload!Apply
<1>7. /\ DOMAIN closedUploadStats' = DOMAIN closedUploadStats \cup Closing(snap)
      /\ \A k \in Closing(snap) :
            closedUploadStats'[k].uploadedBytes = activeTransfers[k].cumulative["sent"]
      /\ \A k \in DOMAIN closedUploadStats \ Closing(snap) :
            closedUploadStats'[k] = closedUploadStats[k]
  BY <1>1, <1>5, <1>6 DEF Upload!Put, Upload!toStats
<1> QED BY <1>2, <1>3, <1>4, <1>7

\* The same of the downloads.
LEMMA DownloadsFollow ==
    ASSUME SideBySideInv, NEW snap, IsSnap(snap), NEW t, Download!Received!Apply(snap, t)
    PROVE  /\ DOMAIN activeDownloads' = DOMAIN snap
           /\ downloadSeeded' = TRUE
           /\ \A k \in DOMAIN snap :
                 /\ activeDownloads'[k].baseline = snap[k].bytes["received"]
                 /\ k \in DOMAIN activeTransfers =>
                       activeDownloads'[k].cumulative = activeTransfers[k].cumulative["received"]
                         + (IF seeded
                            THEN computeDelta(activeTransfers[k].baseline["received"],
                                              snap[k].bytes["received"])
                            ELSE 0)
                 /\ k \notin DOMAIN activeTransfers => activeDownloads'[k].cumulative = 0
           /\ DOMAIN closedDownloadStats' = DOMAIN closedDownloadStats \cup Closing(snap)
           /\ \A k \in Closing(snap) :
                 closedDownloadStats'[k].uploadedBytes = activeTransfers[k].cumulative["received"]
           /\ \A k \in DOMAIN closedDownloadStats \ Closing(snap) :
                 closedDownloadStats'[k] = closedDownloadStats[k]
<1>1. /\ DOMAIN activeDownloads = DOMAIN activeTransfers
      /\ downloadSeeded = seeded
      /\ \A k \in DOMAIN activeTransfers :
            /\ activeDownloads[k].baseline = activeTransfers[k].baseline["received"]
            /\ activeDownloads[k].cumulative = activeTransfers[k].cumulative["received"]
  BY DEF SideBySideInv, TrackersAgree, BaselinesAgree
<1>2. DOMAIN activeDownloads' = DOMAIN snap /\ downloadSeeded' = TRUE
  BY DEF Download!Received!Apply, Download!Received!NextActive
<1>3. ASSUME NEW k \in DOMAIN snap, k \in DOMAIN activeTransfers
      PROVE  /\ activeDownloads'[k].baseline = snap[k].bytes["received"]
             /\ activeDownloads'[k].cumulative = activeTransfers[k].cumulative["received"]
                         + (IF seeded
                            THEN computeDelta(activeTransfers[k].baseline["received"],
                                              snap[k].bytes["received"])
                            ELSE 0)
  <2>1. activeDownloads'[k] = Download!Received!KeepTracking(snap[k], t) /\ snap[k].conn = k
    BY <1>1, <1>3 DEF Download!Received!Apply, Download!Received!NextActive, IsSnap
  <2> QED BY <1>1, <1>3, <2>1
          DEF Download!Received!KeepTracking, Download!Received!makeKey,
              Download!Received!computeDelta, computeDelta
<1>4. ASSUME NEW k \in DOMAIN snap, k \notin DOMAIN activeTransfers
      PROVE  /\ activeDownloads'[k].baseline = snap[k].bytes["received"]
             /\ activeDownloads'[k].cumulative = 0
  BY <1>1, <1>4 DEF Download!Received!Apply, Download!Received!NextActive,
                    Download!Received!StartTracking
<1>5. Download!Received!Closing(snap) = Closing(snap) /\ Closing(snap) \subseteq DOMAIN activeTransfers
  BY <1>1 DEF Download!Received!Closing, Closing
<1>6. closedDownloadStats' =
        Download!Received!Put(closedDownloadStats,
            [k \in Closing(snap) |-> Download!Received!toStats(activeDownloads[k], FALSE)])
  BY <1>5 DEF Download!Received!Apply
<1>7. /\ DOMAIN closedDownloadStats' = DOMAIN closedDownloadStats \cup Closing(snap)
      /\ \A k \in Closing(snap) :
            closedDownloadStats'[k].uploadedBytes = activeTransfers[k].cumulative["received"]
      /\ \A k \in DOMAIN closedDownloadStats \ Closing(snap) :
            closedDownloadStats'[k] = closedDownloadStats[k]
  BY <1>1, <1>5, <1>6 DEF Download!Received!Put, Download!Received!toStats
<1> QED BY <1>2, <1>3, <1>4, <1>7

\* One poll keeps the three in step, although each reads its own clock.
LEMMA UpdateAllAgrees ==
    ASSUME SideBySideInv, NEW rows \in Snapshots, UpdateAll(rows)
    PROVE  TrackersAgree' /\ BaselinesAgree'
<1>1. PICK t \in Times : Upload!update(rows, t)
  BY DEF UpdateAll
<1>2. PICK u \in Times : Download!update(rows, u)
  BY DEF UpdateAll
<1>3. PICK now \in Times : update(rows, now)
  BY DEF UpdateAll
<1>4. /\ Upload!Apply(Dedupe(rows), t)
      /\ Download!Received!Apply(Dedupe(rows), u)
  BY <1>1, <1>2, SameIndex DEF Upload!update, Download!update, Download!Received!update
<1>5. PICK snap : /\ snap = Dedupe(rows) /\ IsSnap(snap) /\ now \in Nat
                  /\ activeTransfers' = NextActive(snap, now)
                  /\ closedConnectionStats' =
                        Put(closedConnectionStats,
                            [k \in Closing(snap) |-> toConnectionStats(activeTransfers[k], FALSE)])
                  /\ seeded' = TRUE
  BY <1>3, UpdateParts DEF SideBySideInv
<1>6. Upload!Apply(snap, t) /\ Download!Received!Apply(snap, u)
  BY <1>4, <1>5
<1>7. /\ DOMAIN activeTransfers' = DOMAIN snap
      /\ \A k \in DOMAIN snap : activeTransfers'[k].baseline = snap[k].bytes
      /\ \A k \in DOMAIN snap \cap DOMAIN activeTransfers : \A d \in Directions :
            activeTransfers'[k].cumulative[d] = activeTransfers[k].cumulative[d]
                + (IF seeded THEN computeDelta(activeTransfers[k].baseline[d], snap[k].bytes[d])
                   ELSE 0)
      /\ \A k \in DOMAIN snap \ DOMAIN activeTransfers : activeTransfers'[k].cumulative = Zero
  BY <1>5, NextActiveShape DEF SideBySideInv, RateInv
<1>8. /\ DOMAIN closedConnectionStats' = DOMAIN closedConnectionStats \cup Closing(snap)
      /\ \A k \in Closing(snap) :
            closedConnectionStats'[k].bytes = activeTransfers[k].cumulative
      /\ \A k \in DOMAIN closedConnectionStats \ Closing(snap) :
            closedConnectionStats'[k] = closedConnectionStats[k]
  BY <1>5 DEF Put, toConnectionStats
<1>9. "sent" \in Directions /\ "received" \in Directions /\ Zero["sent"] = 0 /\ Zero["received"] = 0
  BY DEF Directions, Zero
<1>10. /\ DOMAIN activeUploads' = DOMAIN activeTransfers'
       /\ uploadSeeded' = seeded'
       /\ \A k \in DOMAIN activeTransfers' :
             /\ activeUploads'[k].baseline = activeTransfers'[k].baseline["sent"]
             /\ activeUploads'[k].cumulative = activeTransfers'[k].cumulative["sent"]
       /\ DOMAIN closedUploadStats' = DOMAIN closedConnectionStats'
       /\ \A k \in DOMAIN closedConnectionStats' :
             closedUploadStats'[k].uploadedBytes = closedConnectionStats'[k].bytes["sent"]
  <2>1. DOMAIN activeUploads' = DOMAIN activeTransfers' /\ uploadSeeded' = TRUE
    BY <1>5, <1>6, <1>7, UploadsFollow
  <2>2. ASSUME NEW k \in DOMAIN snap
        PROVE  /\ activeUploads'[k].baseline = activeTransfers'[k].baseline["sent"]
               /\ activeUploads'[k].cumulative = activeTransfers'[k].cumulative["sent"]
    <3>1. activeUploads'[k].baseline = snap[k].bytes["sent"]
      BY <1>5, <1>6, UploadsFollow
    <3>2. CASE k \in DOMAIN activeTransfers
      <4>1. activeUploads'[k].cumulative = activeTransfers[k].cumulative["sent"]
              + (IF seeded
                 THEN computeDelta(activeTransfers[k].baseline["sent"], snap[k].bytes["sent"])
                 ELSE 0)
        BY <1>5, <1>6, <3>2, UploadsFollow
      <4> QED BY <1>7, <1>9, <3>1, <3>2, <4>1
    <3>3. CASE k \notin DOMAIN activeTransfers
      <4>1. activeUploads'[k].cumulative = 0
        BY <1>5, <1>6, <3>3, UploadsFollow
      <4> QED BY <1>7, <1>9, <3>1, <3>3, <4>1
    <3> QED BY <3>2, <3>3
  <2>3. /\ DOMAIN closedUploadStats' = DOMAIN closedConnectionStats'
        /\ \A k \in DOMAIN closedConnectionStats' :
              closedUploadStats'[k].uploadedBytes = closedConnectionStats'[k].bytes["sent"]
    <3>1. /\ DOMAIN closedUploadStats = DOMAIN closedConnectionStats
          /\ \A k \in DOMAIN closedConnectionStats :
                closedUploadStats[k].uploadedBytes = closedConnectionStats[k].bytes["sent"]
      BY DEF SideBySideInv, TrackersAgree
    <3>2. DOMAIN closedUploadStats' = DOMAIN closedUploadStats \cup Closing(snap)
      BY <1>5, <1>6, UploadsFollow
    <3>3. \A k \in Closing(snap) :
             closedUploadStats'[k].uploadedBytes = activeTransfers[k].cumulative["sent"]
      BY <1>5, <1>6, UploadsFollow
    <3>4. \A k \in DOMAIN closedUploadStats \ Closing(snap) :
             closedUploadStats'[k] = closedUploadStats[k]
      BY <1>5, <1>6, UploadsFollow
    <3> QED BY <1>8, <3>1, <3>2, <3>3, <3>4
  <2> QED BY <1>5, <1>7, <2>1, <2>2, <2>3
<1>11. /\ DOMAIN activeDownloads' = DOMAIN activeTransfers'
       /\ downloadSeeded' = seeded'
       /\ \A k \in DOMAIN activeTransfers' :
             /\ activeDownloads'[k].baseline = activeTransfers'[k].baseline["received"]
             /\ activeDownloads'[k].cumulative = activeTransfers'[k].cumulative["received"]
       /\ DOMAIN closedDownloadStats' = DOMAIN closedConnectionStats'
       /\ \A k \in DOMAIN closedConnectionStats' :
             closedDownloadStats'[k].uploadedBytes = closedConnectionStats'[k].bytes["received"]
  <2>1. DOMAIN activeDownloads' = DOMAIN activeTransfers' /\ downloadSeeded' = TRUE
    BY <1>5, <1>6, <1>7, DownloadsFollow
  <2>2. ASSUME NEW k \in DOMAIN snap
        PROVE  /\ activeDownloads'[k].baseline = activeTransfers'[k].baseline["received"]
               /\ activeDownloads'[k].cumulative = activeTransfers'[k].cumulative["received"]
    <3>1. activeDownloads'[k].baseline = snap[k].bytes["received"]
      BY <1>5, <1>6, DownloadsFollow
    <3>2. CASE k \in DOMAIN activeTransfers
      <4>1. activeDownloads'[k].cumulative = activeTransfers[k].cumulative["received"]
              + (IF seeded
                 THEN computeDelta(activeTransfers[k].baseline["received"], snap[k].bytes["received"])
                 ELSE 0)
        BY <1>5, <1>6, <3>2, DownloadsFollow
      <4> QED BY <1>7, <1>9, <3>1, <3>2, <4>1
    <3>3. CASE k \notin DOMAIN activeTransfers
      <4>1. activeDownloads'[k].cumulative = 0
        BY <1>5, <1>6, <3>3, DownloadsFollow
      <4> QED BY <1>7, <1>9, <3>1, <3>3, <4>1
    <3> QED BY <3>2, <3>3
  <2>3. /\ DOMAIN closedDownloadStats' = DOMAIN closedConnectionStats'
        /\ \A k \in DOMAIN closedConnectionStats' :
              closedDownloadStats'[k].uploadedBytes = closedConnectionStats'[k].bytes["received"]
    <3>1. /\ DOMAIN closedDownloadStats = DOMAIN closedConnectionStats
          /\ \A k \in DOMAIN closedConnectionStats :
                closedDownloadStats[k].uploadedBytes = closedConnectionStats[k].bytes["received"]
      BY DEF SideBySideInv, TrackersAgree
    <3>2. DOMAIN closedDownloadStats' = DOMAIN closedDownloadStats \cup Closing(snap)
      BY <1>5, <1>6, DownloadsFollow
    <3>3. \A k \in Closing(snap) :
             closedDownloadStats'[k].uploadedBytes = activeTransfers[k].cumulative["received"]
      BY <1>5, <1>6, DownloadsFollow
    <3>4. \A k \in DOMAIN closedDownloadStats \ Closing(snap) :
             closedDownloadStats'[k] = closedDownloadStats[k]
      BY <1>5, <1>6, DownloadsFollow
    <3> QED BY <1>8, <3>1, <3>2, <3>3, <3>4
  <2> QED BY <1>5, <1>7, <2>1, <2>2, <2>3
<1> QED BY <1>10, <1>11 DEF TrackersAgree, BaselinesAgree

\* The three trackers always show the same connections and the same bytes.
THEOREM ThreeTrackersAgree == TrackersSpec => []TrackersAgree
<1>1. TrackersInit => TrackersAgree /\ BaselinesAgree
  BY DEF TrackersInit, Init, Upload!Init, Download!Init, Download!Received!Init, TrackersAgree,
         BaselinesAgree, EmptyMap, Upload!EmptyMap, Download!Received!EmptyMap
<1>2. SideBySideInv /\ [TrackersNext]_allVars => (TrackersAgree /\ BaselinesAgree)'
  <2> SUFFICES ASSUME SideBySideInv, [TrackersNext]_allVars PROVE (TrackersAgree /\ BaselinesAgree)'
    OBVIOUS
  <2>1. CASE ResetAll
    BY <2>1 DEF ResetAll, reset, Upload!reset, Download!reset, Download!Received!reset,
                TrackersAgree, BaselinesAgree, EmptyMap, Upload!EmptyMap,
                Download!Received!EmptyMap
  <2>2. CASE UNCHANGED allVars
    BY <2>2 DEF allVars, vars, uploadVars, downloadVars, SideBySideInv, TrackersAgree,
                BaselinesAgree
  <2> QED BY <2>1, <2>2, UpdateAllAgrees DEF TrackersNext
<1>3. TrackersInit => Init
  BY DEF TrackersInit
<1> QED BY <1>1, <1>2, <1>3, RateTrackerSteps, RateInvariance, PTL
        DEF TrackersSpec, Spec, SideBySideInv
=============================================================================
