------------------------ MODULE UploadTrackerProofs ------------------------
(***************************************************************************)
(* UploadTracker, for every set of connections and every snapshot: its     *)
(* types, the exactness of its totals, and that it implements the ledger.  *)
(***************************************************************************)
EXTENDS UploadTracker, SnapshotRowsProofs

\* A snapshot indexed by key.
IsSnap(snap) ==
    /\ DOMAIN snap \subseteq Keys
    /\ snap \in [DOMAIN snap -> Row]
    /\ \A k \in DOMAIN snap : snap[k].conn = k

\* Before the first snapshot, and after reset(), the tracker holds nothing: the
\* branch for an existing entry is never taken while unseeded, so no counter
\* moves without being counted.
UnseededIsEmpty == ~seeded => activeUploads = EmptyMap /\ closedUploadStats = EmptyMap

IInv == TypeOK /\ UnseededIsEmpty /\ TotalsFollowCounter

\* Every snapshot a caller hands over is indexed into one row per key.
LEMMA SnapFromRows ==
    ASSUME NEW rows \in Snapshots
    PROVE  IsSnap(Dedupe(rows))
<1>1. rows \in Seq(Row)
  BY SnapshotsAssumption
<1>2. KeysOf(rows) \subseteq Keys
  <2>1. \A i \in DOMAIN rows : rows[i] \in Row
    BY <1>1
  <2>2. \A i \in DOMAIN rows : rows[i].conn \in Keys
    BY <2>1 DEF Row
  <2> QED BY <2>2 DEF KeysOf, makeKey
<1> QED BY <1>1, <1>2, DedupeRows DEF IsSnap

\* Initially the tracker is empty.
LEMMA InitInv == Init => IInv
  BY DEF Init, IInv, TypeOK, UnseededIsEmpty, TotalsFollowCounter, EmptyMap

\* An update keeps types, emptiness before seeding, and exact totals.
LEMMA ApplyInv ==
    ASSUME IInv, NEW snap, IsSnap(snap), NEW now \in Nat, Apply(snap, now)
    PROVE  IInv'
<1> USE DEF IsSnap
<1>1. DOMAIN activeUploads' = DOMAIN snap
  BY DEF Apply, NextActive
<1>2. ASSUME NEW k \in DOMAIN snap
      PROVE  /\ snap[k] \in Row
             /\ snap[k].bytes[Counter] \in Nat
             /\ ObservedAt(snap[k], now) \in Nat
  BY ConstantsAssumption DEF Row, ObservedAt
<1>3. ASSUME NEW k \in DOMAIN snap
      PROVE  activeUploads'[k] \in TrackedUpload
  <2>1. CASE k \in DOMAIN activeUploads
    <3>1. activeUploads'[k] = KeepTracking(snap[k], now)
      BY <2>1 DEF Apply, NextActive
    <3>2. activeUploads[k] \in TrackedUpload
      BY <2>1 DEF IInv, TypeOK
    <3>3. computeDelta(activeUploads[k].baseline, snap[k].bytes[Counter]) \in Nat
      BY <3>2, <1>2, DeltaBounds DEF TrackedUpload
    <3> QED BY <3>1, <3>2, <3>3, <1>2 DEF KeepTracking, makeKey, TrackedUpload, Row
  <2>2. CASE k \notin DOMAIN activeUploads
    BY <2>2, <1>2 DEF Apply, NextActive, StartTracking, TrackedUpload, Row
  <2> QED BY <2>1, <2>2
<1>4. ASSUME NEW k \in DOMAIN snap
      PROVE  session'[k] \in [origin : Nat, lost : Nat]
  <2>1. CASE k \in DOMAIN activeUploads
    <3>1. activeUploads[k].baseline \in Nat /\ session[k] \in [origin : Nat, lost : Nat]
      BY <2>1 DEF IInv, TypeOK, TrackedUpload
    <3> QED BY <2>1, <3>1, <1>2 DEF Apply, NextSession
  <2>2. CASE k \notin DOMAIN activeUploads
    BY <2>2, <1>2 DEF Apply, NextSession
  <2> QED BY <2>1, <2>2
<1>5. /\ DOMAIN closedUploadStats' \subseteq Keys
      /\ closedUploadStats' \in [DOMAIN closedUploadStats' -> UploadStats]
  <2>1. \A k \in Closing(snap) : toStats(activeUploads[k], FALSE) \in UploadStats
    BY DEF Closing, IInv, TypeOK, TrackedUpload, toStats, UploadStats
  <2>2. Closing(snap) \subseteq Keys
    BY DEF Closing, IInv, TypeOK
  <2> QED BY <2>1, <2>2 DEF Apply, Put, IInv, TypeOK
<1>6. TypeOK'
  <2>1. activeUploads' \in [DOMAIN activeUploads' -> TrackedUpload]
    BY <1>1, <1>3 DEF Apply, NextActive
  <2>2. session' \in [DOMAIN activeUploads' -> [origin : Nat, lost : Nat]]
    BY <1>1, <1>4 DEF Apply, NextSession
  <2> QED BY <1>1, <1>5, <2>1, <2>2 DEF TypeOK, Apply
<1>7. UnseededIsEmpty'
  BY DEF UnseededIsEmpty, Apply
<1>8. TotalsFollowCounter'
  <2> SUFFICES ASSUME NEW k \in DOMAIN snap
               PROVE  activeUploads'[k].cumulative + session'[k].origin
                        = activeUploads'[k].baseline + session'[k].lost
    BY <1>1 DEF TotalsFollowCounter
  <2>1. CASE k \in DOMAIN activeUploads
    <3> DEFINE old == activeUploads[k]
               reading == snap[k].bytes[Counter]
    <3>1. seeded
      BY <2>1 DEF IInv, UnseededIsEmpty, EmptyMap
    <3>2. /\ old.cumulative \in Nat
          /\ old.baseline \in Nat
          /\ session[k].origin \in Nat
          /\ session[k].lost \in Nat
      BY <2>1 DEF IInv, TypeOK, TrackedUpload
    <3>3. old.cumulative + session[k].origin = old.baseline + session[k].lost
      BY <2>1 DEF IInv, TotalsFollowCounter
    <3>4. /\ activeUploads'[k].cumulative = old.cumulative + computeDelta(old.baseline, reading)
          /\ activeUploads'[k].baseline = reading
      BY <2>1, <3>1 DEF Apply, NextActive, KeepTracking, makeKey
    <3>5. /\ session'[k].origin = session[k].origin
          /\ session'[k].lost = IF reading >= old.baseline THEN session[k].lost
                                ELSE session[k].lost + old.baseline
      <4>1. session[k] \in [origin : Nat, lost : Nat]
        BY <2>1 DEF IInv, TypeOK
      <4> QED BY <2>1, <4>1 DEF Apply, NextSession
    <3> HIDE DEF old, reading
    <3>6. reading \in Nat
      BY <1>2 DEF reading
    <3> QED BY <3>2, <3>3, <3>4, <3>5, <3>6 DEF computeDelta
  <2>2. CASE k \notin DOMAIN activeUploads
    <3>1. /\ activeUploads'[k].cumulative = 0
          /\ activeUploads'[k].baseline = snap[k].bytes[Counter]
          /\ session'[k] = [origin |-> snap[k].bytes[Counter], lost |-> 0]
      BY <2>2 DEF Apply, NextActive, StartTracking, NextSession
    <3> QED BY <3>1, <1>2
  <2> QED BY <2>1, <2>2
<1> QED BY <1>6, <1>7, <1>8 DEF IInv

\* reset() empties the tracker.
LEMMA ResetInv == reset => IInv'
  BY DEF reset, IInv, TypeOK, UnseededIsEmpty, TotalsFollowCounter, EmptyMap

\* The inductive invariant is preserved by every step.
LEMMA NextInv == IInv /\ [Next]_vars => IInv'
<1> SUFFICES ASSUME IInv, [Next]_vars PROVE IInv'
  OBVIOUS
<1>1. ASSUME NEW rows \in Snapshots, NEW now \in Times, update(rows, now)
      PROVE  IInv'
  <2>1. now \in Nat
    BY ConstantsAssumption
  <2> QED BY <1>1, <2>1, SnapFromRows, ApplyInv DEF update
<1>2. CASE reset
  BY <1>2, ResetInv
<1>3. CASE UNCHANGED vars
  BY <1>3 DEF IInv, TypeOK, UnseededIsEmpty, TotalsFollowCounter, vars
<1> QED BY <1>1, <1>2, <1>3 DEF Next

\* The tracker's maps always have the types their declarations give them.
THEOREM TypeCorrect == Spec => []TypeOK
<1>1. IInv => TypeOK
  BY DEF IInv
<1> QED BY InitInv, NextInv, <1>1, PTL DEF Spec

\* For every set of connections and every sequence of snapshots and resets, the
\* running total of a connection is exactly what its counter has shown.
THEOREM TotalsExact == Spec => []TotalsFollowCounter
<1>1. IInv => TotalsFollowCounter
  BY DEF IInv
<1> QED BY InitInv, NextInv, <1>1, PTL DEF Spec

-----------------------------------------------------------------------------
(* The ledger.  Abstract variables are named here as in TransferLedger.    *)

Open == [k \in DOMAIN activeUploads |-> activeUploads[k].cumulative]
Settled == [k \in DOMAIN closedUploadStats |-> closedUploadStats[k].uploadedBytes]

\* An update is an observation of the ledger.
LEMMA ApplyObserves ==
    ASSUME IInv, NEW snap, IsSnap(snap), NEW now \in Nat, Apply(snap, now)
    PROVE  Ledger!Observe
<1>1. IInv'
  BY ApplyInv
<1>2. DOMAIN activeUploads' = DOMAIN snap
  BY DEF Apply, NextActive
<1>3. Ledger!IsTotals(Open)'
  <2>1. DOMAIN Open' = DOMAIN activeUploads'
    BY DEF Open
  <2>2. \A k \in DOMAIN activeUploads' : Open'[k] \in Nat
    BY <1>1 DEF Open, IInv, TypeOK, TrackedUpload
  <2>3. Open' \in [DOMAIN activeUploads' -> Nat]
    BY <2>2 DEF Open
  <2> QED BY <2>1, <2>3, <1>1 DEF Ledger!IsTotals, IInv, TypeOK
<1>4. ASSUME NEW k \in DOMAIN Open'
      PROVE  IF k \in DOMAIN Open THEN Open'[k] >= Open[k] ELSE Open'[k] = 0
  <2>1. k \in DOMAIN snap /\ Open'[k] = activeUploads'[k].cumulative
    BY <1>2 DEF Open
  <2>2. CASE k \in DOMAIN activeUploads
    <3>1. activeUploads[k] \in TrackedUpload /\ snap[k] \in Row
      BY <2>1, <2>2 DEF IInv, TypeOK, IsSnap
    <3>2. /\ activeUploads[k].cumulative \in Nat
          /\ computeDelta(activeUploads[k].baseline, snap[k].bytes[Counter]) \in Nat
      BY <3>1, DeltaBounds, ConstantsAssumption DEF TrackedUpload, Row
    <3>3. \/ activeUploads'[k].cumulative = activeUploads[k].cumulative + 0
          \/ activeUploads'[k].cumulative = activeUploads[k].cumulative
                + computeDelta(activeUploads[k].baseline, snap[k].bytes[Counter])
      BY <2>1, <2>2 DEF Apply, NextActive, KeepTracking, makeKey, IsSnap
    <3> QED BY <2>1, <2>2, <3>2, <3>3 DEF Open
  <2>3. CASE k \notin DOMAIN activeUploads
    BY <2>1, <2>3 DEF Apply, NextActive, StartTracking, Open
  <2> QED BY <2>2, <2>3 DEF Open
<1>5. Settled' = Put(Settled, [k \in DOMAIN Open \ DOMAIN Open' |-> Open[k]])
  <2>1. DOMAIN Open \ DOMAIN Open' = Closing(snap)
    <3>1. CASE seeded
      BY <3>1, <1>2 DEF Open, Closing
    <3>2. CASE ~seeded
      BY <3>2 DEF Open, Closing, IInv, UnseededIsEmpty, EmptyMap
    <3> QED BY <3>1, <3>2
  <2>2. closedUploadStats' =
          Put(closedUploadStats, [k \in Closing(snap) |-> toStats(activeUploads[k], FALSE)])
    BY DEF Apply
  <2>3. Closing(snap) \subseteq DOMAIN activeUploads
    BY DEF Closing
  <2> QED BY <2>1, <2>2, <2>3 DEF Settled, Open, Put, toStats
<1> QED BY <1>3, <1>4, <1>5 DEF Ledger!Observe, Ledger!IsTotals, Open, Settled, Put, Ledger!Put

\* UploadTracker implements the ledger: totals only grow while a connection
\* stays, start at zero, and are settled when it disappears.
THEOREM ImplementsTheLedger == Spec => ImplementsLedger
<1>1. Init => Ledger!Init
  BY DEF Init, Ledger!Init, EmptyMap, Ledger!EmptyMap
<1>2. IInv /\ [Next]_vars => [Ledger!Next]_<<Open, Settled>>
  <2> SUFFICES ASSUME IInv, [Next]_vars PROVE [Ledger!Next]_<<Open, Settled>>
    OBVIOUS
  <2>1. ASSUME NEW rows \in Snapshots, NEW now \in Times, update(rows, now)
        PROVE  Ledger!Next
    <3>1. now \in Nat
      BY ConstantsAssumption
    <3> QED BY <2>1, <3>1, SnapFromRows, ApplyObserves DEF update, Ledger!Next
  <2>2. CASE reset
    BY <2>2 DEF reset, Ledger!Next, Ledger!Forget, EmptyMap, Ledger!EmptyMap
  <2>3. CASE UNCHANGED vars
    BY <2>3 DEF vars, Open, Settled
  <2> QED BY <2>1, <2>2, <2>3 DEF Next
<1> QED BY <1>1, <1>2, InitInv, NextInv, PTL DEF Spec, ImplementsLedger, Ledger!Spec, Open, Settled
=============================================================================
