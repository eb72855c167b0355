------------------------ MODULE TimelineEventHistory ------------------------
(***************************************************************************)
(* process::TimelineEventHistory: a bounded in-memory history with a limit *)
(* on its size and on the age of its events, both of which may be changed  *)
(* at any time, filled with events that arrive late and out of order.      *)
(***************************************************************************)
EXTENDS TimelineQuery

CONSTANTS Sources,    \* what may be observed: records of all fields of an event
                      \* but the time
          Limits,     \* values for maxEvents
          Ages,       \* values for maxAge
          MaxBatch,   \* bound on the length of a batch
          MaxAdds,    \* bound on the number of events added
          MaxClock    \* bound on the clock

ASSUME HistoryAssumption ==
    /\ Limits \subseteq Nat /\ Limits # {}
    /\ Ages \subseteq Nat /\ Ages # {}
    /\ MaxBatch \in Nat /\ MaxAdds \in Nat /\ MaxClock \in Nat
    /\ \A s \in Sources : s.pid \in Nat /\ s.type \in DOMAIN TypeNumber

VARIABLES events,     \* the retained events, in no particular order
          maxEvents, maxAge,
          clock,
          added,      \* history: number of events added so far
          reference   \* history: what was added since the last clear, change of
                      \* policy or expiry, and what was retained then

historyVars == <<events, maxEvents, maxAge, clock, added, reference>>

-----------------------------------------------------------------------------
Expired(e, age, now) == age > 0 /\ e.timestamp # 0 /\ now - e.timestamp > age

\* std::remove_if keeps the order of what it keeps.
Fresh(es, age, now) == Selected(es, {i \in DOMAIN es : ~Expired(es[i], age, now)})

\* Fault: the limit is enforced before expired events are removed.
LimitedFirst(es, limit, age, now) ==
    Fresh(IF Len(es) > limit THEN Newest(StableSort(es), limit) ELSE es, age, now)

\* Fault: the events that were added first are dropped, not the oldest ones.
LimitedUnsorted(es, limit, age, now) ==
    Newest(Fresh(es, age, now), limit)

\* cleanup(): expired events go; then, if too many are left, they are sorted
\* and the oldest go.
Cleaned(es, limit, age, now) ==
    LET fresh == Fresh(es, age, now)
    IN  IF Len(fresh) > limit THEN Newest(StableSort(fresh), limit) ELSE fresh

\* Fault: a limit of 0 is taken as it is.
LimitUnchecked(n) == n

LimitOf(n) == IF n = 0 THEN 1 ELSE n

\* Fault: matches are returned in the order they are stored.
ByNameUnsorted(name) == Selected(events, {i \in DOMAIN events : events[i].name = name})

getByProcessId(pid) ==
    StableSort(Selected(events, {i \in DOMAIN events : events[i].pid = pid}))

getByProcessName(name) ==
    StableSort(Selected(events, {i \in DOMAIN events : events[i].name = name}))

getRecent(limit) ==
    IF limit = 0 THEN StableSort(events) ELSE Newest(StableSort(events), limit)

-----------------------------------------------------------------------------
AnyExpired(es, age) == \E i \in DOMAIN es : Expired(es[i], age, clock)

\* Replaces the events by es under the given policy.  The reference grows with
\* what is added as long as only the size limits it.
Retain(es, new, limit, age) ==
    /\ events' = Cleaned(es, limit, age, clock)
    /\ maxEvents' = limit
    /\ maxAge' = age
    /\ reference' = IF AnyExpired(es, age) \/ limit > maxEvents THEN events'
                    ELSE reference \o new
    /\ UNCHANGED clock

\* Events as a collector hands them over: observed now, earlier, or without a
\* time.  The same event may come again, as it does when a collector is added a
\* second time; the id, which the code does not have, tells the copies apart.
Observed(n) ==
    {[timestamp |-> t, pid |-> s.pid, name |-> s.name, type |-> s.type, remote |-> s.remote,
      uploadedBytes |-> s.uploadedBytes, downloadedBytes |-> s.downloadedBytes,
      description |-> s.description, id |-> n] : t \in 0..clock, s \in Sources}

Batches ==
    UNION {{b \in [1..n -> UNION {Observed(added + i) : i \in 1..n}] :
               \A i \in 1..n : b[i].id = added + i} : n \in 1..MaxBatch}

\* add(event), add(vector) and add(collector); an empty vector does nothing.
Add(batch) ==
    /\ added + Len(batch) <= MaxAdds
    /\ Retain(events \o batch, batch, maxEvents, maxAge)
    /\ added' = added + Len(batch)

SetMaxEvents(n) == Retain(events, <<>>, LimitOf(n), maxAge) /\ UNCHANGED added

SetMaxAge(age) == Retain(events, <<>>, maxEvents, age) /\ UNCHANGED added

cleanup == Retain(events, <<>>, maxEvents, maxAge) /\ UNCHANGED added

clear ==
    /\ events' = <<>>
    /\ reference' = <<>>
    /\ UNCHANGED <<maxEvents, maxAge, clock, added>>

Tick ==
    /\ clock < MaxClock
    /\ clock' = clock + 1
    /\ UNCHANGED <<events, maxEvents, maxAge, added, reference>>

HistoryInit ==
    /\ events = <<>>
    /\ \E n \in Limits : maxEvents = LimitOf(n)
    /\ maxAge \in Ages
    /\ clock = 1
    /\ added = 0
    /\ reference = <<>>

HistoryNext ==
    \/ \E b \in Batches : Add(b)
    \/ \E n \in Limits : SetMaxEvents(n)
    \/ \E a \in Ages : SetMaxAge(a)
    \/ cleanup \/ clear \/ Tick

HistorySpec == HistoryInit /\ [][HistoryNext]_historyVars

-----------------------------------------------------------------------------
\* The history is never larger than its limit, which is at least 1.
TypeOK ==
    /\ Len(events) <= maxEvents
    /\ maxEvents \in Nat \ {0}
    /\ maxAge \in Ages
    /\ clock \in Nat
    /\ added \in 0..MaxAdds

Kept == {events'[i] : i \in DOMAIN events'}

\* What is dropped, other than by clear(), has expired, or it had to make room:
\* the history is full of events that are not earlier.  What has expired when
\* limits are enforced is dropped ("Removes events older than maxAge, then
\* removes the oldest events until size fits within maxEvents").
DropsOnlyOldest ==
    [][~clear =>
         /\ \A i \in DOMAIN events :
               \/ events[i] \in Kept
               \/ Expired(events[i], maxAge', clock)
               \/ Len(events') = maxEvents' /\ \A e \in Kept : ~earlierThan(e, events[i])
         /\ clock' = clock => \A e \in Kept : ~Expired(e, maxAge', clock)]_historyVars

\* Sorting only on overflow, one batch at a time, keeps exactly the newest of
\* everything that was added, however late and in whatever order it arrived;
\* of simultaneous events the ones added last.
KeepsNewest == getRecent(0) = Newest(StableSort(reference), maxEvents)

\* The history's own lookups, a TimelineQuery and a ProcessTimelineBuilder made
\* from it give the same timelines, each of them a part of the whole one.
LookupsAgree ==
    LET all == getRecent(0)
    IN  /\ \A p \in {s.pid : s \in Sources} :
              /\ getByProcessId(p) = byProcessId(all, p)
              /\ getByProcessId(p) = getProcessTimeline(events, p)
        /\ \A n \in {s.name : s \in Sources} :
              getByProcessName(n) = byProcessName(all, n)
        /\ \A t \in {s.type : s \in Sources} :
              Selected(all, {i \in DOMAIN all : all[i].type = t}) = byEventType(all, t)
        /\ \A n \in 0..maxEvents : getRecent(n) = recent(all, n)

=============================================================================
