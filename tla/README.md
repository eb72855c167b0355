# Data Exfiltration Detection Engine: formal models

TLA+ models of the engine in `src/src`, model-checked with TLC and, where marked,
proved with TLAPS. `PROJECT.json` lists components, runs, mutants, the map from
definitions to source lines, findings, hazards and theorems.

Reproduce, inside this directory:

    tlc -workers 2 -config MCTransferPipeline.cfg MCTransferPipeline
    tlapm TransferPipelineProofs.tla

## 1. The system

The engine is a library of collectors, trackers and analysers without a main
loop of its own. The loops are those of the guides in `docs/`: every few seconds
the caller takes a snapshot from a collector, hands it to a tracker's `update()`,
and passes what the tracker returns on to other parts. Everything runs in the
caller's thread. What does not wait for it is the operating system: sockets open,
close, change state, move bytes and are replaced, processes start, exit and have
their PIDs reused, DNS changes its answers, all between two calls and in the
middle of one.

| Component | State | Operations | Fed by / feeds |
|---|---|---|---|
| `NetworkMonitor` | none; a call builds a vector over four tables | `getActiveConnections`, `getConnectionTransferSnapshots` | Windows IP Helper / all network trackers |
| `ConnectionTracker` | `activeConnections_`, `seeded_` | `update`, `reset` | rows / CREATED and CLOSED events |
| `EventDispatcher` | `handlers_` | `subscribe`, `dispatch`, `clear` | events / handlers |
| `UploadTracker`, `DownloadTracker` | baselines and totals of open connections, statistics of closed ones, `seeded_` | `update`, `reset` | transfer rows / statistics |
| `TransferRateTracker` | the same for both counters, rates, per-process aggregates, names and first observations | `update`, `reset` | transfer rows / statistics |
| `DnsCache` | entries with expiry, lifetime | `get`, `put`, `invalidate`, `clear`, `purgeExpired`, `setTtl` | `DomainResolver` |
| `DomainResolver` | its cache, a lookup function | `resolve`, `resolveIp`, `resolveAll`, `refresh` | DNS / resolved endpoints |
| `ProcessMonitor` | none | `getActiveProcesses` | Toolhelp / `ProcessTracker` |
| `ProcessTracker` | `trackedProcesses_`, `seeded_` | `update`, `reset` | process rows / events |
| `ConnectionAttributor` | `processCache_`, attributed connections, also grouped by PID | `syncProcesses`, `attribute`, `reset` | both trackers / attributed connections |
| `TimelineEventCollector` | events by PID, keys seen | the `collect...` functions, `reset` | four trackers / timeline |
| `TimelineEventHistory` | events, limit, maximum age | `add`, `setMaxEvents`, `setMaxAge`, `cleanup`, `clear`, lookups | collector / queries |
| `TimelineQuery`, `ProcessTimelineBuilder`, `TimelineSummaryBuilder` | a copy of the events | lookups, `build`, summaries by PID, by name and of all processes | history or collector |
| `RemoteEndpointIdentifier`, `ProtocolPortAnalyzer` | none | `identify`, `analyze` | connection rows, attributed or not / `DomainResolver`, reports |
| `NetworkUtils` | none | classification of address texts, ports; formatting | all of the above |

What is hard here, and therefore what the properties are about:

* **Collections are not atomic.** A table is sized, then fetched, then each row's
  counters are enabled and read with three more calls. Properties:
  `CompleteUnlessFailed`, `NoPhantomRows`, `OwnCountersUnlessReplaced`.
* **Differences of snapshots.** Every tracker infers what happened from two
  snapshots, either of which may be incomplete or stale; a connection may be
  closed and opened again in between. Properties: `TotalsFollowCounter`,
  `NeverOvercounts`, `TrackedMeansSeen`, `ClosedOnlyIfGoneOrUnread`.
* **Identity.** Connections are known by PID, addresses and ports, processes by
  PID; both are reused. Properties: `AddressesNeverOvercounted`, `OwnersNamed`, `CacheFollowsTracker`,
  `NamesNotStale`, `ProcessTotalsConserved`.
* **Several parts keep their own version of the same fact** and are reset
  separately. Properties: `TrackersAgree`, `ViewsFollowTracker`,
  `CacheFollowsTracker`, `LookupsAgree`.
* **Failure in the middle**: a table, one row's counters, a process snapshot, a
  DNS lookup or a handler fails and the rest goes on.
* **Running totals, late and repeated events**: a timeline holds many entries for
  the same bytes. Properties: `SummaryShowsPeaks`, `SummariesRight`, `GrowthRecorded`.
* **Texts that stand for addresses**, with compressions, IPv4 tails, and ports
  joined by one more colon. Properties: `AddressesRecognised`, `EndpointsUsable`,
  `OnlyAskedDestinations`.
* **Limits and expiry** of the cache and of the history: `StalenessBounded`,
  `LookupsSpaced`, `KeepsNewest`, `DropsOnlyOldest`.

`PROJECT.json` lists each hazard at its line, with the properties that cover it.

## 2. Modules

Shared: `Maps` (the maps of the code as functions on their keys), `SnapshotRows`
(transfer rows, the index by key that every tracker builds first, `computeDelta`).

| Module | Models |
|---|---|
| `NetworkMonitor` | The operating system's sockets (`Open`, `ChangeState`, `Close`, `Transfer`; external) and a running collection, one step per system call: `Begin`, `QuerySize`, `Fetch`, `AddRow`, `EnableEstats`, `ReadEstats`, the failures, `Return`. `phase`, `table`, `size`, `pending` and `result` are the locals of the C++ functions. |
| `UploadTracker` | `update` and `reset`; the counter it follows is a constant, so `DownloadTracker` is an instance with "received". `TransferLedger` is its abstract specification. |
| `TransferRateTracker` | `update` with `rebuildProcessStats`, `reset`. `TransferTrackers` runs it and the two others on the same snapshots. |
| `TransferPipeline` | `NetworkMonitor` + a transfer tracker: the polling loop of `docs/UPLOAD_TRACKING.md` and `docs/DOWNLOAD_TRACKING.md`. Several connections, of different processes, may have the same addresses and ports. |
| `ConnectionTracker`, `EventDispatcher`, `ConnectionPipeline` | `NetworkMonitor` + connection tracker + dispatcher + consumers that keep a view from the events, subscribe at any time between polls, and may throw. |
| `DnsCache`, `DomainResolver` | The cache, and the resolver with its client, a clock and DNS. A lookup is two steps: call and return. |
| `NetworkUtils` | Which texts are addresses, of which family, and which are wildcards. |
| `RemoteEndpointIdentifier`, `ProtocolPortAnalyzer` | Which rows have an endpoint or a profile, and what is in it. |
| `EndpointIntelligence` | A client that goes through connection rows, whose remote side is any text, and then uses the resolver, with the modules above; how the collector writes an endpoint into an event (`formatEndpoint`) and how `TimelineQuery::byRemoteDestination` finds it again; the grammar of addresses all this is compared with. |
| `Host` | The processes of the host, and `ProcessMonitor`'s snapshot of them: complete, empty because it failed, or cut short. |
| `ProcessTracker`, `ConnectionAttributor`, `AttributionPipeline` | The attribution loop, with polls of processes and connections at different times, tables missing from a collection, and resets of either component. |
| `TimelineEventCollector`, `TimelinePipeline` | Four trackers feeding the collector, and the summaries of its events. The three sources are read at different times; tables may be lost, counters may be read wrong (zeros for an unread ESTATS, another process's socket), so any rows may come, and each tracker and the collector may be reset. `collect` says at once what the calls of `tryAdd`, one per activity, amount to: an activity is added if no earlier call and no activity before it had its key. |
| `TimelineSummaryBuilder` | `summarize`, as the set of the summaries that the orders of its hash map allow, the hints, and the lookups by PID and name and of all processes. `TimelineSummaries` applies it to the events of a history. |
| `TimelineOrder`, `TimelineQuery`, `TimelineEventHistory` | The history with its limits, and the pure lookups over it; `TimelineQuery` also has the timelines of `ProcessTimelineBuilder`. Sorting and filtering are defined by what they give: `InOrder` puts at place `k` the element that `k - 1` others come before, `StableSort` orders the indices by `earlierThan` and then by place, `Selected` takes the elements at some indices in ascending order. |
| `MC*` | Instances for TLC. |
| `*Proofs` | TLAPS proofs of the module they are named after; `TransferTrackersProofs` also covers `TransferRateTracker`. `ConnectionPipelineProofs` and `TransferPipelineProofs` build on `NetworkMonitorProofs`. `NamingProofs` is about `DomainResolver` and `AttributionPipeline`, `TimelineProofs` about `TimelineEventHistory` and `TimelinePipeline`. |

Conventions. Variables and operators keep the source's names without the
trailing underscore. A map of statistics that the code rebuilds from another map
after each change (`activeUploadStats_`, for one) is a definition, not a variable.
Definitions whose comment starts with "Fault:" are plausible bugs; they are not
used by any specification, only substituted for the correct definition to show
that a property notices. Variables marked "history" do not influence any step.

### Abstractions

* A connection's identity (`makeKey`: protocol, addresses, ports, PID) is one model
  value; `TupleOf` gives the part of it ESTATS sees, which lacks the PID.
* Hash maps: where their order can be seen, in a vector returned to the caller or in
  the choice of a destination, every order is possible (`Changes`, `Orders`,
  `MostActive`); process events, of which no
  consumer uses the order, are sets.
* A process snapshot is a map from PID to name: Toolhelp lists a PID once.
* Rates are integers (`RateUnit` per tick) instead of doubles. What matters is when
  a rate is zero and that it is never negative.
* `now` is one reading of the clock per `update`. Rows may carry no timestamp
  (`NoTime`); readings may be equal or go back. In `DomainResolver` and
  `TimelineEventHistory` the clock does not go back.
* Totals do not wrap at 2^64.
* A text is a sequence of tokens: a colon, a dot, or a run of other characters, of
  which only the class matters (octet, hextet, hexadecimal or decimal digits of any
  length, other). A query of `byRemoteDestination` consists of whole tokens. An
  address has `Groups` hextets or `Parts` octets, 8 and 4 in the code and 3 and 2 in
  the run: nothing but the two comparisons with these numbers depends on them.
* The thresholds of the summary's hints are constants, and hints are short words.
* The connection tables of `TimelinePipeline` may list any connections at any time, with
  any of the `Counters`: that is what the inside of a collection, with its failures,
  amounts to for parts that only see its rows. A caller collects from a set of
  sources (`SourceSets`); the steps of a poll, each an update of a tracker and the
  `collect...` call for what it returned, come in any order.
* Timeline events of `TimelinePipeline` have no time; those of
  `TimelineEventHistory` do. An event of the history bears a number that tells copies
  apart, which the code does not have and no lookup reads.
* A DNS answer is what DNS holds when the lookup returns.
* A connection may outlast its process, as TIME_WAIT rows do.

## 3. Runs

Passing:

| Run | Question | Answer |
|---|---|---|
| `upload_tracker` | Do the totals equal what the counters showed, whatever the snapshots? | Yes (`TotalsFollowCounter`); and the tracker implements `TransferLedger`: totals start at zero, only grow while a connection is tracked, closing settles exactly the running total, which stays until the same connection closes again or the tracker is reset (`ImplementsLedger`). |
| `transfer_trackers` | Do per-process totals, names and first observations survive connections closing, processes retiring and returning, and clocks that stand still or go back? Do three trackers that count independently ever disagree? | They survive: `ProcessTotalsConserved`, `EachProcessListedOnce`, `NameNeverForgotten`, `FirstObservedNeverLater`, and sent totals implement the ledger. No disagreement (`TrackersAgree`). |
| `shared_addresses` | ESTATS look a socket up without its PID: what if another process takes over addresses and ports between two polls or in the middle of one? | Its bytes may be counted for the old connection, but no byte is counted twice: together the connections never show more than they moved (`AddressesNeverOvercounted`). A connection that stays open through the collection shows counters of its own (`OwnCountersUnlessReplaced`). |
| `transfer_pipeline` | Does a collection return only what was there? Are the totals shown bytes that were really moved? Do gone connections leave, and lasting ones catch up? | Yes (`NoPhantomRows`); yes, if ESTATS can be read (`NeverOvercounts`, also proved); the tracker holds what was there (`TrackedMeansSeen`); yes (`GoneEventuallyClosed`, `EventuallyCaughtUp`). |
| `connection_pipeline` | What does a collection return while sockets change and tables fail? Does a consumer that only sees events know what the tracker knows, and does every lasting change reach it? | Every connection open throughout whose own table was read (`CompleteUnlessFailed`). A consumer follows (`ViewsFollowTracker`, `EveryEventIsNews`) and learns of what stays closed, and of what stays open if its table is read from some time on (`ChangesReachConsumers`), until a handler throws: the history variable `synced` then drops every handler that missed a call. CLOSED is reported only for a connection that was missing or whose table was not read (`ClosedOnlyIfGoneOrUnread`). |
| `endpoint_intelligence` | Which rows lead to a lookup? How old may an answer be, how often is DNS asked, is a refresh honoured? | The parsers, which cut, count and replace, accept exactly the grammar of addresses (`AddressesRecognised`); an endpoint is made of exactly the rows with a usable remote side (`EndpointsUsable`). A host name is given up less than the largest configured lifetime after DNS did (`StalenessBounded`); DNS is asked at most once per lifetime unless a refresh, a clear or force asks for it (`LookupsSpaced`); a refresh is followed by a lookup (`RefreshAsksDns`). |
| `attribution_pipeline` | Is a connection given to the right process across exits, PID reuse, failed and partial snapshots and separate resets? | The cache agrees with the tracker except for PIDs one of the two forgot in a reset (`CacheFollowsTracker`); a connection of the process last listed under its PID is given to that process and marked terminated exactly when the last snapshot did not list it (`OwnersNamed`). |
| `timeline_pipeline` | Is the timeline free of stale names, does dropping repetitions cost an entry, and what does a summary of it show? | No stale name (`NamesNotStale`); every total that is new for its process and endpoint since the collector's reset gets an entry (`GrowthRecorded`); the summary shows the largest total shown for each endpoint, summed over the endpoints, although connections share endpoints, tables are lost and trackers start over (`SummaryShowsPeaks`). |
| `timeline_history` | Which events are kept when some are late or come twice and the limits change, and what is made of them? | The newest (`KeepsNewest`, `DropsOnlyOldest`); all lookups agree on them (`LookupsAgree`); summaries count each peak once, name a destination that none beats in any order of the hash map and the earliest name known (`SummariesRight`). |

Violations, each a disagreement between the code and what the repository says of
it (quoted under "findings"):

| Run | What TLC shows |
|---|---|
| `transfer_pipeline_estats` | A failed ESTATS reading reaches the tracker as zero; the next good one looks like a reset counter and is counted in full again. |
| `connection_pipeline_growth` | A table that grows between size query and fetch is dropped; all its connections are reported closed. |
| `endpoint_intelligence_query` | A query for a bare IPv6 address that ends in a group of decimal digits has the group cut off as a port, and finds the events of the address that is left (`OnlyAskedDestinations`; `::0:7` finds `::0`). The comment above that code says bare IPv6 addresses are not broken. |

Behaviour of the code that the models keep and a reader should know of: the total
of a closed connection is replaced when the same endpoints close again
(`closedUploadStats_[key] = ...`); a failed lookup is answered as NOT_FOUND from the
cache until it expires; a failed process snapshot is an empty list, so every process
is reported terminated and then created again; a second opening of the same
connection has the key of the first and is not put on the timeline; nor is growth to a
total that this or another connection of the process to the same endpoint has shown
before, for instance because one table was lost for one poll and the total started over
at zero, although `docs/TIMELINE_EVENT_COLLECTION.md` (line 83) says that growing
totals produce a new entry (the table of keys above that line has it as the code does);
a summary takes the peak per endpoint, so two connections
of a process to one endpoint at the same time, or two processes of one name, count as
the larger of them; adding a collector to the history twice adds its events twice,
which no total shows but the count behind the hint on repeated uploads does;
`isUnspecified` knows three spellings of "no address", so `::0` is an endpoint like
any other; a profile of a socket that listens on `0.0.0.0` has the family IPv4, the
branch for "family unknown" being reached by the empty address only.

### Bounds

Connections, PIDs and names: the smallest sets in which each case occurs. One
connection with two sockets (`MaxOpens = 2`) for reuse between two polls or inside
one; two connections in one table where one must grow the table under the other;
two connections of one process and one of another for aggregation; two processes
on one PID for reuse. Counters go up to 1 or 2 (`MaxBytes`), enough for growth, a
stand-still and a fall back to a value that is not zero. `MaxTotal` bounds totals of
the trackers run on their own, whose snapshots include repeated rows, missing
rows, missing names and counters that go back. `connection_pipeline` has two
connections in a table each, so that either table fails without the other, and
`connection_pipeline_growth` two in one table; `timeline_pipeline` has two connections
to one endpoint and one to another, of which any two are listed, with up to two events
per process, and callers that collect either processes and connections or transfers (what is
collected from one source does not touch the keys of another). `shared_addresses` two connections with the
same addresses, of which either is opened while a row of the other waits for its
counters. The clock of `endpoint_intelligence` runs to 3
with lifetimes 1 and 2, so entries stored under either lifetime expire under the
other; its texts have up to `MaxTokens` tokens, enough for an address with one
hextet too many and for a compression of nothing (four in
`endpoint_intelligence_query`). `timeline_history` adds up to four
events in batches of up to two over times 0..3 with limits 0 (which the code turns
into 1) and 3: both limit and age drop events, events arrive late and repeatedly, and
up to three of them, of two destinations, are summarised. Polls and resets are not
bounded anywhere.

### Fairness

`LiveSpec` of `TransferPipeline` and of `ConnectionPipeline` asks weak fairness of
the steps of the caller's loop only (start a poll, next system call, deliver,
report to handlers): the loop of the guides never stops, and no call in it waits for
another party of the model. Nothing is asked of the operating system. In
both pipelines any table may fail at any poll, and sockets that open again and again
may spoil a table's collections for ever. `EventuallyCaughtUp` therefore has the premise
that the connection's table is read again and again, and `ChangesReachConsumers`, which
speaks of a view that stays right, that it is read from some time on. That the total
ends up equal to the counter of the present moment is due to `MaxBytes`, which ends the
traffic; of traffic that never ends only the reading of the last collection can be
meant.

## 4. Proofs

All theorems hold for every value of the constants that the modules' assumptions
allow: any number of connections, sockets, processes, handlers, addresses and bytes,
any snapshots, and runs of any length. "Run" names the run that checks the same
property on a small instance.

| Theorem | States | Run |
|---|---|---|
| `NetworkMonitorProofs!CollectionsComplete` | `CompleteUnlessFailed` | `connection_pipeline` |
| `NetworkMonitorProofs!CollectionsHaveNoPhantoms` | `NoPhantomRows` | `transfer_pipeline` |
| `ConnectionPipelineProofs!ViewsAgree` | `ViewsFollowTracker` | `connection_pipeline` |
| `ConnectionPipelineProofs!EventsAreNews` | `EveryEventIsNews` | `connection_pipeline` |
| `ConnectionPipelineProofs!ClosedMeansGoneOrUnread` | `ClosedOnlyIfGoneOrUnread` | `connection_pipeline` |
| `UploadTrackerProofs!TypeCorrect` | `TypeOK` | `upload_tracker` |
| `UploadTrackerProofs!TotalsExact` | `TotalsFollowCounter` | `upload_tracker` |
| `UploadTrackerProofs!ImplementsTheLedger` | `ImplementsLedger` | `upload_tracker` |
| `TransferTrackersProofs!RateTrackerTyped` | `TypeOK` | `transfer_trackers` |
| `TransferTrackersProofs!TotalsConserved` | `ProcessTotalsConserved` | `transfer_trackers` |
| `TransferTrackersProofs!ProcessesListedOnce` | `EachProcessListedOnce` | `transfer_trackers` |
| `TransferTrackersProofs!NamesKept` | `NameNeverForgotten` | `transfer_trackers` |
| `TransferTrackersProofs!FirstObservationsKept` | `FirstObservedNeverLater` | `transfer_trackers` |
| `TransferTrackersProofs!KeepsSentLedger` | `ImplementsSentLedger` | `transfer_trackers` |
| `TransferTrackersProofs!ThreeTrackersAgree` | `TrackersAgree` | `transfer_trackers` |
| `TransferPipelineProofs!NeverOvercountsHolds` | `NeverOvercounts` | `transfer_pipeline` |
| `TransferPipelineProofs!AddressesCovered` | `AddressesNeverOvercounted` | `shared_addresses` |
| `TransferPipelineProofs!PipelineTypeCorrect` | `TypeOK` | `transfer_pipeline` |
| `TransferPipelineProofs!TrackedExactlyTheSeen` | `TrackedMeansSeen` | `transfer_pipeline` |
| `TransferPipelineProofs!CountersAreOwn` | `OwnCountersUnlessReplaced` | `shared_addresses` |
| `NamingProofs!CacheAgrees` | `CacheFollowsTracker` | `attribution_pipeline` |
| `NamingProofs!ConnectionsNamed` | `OwnersNamed` | `attribution_pipeline` |
| `TimelineProofs!EventsNamedTruly` | `NamesNotStale` | `timeline_pipeline` |
| `TimelineProofs!GrowthNotMissed` | `GrowthRecorded` | `timeline_pipeline` |
| `TimelineProofs!HistoryBounded` | `TypeOK` | `timeline_history` |
| `TimelineProofs!NewestRetained` | `KeepsNewest` | `timeline_history` |
| `TimelineProofs!OldestDropped` | `DropsOnlyOldest` | `timeline_history` |
| `TimelineProofs!LookupsConsistent` | `LookupsAgree` | `timeline_history` |
| `NamingProofs!ResolverTypeCorrect` | `TypeOK` | `endpoint_intelligence` |
| `NamingProofs!AnswersNotTooOld` | `StalenessBounded` | `endpoint_intelligence` |
| `NamingProofs!DnsNotHammered` | `LookupsSpaced` | `endpoint_intelligence` |
| `NamingProofs!RefreshReachesDns` | `RefreshAsksDns` | `endpoint_intelligence` |

`SnapshotRowsProofs` holds the lemmas about what every tracker does first: the index
of a snapshot by key (`DedupeRows`) and the difference of two readings (`DeltaBounds`,
`DeltaStep`). It also has the theory of sums the totals need. `SumFunction` takes one
element after the other away; `SumCounts` shows that it arrives at the number of elements of
the set `Units(f, S)`, which has `f[x]` elements for every `x`, so that facts about
cardinalities become facts about sums: `SumSplit`, `SumAdded`, `SumMonotone`,
`SumBumped`. The induction over the set is done by hand: `Counting` takes a smallest
subset for which the sum is wrong (`LeastIndex`) and removes one element from it.

### Collector

`NetworkMonitorProofs`. What is claimed of a finished collection must be said of a
running one: `Accounted(c)`, for a connection open since the first call, says that it
is in the result or its table failed once that table is behind, and among the rows
waiting for counters or in the result while the table is being worked on. It needs
`WitnessShape` (the connections taken to have been open throughout are open now, and
those open now have been noticed) because a table fetched now lists what is open
now, and `LoopShape`, which ties the phase to the table number. The step that could go wrong is
`Fetch`: a table that grew since its size was asked for is dropped, and only then is
the table recorded as failed. `MonitorStepKeeps` covers `[MonitorNext]_monitorVars`, so
both pipelines over the collector use it as it is. The two theorems are about
`MonitorSpec`, the collector under a caller that polls for ever; its steps are checked in the
runs of the two pipelines, each of which is a refinement of it.

### Connections and events

`ConnectionPipelineProofs`. Consumers are compared with the tracker between
dispatches, but during one each handler has had a different prefix of the events. The
invariant `PipelineInv` says of handler `j` that its view differs from the tracker's
set in exactly the connections it is still to hear of (`ViewRight(j)`, with
`Outstanding(j)` the events not yet delivered to it). That is enough only because the
events of one update are about different connections and each says what the tracker
already holds (`DispatchShape`); for that, `update` is shown to list every change
exactly once in every order of the hash map. `synced` handlers are subscribed, once
each, and there are none before the tracker is seeded (`SubscriptionShape`): the first
update reports nothing. `ClosedMeansGoneOrUnread` combines `MonitorInv` with the step
that delivers a result: every connection missing from it was not open throughout or its table
failed.

### Transfer totals

`UploadTrackerProofs`. `TotalsFollowCounter` says that a total is the last reading
minus the first plus the readings lost to counter resets. It is inductive together
with the types and with `UnseededIsEmpty`: a tracker that has not taken its first
snapshot holds nothing, without which an unseeded tracker with a tracked
connection would move the baseline and count nothing. The ledger refinement rests on the same
invariant: a step of `update` observes, for every connection of the snapshot, a
total no smaller than before.

`TransferTrackersProofs`. `RateInv` consists of the shape of the connections' maps,
`EachProcessListedOnce`, and `ProcessShape`: the maps that outlive the lists
(`processNames`, `processFirstObserved`) agree with what the lists show. The latter is
why names and first observations survive retirement: `rebuildProcessStats` starts from
those maps and not from the lists, and every process it retires or takes up again is
already in them. The theorems are about `TransferRateTracker`'s own specification;
`RateTrackerSteps` shows that each step of `TransferTrackers` is one of its steps.
`TotalsConserved` needs `NothingLost`: every byte ever counted for a process is with one
of its open connections or in `closedByProcess`. What a process is shown is computed in
three ways (the aggregate of a running process, the record of one that retires, the record
kept of a retired one), and in each of them from these two places only. An update
moves connections between them, so the proof splits sums over the connections that
stay, come and close (`BalanceStep`). `RateTrackerTyped` uses that a total is what was
credited, which is a natural number.
`ThreeTrackersAgree` needs, besides the claim, that the three have the same baselines
and are seeded together (`BaselinesAgree`): equal totals alone may grow differently.
It holds although every tracker reads its own clock.

`TransferPipelineProofs`. `NeverOvercounts` compares what the tracker counted over all its
sessions with what was really moved, while between the two lie rows read earlier,
sockets replaced since, and a baseline from a socket that may be gone; in
`AddressesNeverOvercounted` the socket may besides be another process's. One
invariant serves both. `IInv` has seven parts: `MonitorTypeOK`; `SocketShape`, counters
stand at zero until a socket is established, and always for UDP; `CallShape`, finished rows
come from the tables visited so far and rows that wait for counters from the current one;
`OneRowPerTuple`, of the connections with the same addresses and ports one at most has
a row; `TrackerShape`, the types of the tracker's maps; `Covered(c, s)`, the heart, for a
connection `c` and a socket `s` with the same addresses: what was counted for all
connections with these addresses, plus what the collected reading of `c` will add, plus
what the next reading of `s` would add, is covered by what they all moved; `Published`, no
total shown exceeds what was counted. `Covered` distinguishes rows that will be
completed with a socket's counters from rows that will be completed with zeros, for a
zero makes the next reading count in full. It is the sum that makes it inductive:
bytes of one process counted for another are still covered by the traffic of both.
If addresses are not shared the sum has one summand and gives `NeverOvercounts`.
Both theorems assume, beyond the modules' assumptions, `EstatsReliable` (ESTATS of an
existing, established socket can be read; without it `transfer_pipeline_estats` refutes the
claim). `AddressesCovered` assumes `TuplesInOneTable` (IPv4, IPv6, TCP and UDP
sockets are not taken for each other: ESTATS are asked for by protocol and family), and
`NeverOvercountsHolds` assumes `OwnTuples` (two connections do not share addresses and
ports).
`PipelineTypeCorrect` and `TrackedExactlyTheSeen` use `MonitorInv` of the collector and
the tracker's types, nothing else. `CountersAreOwn` is about shared addresses; its
invariant `SharedInv` adds that of the connections with the same addresses and ports at
most one is open (`OneSocketPerTuple`), so that the socket ESTATS find for a connection
which is open is its own, and that counters in the result were read from it
(`OwnCounters`, stated as "no more than the socket counts now", since counters go on
after the row is read).

### Attribution

`NamingProofs`. The attributor never looks into the tracker: it learns of processes from the list and the events of an update. `ChangesTold` shows that the
events say, for each PID tracked or listed, whether it came or went, and `SyncEffect`
what the cache makes of them.
`AttributionInv` adds to `CacheFollowsTracker` that the tracker holds what was listed
last, save what its own reset took (`ListedIsTracked`), that the cache has every
process listed since the attributor's reset under its last name (`OwnersCached`), and
that an unseeded tracker is empty, for the first snapshot yields no events.

### Timeline

`TimelineProofs`. Two questions about the collector, one invariant, `CollectionInv`.
Names: `NamesCurrent` says that every name the collector may still be given (of a
process that runs or that the tracker holds) is one the PID had since the poll's
process snapshot; rows of the transfer snapshots bear no names, and so neither do the
totals (`TotalsNameless`). Growth: the collector drops an activity whose key it has
seen, and a key of a transfer contains the total, so a new total would be lost if its
key were known already. `KeysShown` excludes that: the key of a total is known only if
a tracker showed that total for that process and endpoint since the collector's reset.
It does not matter why the tracker showed it, so lost tables, wrong counters, shared
endpoints and trackers that are reset need no case of their own. `KeysKnown`, the key of every
event on record is known, makes the new event really new; `EventsListed`, the events of a
process are a list, is what the append needs.

The lists a poll hands over come in the unspecified orders of `SetToSeqs`; `ListsAll`
shows that such an order has every element, from the finiteness of connections and PIDs
(`HostAssumption`).

The history. `cleanup` sorts only when there are too many events, after each batch,
and what it drops is not there when the next batch comes; `KeepsNewest` compares that with
sorting once everything that was added. Sorted timelines are compared as sets:
`BeforeOrders` shows that `earlierThan`, made total by the number of an event, is a strict
order; `OneOrder` that a set has one enumeration in a strict order, by counting what comes
before each element; and `SortGivesChronicle` that `StableSort` of a `Consistent` sequence
(one in which simultaneous events stand as they were added) is the enumeration of its
members. `LookupsConsistent` follows, since filtering and sorting keep a sequence
consistent (`SelectedConsistent`, `SortedConsistent`). `HistoryInv` has one more part,
`NewestKept`: every event missing from the history comes before all that it holds, and
then the history is full. The interesting step is `RetainInv`: an event dropped long ago
still comes before everything held after a batch that is itself older, for the events that
survive the batch are no earlier than those that pushed the first one out. Assumption
on the constants, beyond the types of the bounds: the PID of an event is a number and its
type one of the enumeration (`HistoryAssumption`).

### Names

`NamingProofs`. `TrueWhenStored`: what an entry says is what DNS says, or
DNS ceased to say it after the entry was stored; with `LifetimesConfigured` (an entry
expires at most the largest lifetime after it was stored, also when `setTtl` changes the
lifetime later) that bounds the age of an answer. `EntriesKeepQuiet`: an entry expires
exactly when DNS may be asked again, and an entry leaves the cache only expired or
because a refresh wants it; that gives `LookupsSpaced` and `RefreshAsksDns`.
Assumption on the constants: there is a largest lifetime in `Ttls` (a lifetime is a
number of seconds of fixed width in the code). `EndpointIntelligence` runs the resolver
under a client; its steps for the resolver are those of `DomainResolver`.

Each inductive invariant was first checked with TLC on the instance of the run
(`ResolverInv` only as far as 20 million states go).

### Only model-checked

* Liveness: `GoneEventuallyClosed`, `EventuallyCaughtUp`, `ChangesReachConsumers`.
* Summaries: `SummariesRight` and `SummaryShowsPeaks`. `summarize` goes through the events
  with a state (destinations, peaks, counts); what such a fold computes for every
  timeline needs an induction over it.
* The grammar of address texts: `AddressesRecognised` and
  `EndpointsUsable`, for the same reason: `split` and `Join` go through a text.

## 5. Not modelled

* `toString`, `formatBytes`, `formatRate`, `formatDuration`, `formatTimestamp`,
  `ProcessTimelineBuilder`'s listings and other text for people: no part of the engine
  reads it back.
* `NetworkUtils::isLoopback`: no part of the engine calls it.
* Constructors and accessors of the data models; their fields are the fields of the
  records in the modules that use them.
* A handler that subscribes or clears during a dispatch: the C++ iterator is
  invalidated and nothing can be said of what follows. Consumers act between
  dispatches.
* Calls from several threads: no component has a lock, and the documents use one.
* A system clock that is set back under the cache or the history.

## 6. Plan

The engine's state-changing parts and its pure functions are modelled, and every
safety property of the runs is proved but those that need an induction over data
(section 4, "Only model-checked"). What could follow:

1. `summarize` in closed form (peaks and counts as functions of the set of events), as
   `collect` and `StableSort` are, so that `SummariesRight` and then `SummaryShowsPeaks`
   come within reach of a proof.
2. Texts as functions on positions instead of folds, for `AddressesRecognised`.
