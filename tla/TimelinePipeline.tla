-------------------------- MODULE TimelinePipeline --------------------------
(***************************************************************************)
(* The trackers and the TimelineEventCollector they feed, in the polling   *)
(* loop of docs/TIMELINE_EVENT_COLLECTION.md ("Usage").  A poll reads the  *)
(* processes, later the connections and later still their counters.        *)
(* TimelineEventCollector::collect calls the collect function of one       *)
(* source after the other; each call is a step here, together with the     *)
(* update of the tracker that returned what is collected, for no tracker   *)
(* looks at another or at the collector.  Callers may also leave sources   *)
(* out or call the functions themselves: the steps come in any order.      *)
(***************************************************************************)
EXTENDS Host, SnapshotRows, SequencesExt

CONSTANTS Conns,                 \* connection identities: protocol, PID, 4-tuple
          PidOf,                 \* the PID in a connection's identity
          RemoteOf,              \* its protocol, remote address and port
          NoText,                \* the empty text
          Counters,              \* what the two counters of a row may show
          SourceSets,            \* the sets of sources callers collect from
          ElevatedUploadBytes, UploadDominantRatio, OneMiB,  \* as in
          ManyRemoteEndpoints, RepeatedUploadEvents,         \* TimelineSummaryBuilder
          MaxOpen,               \* bound: connections open at once
          MaxTotal,              \* bound: running total of a tracker
          MaxEvents              \* bound: events of a process

ASSUME TimelineAssumption ==
    /\ IsFiniteSet(Conns) /\ PidOf \in [Conns -> Pids] /\ DOMAIN RemoteOf = Conns
    /\ Counters \subseteq [Directions -> Nat]
    /\ MaxOpen \in Nat /\ MaxTotal \in Nat /\ MaxEvents \in Nat

VARIABLES sources,                               \* what the caller collects from
          trackedProcesses, processSeeded,       \* ProcessTracker
          activeConnections, connectionSeeded,   \* ConnectionTracker
          activeUploads, uploadSeeded,           \* UploadTracker
          activeDownloads, downloadSeeded,       \* DownloadTracker
          eventsByProcess, seenEventKeys,        \* TimelineEventCollector
          namesSince,  \* history: PID -> names it had since the last process snapshot
          shown        \* history: totals the trackers showed the collector since
                       \* its last reset

processVars == <<trackedProcesses, processSeeded>>
connectionVars == <<activeConnections, connectionSeeded>>
uploadVars == <<activeUploads, uploadSeeded>>
downloadVars == <<activeDownloads, downloadSeeded>>
collectorVars == <<eventsByProcess, seenEventKeys>>
shownVars == <<namesSince, shown>>
vars == <<hostVars, sources, processVars, connectionVars, uploadVars, downloadVars,
          collectorVars, shownVars>>

Processes == INSTANCE ProcessTracker WITH seeded <- processSeeded

Connections == INSTANCE ConnectionTracker WITH seeded <- connectionSeeded

\* Rows carry a timestamp, so the trackers' own clock plays no part.  Nor do
\* the totals of closed connections, which are never handed to the collector.
Upload == INSTANCE UploadTracker WITH
    Keys <- Conns, Names <- ProcNames \cup {NoName}, Times <- {1}, Counter <- "sent",
    Snapshots <- {}, closedUploadStats <- EmptyMap, session <- EmptyMap,
    seeded <- uploadSeeded

Download == INSTANCE DownloadTracker WITH
    Keys <- Conns, Names <- ProcNames \cup {NoName}, Times <- {1},
    Snapshots <- {}, closedDownloadStats <- EmptyMap, session <- EmptyMap,
    seeded <- downloadSeeded

Collector == INSTANCE TimelineEventCollector

Summaries == INSTANCE TimelineSummaryBuilder

Init ==
    /\ HostInit
    /\ sources \in SourceSets
    /\ Processes!Init
    /\ Connections!Init
    /\ activeUploads = EmptyMap /\ uploadSeeded = FALSE
    /\ activeDownloads = EmptyMap /\ downloadSeeded = FALSE
    /\ Collector!Init
    /\ namesSince = [p \in Pids |-> {NoName}]
    /\ shown = {}

\* Processes start and exit, which only matters if the caller looks at them.
Environment ==
    /\ "processes" \in sources
    /\ HostStep
    /\ UNCHANGED sources
    /\ namesSince' = [p \in Pids |-> namesSince[p] \cup {running'[p]}]
    /\ UNCHANGED <<processVars, connectionVars, uploadVars, downloadVars, collectorVars, shown>>

-----------------------------------------------------------------------------
(* The sources are read and collected.                                     *)

\* collectProcessEvents(processTracker.update(processes))
PollProcesses(reached) ==
    LET snap == getActiveProcesses(reached)
    IN  /\ Processes!update(snap)
        /\ \E events \in SetToSeqs(Processes!Changes(snap)) :
              Collector!collect(Collector!ProcessActivities(events))
        /\ namesSince' = [p \in Pids |-> {running[p]}]
        /\ UNCHANGED <<hostVars, connectionVars, uploadVars, downloadVars, shown>>

\* collectActiveProcesses(processMonitor.getProcesses())
SeedProcesses(reached) ==
    LET snap == getActiveProcesses(reached)
    IN  /\ \E pids \in SetToSeqs(DOMAIN snap) : Collector!collect(Collector!ActiveActivities(pids, snap))
        /\ UNCHANGED <<hostVars, processVars, connectionVars, uploadVars, downloadVars,
                       shownVars>>

\* What the connection tables may list at any time: connections open and close
\* between any two calls, may outlast their processes and may have been there
\* before the engine.
Listings == {read \in SUBSET Conns : Cardinality(read) <= MaxOpen}

\* collectConnectionEvents(connectionTracker.update(connections), trackedProcesses):
\* read is what the tables list that could be read.
PollConnections(read) ==
    LET rows == [c \in read |-> [conn |-> c]]
    IN  /\ \E events \in Connections!Changes(rows) :
              /\ Connections!Apply(rows, events)
              /\ Collector!collect(Collector!ConnectionActivities(events, trackedProcesses))
        /\ UNCHANGED <<hostVars, processVars, uploadVars, downloadVars, shownVars>>

\* The rows of a transfer snapshot.
TransferRows(read, counters) ==
    [c \in read |-> [conn |-> c, name |-> NoName, timestamp |-> 1, bytes |-> counters[c]]]

\* Every total the transfer trackers show.
ShownTotals ==
    {[direction |-> "sent", pid |-> PidOf[c], remote |-> RemoteOf[c],
      total |-> activeUploads[c].cumulative] : c \in DOMAIN activeUploads}
    \cup
    {[direction |-> "received", pid |-> PidOf[c], remote |-> RemoteOf[c],
      total |-> activeDownloads[c].cumulative] : c \in DOMAIN activeDownloads}

\* collectUploadStats(uploadTracker.update(snapshots)) and
\* collectDownloadStats(downloadTracker.update(snapshots)).  The tables may list
\* other connections by now than they did before, or fail.  A row's counters may
\* be its own, zeros because they could not be read, or those of another
\* process's socket that has the addresses by then: anything.
PollTransfers(read, counters) ==
    LET rows == TransferRows(read, counters)
        uploads == Upload!NextActive(rows, 1)
        downloads == Download!Received!NextActive(rows, 1)
        uploadStats == [c \in read |-> Upload!toStats(uploads[c], TRUE)]
        downloadStats == [c \in read |-> Download!toStats(downloads[c], TRUE)]
    IN  /\ activeUploads' = uploads /\ uploadSeeded' = TRUE
        /\ activeDownloads' = downloads /\ downloadSeeded' = TRUE
        /\ \E up \in SetToSeqs(Collector!Counted(uploadStats)),
              down \in SetToSeqs(Collector!Counted(downloadStats)) :
              Collector!collect(Collector!UploadActivities(up, uploadStats)
                                \o Collector!DownloadActivities(down, downloadStats))
        /\ shown' = shown \cup ShownTotals'
        /\ UNCHANGED <<hostVars, processVars, connectionVars, namesSince>>

WithinBounds ==
    /\ \A t \in ShownTotals : t.total <= MaxTotal
    /\ \A p \in DOMAIN eventsByProcess : Len(eventsByProcess[p]) <= MaxEvents

Poll ==
    /\ \/ /\ "processes" \in sources
          /\ \E reached \in SUBSET Pids : PollProcesses(reached) \/ SeedProcesses(reached)
       \/ /\ "connections" \in sources
          /\ \E read \in Listings : PollConnections(read)
       \/ /\ "transfers" \in sources
          /\ \E read \in Listings :
                \E counters \in [read -> Counters] : PollTransfers(read, counters)
    /\ UNCHANGED sources
    /\ WithinBounds'

-----------------------------------------------------------------------------
(* The collector and each tracker may be reset on their own.               *)

ResetCollector ==
    /\ Collector!reset
    /\ shown' = {}
    /\ UNCHANGED <<hostVars, processVars, connectionVars, uploadVars, downloadVars, namesSince>>

ResetProcesses ==
    /\ Processes!reset
    /\ UNCHANGED <<hostVars, connectionVars, uploadVars, downloadVars, collectorVars, shownVars>>

ResetConnections ==
    /\ Connections!reset
    /\ UNCHANGED <<hostVars, processVars, uploadVars, downloadVars, collectorVars, shownVars>>

ResetUploads ==
    /\ activeUploads' = EmptyMap /\ uploadSeeded' = FALSE
    /\ UNCHANGED <<hostVars, processVars, connectionVars, downloadVars, collectorVars, shownVars>>

ResetDownloads ==
    /\ activeDownloads' = EmptyMap /\ downloadSeeded' = FALSE
    /\ UNCHANGED <<hostVars, processVars, connectionVars, uploadVars, collectorVars, shownVars>>

Reset ==
    /\ \/ ResetCollector \/ ResetProcesses \/ ResetConnections
       \/ ResetUploads \/ ResetDownloads
    /\ UNCHANGED sources

Next == Environment \/ Poll \/ Reset

Spec == Init /\ [][Next]_vars

-----------------------------------------------------------------------------
Events == UNION {{eventsByProcess[p][i] : i \in DOMAIN eventsByProcess[p]} :
                    p \in DOMAIN eventsByProcess}

\* An event bears no name, or one its PID had at some time since the poll's
\* process snapshot: never the name of an earlier process with the same PID
\* that was gone by then (resolveProcessName over getTrackedProcesses()).
NamesNotStale ==
    [][\A e \in Events' \ Events : e.name \in namesSince[e.pid] \cup {NoName}]_vars

\* e is the entry of a total.
Records(e, t) ==
    /\ e.pid = t.pid /\ e.remote = t.remote
    /\ IF t.direction = "sent"
       THEN e.type = "UPLOAD_ACTIVITY" /\ e.uploadedBytes = t.total
       ELSE e.type = "DOWNLOAD_ACTIVITY" /\ e.downloadedBytes = t.total

\* "Growing upload/download totals produce a new timeline entry"
\* (TIMELINE_EVENT_COLLECTION.md): dropping what was seen before never costs a
\* total that is new for its process and remote endpoint, such as one above all
\* that were shown for them since the collector's reset, although connections
\* to the endpoint share their keys, tables are lost and totals start over when
\* a connection or a tracker does.  A total that grows to where an earlier one
\* for the same endpoint has been gets no entry (TimelineEventCollector::tryAdd
\* and makeTransferKey).
GrowthRecorded ==
    [][\A t \in shown' \ shown : t.total # 0 => \E e \in Events' \ Events : Records(e, t)]_vars

\* The largest total shown for process p and remote endpoint r.
Peak(d, p, r) ==
    Max({0} \cup {t.total : t \in {u \in shown : u.direction = d /\ u.pid = p /\ u.remote = r}})

Peaks(d, p) == MapThenSumSet(LAMBDA r : Peak(d, p, r), {RemoteOf[c] : c \in Conns})

\* "Growing cumulative counters produce multiple events per remote; keep the
\* peak observed volume" (TimelineSummaryBuilder.cpp): the summary of a process
\* shows, for uploads and for downloads, the largest total the trackers showed
\* for each remote endpoint since the collector's reset, summed over the
\* endpoints.  No repetition, second connection, lost table or tracker reset
\* adds to it or takes from it.
SummaryShowsPeaks ==
    \A p \in Pids : \A s \in Summaries!forProcessId(Collector!getEventsForProcess(p), p) :
        /\ s.totalUploadedBytes = Peaks("sent", p)
        /\ s.totalDownloadedBytes = Peaks("received", p)
=============================================================================
