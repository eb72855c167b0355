------------------------- MODULE TimelineSummaries -------------------------
(***************************************************************************)
(* The summaries that a TimelineSummaryBuilder makes of the events a       *)
(* TimelineEventHistory holds.                                             *)
(***************************************************************************)
EXTENDS TimelineEventHistory, FiniteSetsExt

CONSTANTS NoName,     \* the empty name
          NoText,     \* the empty text
          ElevatedUploadBytes, UploadDominantRatio, OneMiB,  \* as in
          ManyRemoteEndpoints, RepeatedUploadEvents          \* TimelineSummaryBuilder

Summaries == INSTANCE TimelineSummaryBuilder

-----------------------------------------------------------------------------
EventsOf(pid) == {events[i] : i \in {j \in DOMAIN events : events[j].pid = pid}}

EventsNamed(name) == {events[i] : i \in {j \in DOMAIN events : events[j].name = name}}

RemotesIn(es) == {e.remote : e \in es} \ {NoText}

\* The peaks of what was observed with a remote, and how often it was.
PeaksAt(es, r) ==
    LET at == {e \in es : e.remote = r}
    IN  [uploadedBytes |-> Max({e.uploadedBytes : e \in at}),
         downloadedBytes |-> Max({e.downloadedBytes : e \in at}),
         eventCount |-> Cardinality(at)]

\* s is a summary of the events es, whatever order they are in.
Summarises(s, es) ==
    LET remotes == RemotesIn(es)
        peaks == [r \in remotes |-> PeaksAt(es, r)]
        named == {e \in es : e.name # NoName}
    IN  /\ s.totalUploadedBytes = MapThenSumSet(LAMBDA r : peaks[r].uploadedBytes, remotes)
        /\ s.totalDownloadedBytes = MapThenSumSet(LAMBDA r : peaks[r].downloadedBytes, remotes)
        /\ s.remoteEndpointCount = Cardinality(remotes)
        /\ {e.timestamp : e \in es} \subseteq s.firstSeen..s.lastSeen
        /\ Summaries!activeDuration(s) =
              Max({e.timestamp - f.timestamp : e, f \in es})
        /\ IF remotes = {} THEN s.mostActiveDestination = NoText
           ELSE /\ s.mostActiveDestination \in remotes
                /\ \A r \in remotes :
                      ~Summaries!isMoreActive(peaks[r], peaks[s.mostActiveDestination])
        /\ IF named = {} THEN s.processName = NoName
           ELSE \E e \in named : /\ s.processName = e.name
                                 /\ \A f \in named : ~earlierThan(f, e)

\* The summaries made from the history are those of the events it holds: late
\* events, copies of an event and events without a remote change no total, the
\* destination named is one that no other beats in whichever order the hash map
\* hands them out, and the name is the earliest known.  There is one summary
\* for each PID, in order, the one a lookup of the PID gives; a lookup by name
\* sums up all processes of that name ("keep the peak observed volume for each
\* destination", TimelineSummaryBuilder::summarize;
\* "One summary per distinct PID, ordered by PID ascending").
SummariesRight ==
    LET timeline == getRecent(0)
        all == Summaries!forAllProcesses(timeline)
        pids == {events[i].pid : i \in DOMAIN events}
    IN  /\ Len(all) = Cardinality(pids)
        /\ \A i, j \in DOMAIN all : \A s \in all[i], t \in all[j] :
              i < j => s.processId < t.processId
        /\ \A i \in DOMAIN all : \A s \in all[i] :
              /\ s.processId \in pids
              /\ all[i] = Summaries!forProcessId(timeline, s.processId)
              /\ Summarises(s, EventsOf(s.processId))
        /\ \A e \in {events[i] : i \in DOMAIN events} :
              \A s \in Summaries!forProcessName(timeline, e.name) :
                  Summarises(s, EventsNamed(e.name))
=============================================================================
