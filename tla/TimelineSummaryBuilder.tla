----------------------- MODULE TimelineSummaryBuilder -----------------------
(***************************************************************************)
(* process::TimelineSummaryBuilder: what a process did, out of the events  *)
(* of a timeline.  The builder only keeps a copy of the events, so they    *)
(* are a parameter here.                                                   *)
(*                                                                         *)
(* An event is a record as in TimelineOrder, with the fields remote,       *)
(* uploadedBytes, downloadedBytes and description.  The byte counts of an  *)
(* event are running totals, not what was moved since the last event.      *)
(***************************************************************************)
EXTENDS Integers, Sequences, FiniteSets, Maps

LOCAL INSTANCE SequencesExt

LOCAL INSTANCE FiniteSetsExt

CONSTANTS NoName,                \* the empty name
          NoText,                \* the empty text
          ElevatedUploadBytes, UploadDominantRatio, OneMiB,
          ManyRemoteEndpoints, RepeatedUploadEvents

Larger(x, y) == IF y > x THEN y ELSE x

\* DestinationStats
NoStats == [uploadedBytes |-> 0, downloadedBytes |-> 0, eventCount |-> 0]

isMoreActive(left, right) ==
    LET leftTotal == left.uploadedBytes + left.downloadedBytes
        rightTotal == right.uploadedBytes + right.downloadedBytes
    IN  \/ leftTotal > rightTotal
        \/ /\ leftTotal = rightTotal
           /\ \/ left.uploadedBytes > right.uploadedBytes
              \/ /\ left.uploadedBytes = right.uploadedBytes
                 /\ left.eventCount > right.eventCount

\* Fault: running totals are added up.
ObserveAdding(stats, e) ==
    [uploadedBytes |-> stats.uploadedBytes + e.uploadedBytes,
     downloadedBytes |-> stats.downloadedBytes + e.downloadedBytes,
     eventCount |-> stats.eventCount + 1]

\* An event with a remote side: the peak of each running total is kept.
Observe(stats, e) ==
    [uploadedBytes |-> Larger(stats.uploadedBytes, e.uploadedBytes),
     downloadedBytes |-> Larger(stats.downloadedBytes, e.downloadedBytes),
     eventCount |-> stats.eventCount + 1]

\* byDestination: remote -> DestinationStats
AddDestination(byDestination, e) ==
    IF e.remote = NoText THEN byDestination
    ELSE Put(byDestination,
             [r \in {e.remote} |->
                 Observe(IF r \in DOMAIN byDestination THEN byDestination[r] ELSE NoStats, e)])

\* Fault: the statistics to beat are not remembered.
PickForgetting(byDestination, best, r) ==
    IF best.destination = NoText \/ isMoreActive(byDestination[r], best.stats)
    THEN [best EXCEPT !.destination = r]
    ELSE best

Pick(byDestination, best, r) ==
    IF best.destination = NoText \/ isMoreActive(byDestination[r], best.stats)
    THEN [destination |-> r, stats |-> byDestination[r]]
    ELSE best

\* The destinations picked in the orders the hash map may have.
MostActive(byDestination) ==
    {FoldLeft(LAMBDA best, r : Pick(byDestination, best, r),
              [destination |-> NoText, stats |-> NoStats], order).destination :
        order \in SetToSeqs(DOMAIN byDestination)}

Total(byDestination, field) ==
    MapThenSumSet(LAMBDA r : byDestination[r][field], DOMAIN byDestination)

Count(events, type) == Len(SelectSeq(events, LAMBDA e : e.type = type))

\* summary.behaviorHints; the texts are short for the sentences of the code.
buildBehaviorHints(up, down, remotes, uploads, suspicious) ==
    LET described == SelectSeq(suspicious, LAMBDA e : e.description # NoText)
        hint(given, text) == IF given THEN <<text>> ELSE <<>>
    IN  hint(up >= ElevatedUploadBytes, "elevated outbound")
        \o hint(up > 0 /\ up >= down * UploadDominantRatio /\ up >= OneMiB, "outbound dominant")
        \o hint(remotes >= ManyRemoteEndpoints, "many remotes")
        \o hint(uploads >= RepeatedUploadEvents, "repeated uploads")
        \o hint(suspicious # <<>>, IF described # <<>> THEN described[1].description
                                                      ELSE "suspicious")

\* ProcessActivitySummary{}
EmptySummary ==
    [processId |-> 0, processName |-> NoName, firstSeen |-> 0, lastSeen |-> 0,
     remoteEndpointCount |-> 0, connectionOpenCount |-> 0, totalUploadedBytes |-> 0,
     totalDownloadedBytes |-> 0, mostActiveDestination |-> NoText, behaviorHints |-> <<>>]

activeDuration(summary) ==
    IF {summary.firstSeen, summary.lastSeen} = {0} \/ summary.lastSeen < summary.firstSeen
    THEN 0
    ELSE summary.lastSeen - summary.firstSeen

\* The process ID is that of the last event, the name the first one given.
Summary(events, byDestination, destination) ==
    LET named == SelectSeq(events, LAMBDA e : e.name # NoName)
        times == {events[i].timestamp : i \in DOMAIN events}
        up == Total(byDestination, "uploadedBytes")
        down == Total(byDestination, "downloadedBytes")
        remotes == Cardinality(DOMAIN byDestination)
    IN  [processId |-> events[Len(events)].pid,
         processName |-> IF named = <<>> THEN NoName ELSE named[1].name,
         firstSeen |-> CHOOSE t \in times : \A u \in times : t <= u,
         lastSeen |-> CHOOSE t \in times : \A u \in times : u <= t,
         remoteEndpointCount |-> remotes,
         connectionOpenCount |-> Count(events, "CONNECTION_OPENED"),
         totalUploadedBytes |-> up,
         totalDownloadedBytes |-> down,
         mostActiveDestination |-> destination,
         behaviorHints |-> buildBehaviorHints(up, down, remotes, Count(events, "UPLOAD_ACTIVITY"),
                               SelectSeq(events, LAMBDA e : e.type = "SUSPICIOUS_ACTIVITY"))]

\* The summaries summarize may return, which differ in the destination only.
summarize(events) ==
    LET byDestination == FoldLeft(AddDestination, EmptyMap, events)
    IN  IF events = <<>> THEN {EmptySummary}
        ELSE {Summary(events, byDestination, destination) :
                 destination \in MostActive(byDestination)}

forProcessId(events, pid) == summarize(SelectSeq(events, LAMBDA e : e.pid = pid))

forProcessName(events, name) == summarize(SelectSeq(events, LAMBDA e : e.name = name))

\* One entry for each PID, in ascending order.
forAllProcesses(events) ==
    LET pids == SetToSortSeq({events[i].pid : i \in DOMAIN events}, LAMBDA p, q : p < q)
    IN  [i \in DOMAIN pids |-> forProcessId(events, pids[i])]
=============================================================================
