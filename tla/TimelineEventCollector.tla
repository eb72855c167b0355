----------------------- MODULE TimelineEventCollector -----------------------
(***************************************************************************)
(* process::TimelineEventCollector: turns what the trackers return into    *)
(* timeline events, grouped by PID, and skips an observation whose key it  *)
(* has seen before.  Names are kept, which are not part of a key.  Times   *)
(* are not modelled, nor are descriptions, which only tell anything new in *)
(* events of a type that the collector does not make: all are empty.       *)
(***************************************************************************)
EXTENDS TimelineOrder, Maps

CONSTANTS PidOf,     \* the PID of a connection
          RemoteOf,  \* its remote address and port (only TCP rows have counters,
                     \* so they tell transfers of different protocols apart)
          NoName,    \* the empty name
          NoText     \* the empty text

VARIABLES eventsByProcess,  \* PID -> sequence of ProcessActivityEvent
          seenEventKeys     \* keys of all observations so far

\* A ProcessActivityEvent.  The connection of an opening or closing stands for
\* its local endpoint.
Activity(type, pid, name, conn, remote, up, down) ==
    [timestamp |-> 0, type |-> type, pid |-> pid, name |-> name, conn |-> conn,
     remote |-> remote, uploadedBytes |-> up, downloadedBytes |-> down,
     description |-> NoText]

\* Fault: a transfer is known by its endpoint alone.
KeyWithoutAmount(e) == <<e.type, e.pid, e.conn, e.remote>>

\* The makeXxxKey functions: everything but the name.
Key(e) == <<e.type, e.pid, e.conn, e.remote, e.uploadedBytes, e.downloadedBytes>>

Init == eventsByProcess = EmptyMap /\ seenEventKeys = {}

\* Only creations are collected, not terminations.
ProcessActivities(events) ==
    LET created == Selected(events, {i \in DOMAIN events : events[i].type = "CREATED"})
    IN  [i \in DOMAIN created |->
            Activity("PROCESS_SEEN", created[i].pid, created[i].info.name,
                     NoText, NoText, 0, 0)]

\* collectActiveProcesses, for PIDs in the order of the snapshot.
ActiveActivities(pids, infos) ==
    [i \in DOMAIN pids |->
        Activity("PROCESS_SEEN", pids[i], infos[pids[i]].name, NoText, NoText, 0, 0)]

resolveProcessName(pid, lookup) ==
    IF pid \in DOMAIN lookup THEN lookup[pid].name ELSE NoName

ConnectionActivities(events, lookup) ==
    [i \in DOMAIN events |->
        LET c == events[i].conn
        IN  Activity(IF events[i].type = "CREATED" THEN "CONNECTION_OPENED"
                                                   ELSE "CONNECTION_CLOSED",
                     PidOf[c], resolveProcessName(PidOf[c], lookup), c, RemoteOf[c], 0, 0)]

\* collectUploadStats and collectDownloadStats: totals of 0 are skipped, the
\* others are taken in the order of the vector.  The connection's own addresses
\* are not part of the record or of its key.
Counted(stats) == {c \in DOMAIN stats : stats[c].uploadedBytes # 0}

UploadActivities(counted, stats) ==
    [i \in DOMAIN counted |->
        LET c == counted[i]
        IN  Activity("UPLOAD_ACTIVITY", PidOf[c], stats[c].processName, NoText,
                     RemoteOf[c], stats[c].uploadedBytes, 0)]

DownloadActivities(counted, stats) ==
    [i \in DOMAIN counted |->
        LET c == counted[i]
        IN  Activity("DOWNLOAD_ACTIVITY", PidOf[c], stats[c].processName, NoText,
                     RemoteOf[c], 0, stats[c].uploadedBytes)]

\* Where tryAdd succeeds: the key is known neither from earlier calls nor from
\* an activity before it.
tryAdd(activities) ==
    {i \in DOMAIN activities :
        /\ Key(activities[i]) \notin seenEventKeys
        /\ \A j \in 1..(i - 1) : Key(activities[j]) # Key(activities[i])}

getEventsForProcess(pid) ==
    IF pid \in DOMAIN eventsByProcess THEN eventsByProcess[pid] ELSE <<>>

\* The collect functions, called with these activities in this order: each that
\* is added goes to the end of its process's events.
collect(activities) ==
    LET added == tryAdd(activities)
        addedTo(pid) == Selected(activities, {i \in added : activities[i].pid = pid})
    IN  /\ eventsByProcess' = Put(eventsByProcess, [pid \in {activities[i].pid : i \in added} |->
                                                      getEventsForProcess(pid) \o addedTo(pid)])
        /\ seenEventKeys' = seenEventKeys \cup {Key(activities[i]) : i \in DOMAIN activities}

reset == eventsByProcess' = EmptyMap /\ seenEventKeys' = {}
=============================================================================
