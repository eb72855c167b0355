------------------------ MODULE ConnectionAttributor ------------------------
(***************************************************************************)
(* network::ConnectionAttributor: names the process behind a connection,   *)
(* from a cache that outlives the processes.                               *)
(***************************************************************************)
EXTENDS Maps

VARIABLES processCache,          \* PID -> ProcessInfo, last known
          attributedConnections  \* connection -> AttributedConnection

Init == processCache = EmptyMap /\ attributedConnections = EmptyMap

\* Fault: events are not applied, so nothing ever terminates.
SyncIgnoringEvents(active, events) ==
    processCache' = Put(processCache, active)

\* Fault: entries that exist already are left as they are.
SyncInsertsOnly(active, events) ==
    processCache' = Put(Put(Put(processCache, active), processCache),
                        [p \in {e.pid : e \in events} |-> (CHOOSE e \in events : e.pid = p).info])

\* Active processes overwrite the cache, then the events do.
syncProcesses(active, events) ==
    processCache' = Put(Put(processCache, active),
                        [p \in {e.pid : e \in events} |-> (CHOOSE e \in events : e.pid = p).info])

buildAttributedConnection(pid) ==
    IF pid \notin DOMAIN processCache
    THEN [pid |-> pid, hasProcessInfo |-> FALSE, processTerminated |-> FALSE]
    ELSE [pid |-> pid, hasProcessInfo |-> TRUE, name |-> processCache[pid].name,
          processTerminated |-> processCache[pid].status = "TERMINATED"]

\* conns: connection -> the PID in its row, for the rows that are left when
\* repeated ones are skipped.
attribute(conns) ==
    attributedConnections' = [c \in DOMAIN conns |-> buildAttributedConnection(conns[c])]

getConnectionsByProcess(pid) ==
    {c \in DOMAIN attributedConnections : attributedConnections[c].pid = pid}

reset == processCache' = EmptyMap /\ attributedConnections' = EmptyMap
=============================================================================
