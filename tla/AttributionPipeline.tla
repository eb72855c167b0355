------------------------ MODULE AttributionPipeline ------------------------
(***************************************************************************)
(* ProcessMonitor -> ProcessTracker -> ConnectionAttributor, and the       *)
(* connection rows it attributes, in the caller's polling loop.  Processes *)
(* are read before connections and the host moves on in between.           *)
(***************************************************************************)
EXTENDS Host, Maps

CONSTANTS Conns,   \* connection identities: protocol, PID, 4-tuple
          PidOf    \* the PID in a connection's identity

ASSUME AttributionAssumption == IsFiniteSet(Conns) /\ PidOf \in [Conns -> Pids]

VARIABLES owner,  \* connection -> number of the process that opened it, 0 if closed
          trackedProcesses, seeded,             \* ProcessTracker
          processCache, attributedConnections,  \* ConnectionAttributor
          listed,     \* history: PID -> number of the process in the last snapshot
          lastOwner,  \* history: PID -> number and name of the process that was
                      \* last listed, since the attributor was reset
          forgotten   \* history: PIDs dropped by a reset of the tracker alone

trackerVars == <<trackedProcesses, seeded>>
attributorVars == <<processCache, attributedConnections>>
listingVars == <<listed, lastOwner, forgotten>>
attributionVars == <<hostVars, owner, trackerVars, attributorVars, listingVars>>

Tracker == INSTANCE ProcessTracker

Attributor == INSTANCE ConnectionAttributor

OpenConns == {c \in Conns : owner[c] # 0}

AttributionInit ==
    /\ HostInit
    /\ owner = [c \in Conns |-> 0]
    /\ Tracker!Init
    /\ Attributor!Init
    /\ listed = EmptyMap
    /\ lastOwner = EmptyMap
    /\ forgotten = {}

\* The connections of a process may outlast it, and keep its PID.
Processes ==
    HostStep /\ UNCHANGED <<owner, trackerVars, attributorVars, listingVars>>

Connect(c) ==
    /\ c \notin OpenConns
    /\ running[PidOf[c]] # NoName
    /\ owner' = [owner EXCEPT ![c] = starts[PidOf[c]]]
    /\ UNCHANGED <<hostVars, trackerVars, attributorVars, listingVars>>

Disconnect(c) ==
    /\ c \in OpenConns
    /\ owner' = [owner EXCEPT ![c] = 0]
    /\ UNCHANGED <<hostVars, trackerVars, attributorVars, listingVars>>

Environment == Processes \/ \E c \in Conns : Connect(c) \/ Disconnect(c)

\* events = tracker.update(monitor.getActiveProcesses());
\* attributor.syncProcesses(tracker.getTrackedProcesses(), events)
PollProcesses(reached) ==
    LET snap == getActiveProcesses(reached)
    IN  /\ Tracker!update(snap)
        /\ Attributor!syncProcesses(trackedProcesses', Tracker!Changes(snap))
        /\ listed' = [p \in DOMAIN snap |-> starts[p]]
        /\ lastOwner' = Put(lastOwner, [p \in DOMAIN snap |->
                                          [number |-> starts[p], name |-> running[p]]])
        /\ forgotten' = forgotten \ DOMAIN snap
        /\ UNCHANGED <<hostVars, owner, attributedConnections>>

\* The rows of any tables may be missing from the collection.
PollConnections ==
    /\ \E read \in SUBSET OpenConns : Attributor!attribute([c \in read |-> PidOf[c]])
    /\ UNCHANGED <<hostVars, owner, trackerVars, processCache, listingVars>>

ResetTracker ==
    /\ Tracker!reset
    /\ forgotten' = forgotten \cup DOMAIN trackedProcesses
    /\ UNCHANGED <<hostVars, owner, attributorVars, listed, lastOwner>>

ResetAttributor ==
    /\ Attributor!reset
    /\ lastOwner' = EmptyMap
    /\ forgotten' = {}
    /\ UNCHANGED <<hostVars, owner, trackerVars, listed>>

AttributionNext ==
    \/ Environment
    \/ \E reached \in SUBSET Pids : PollProcesses(reached)
    \/ PollConnections \/ ResetTracker \/ ResetAttributor

AttributionSpec == AttributionInit /\ [][AttributionNext]_attributionVars

-----------------------------------------------------------------------------
CachedRunning == {p \in DOMAIN processCache : processCache[p].status = "RUNNING"}

\* The cache takes a process to run exactly when the tracker does, although it
\* sees only what update and its events tell it.  Exceptions: a PID the tracker
\* forgot in a reset, which it will never report as terminated, and one the
\* attributor forgot and has not been told of again (ConnectionAttributor::
\* syncProcesses, ProcessTracker::update and reset).
CacheFollowsTracker ==
    /\ CachedRunning \ forgotten \subseteq DOMAIN trackedProcesses
    /\ \A p \in DOMAIN trackedProcesses \cap DOMAIN lastOwner :
          processCache[p] = trackedProcesses[p]

\* A connection is attributed to the process that opened it, running or not,
\* if that is the process last listed under its PID, and never to another one
\* that used the PID before; it is marked terminated exactly when the last
\* process snapshot did not list the PID ("attribution can survive after the
\* process exits", ConnectionAttributor.h).
OwnersNamed ==
    [][\A c \in DOMAIN attributedConnections' :
         LET a == attributedConnections'[c]
             p == PidOf[c]
         IN  PollConnections /\ p \in DOMAIN lastOwner /\ lastOwner[p].number = owner[c] =>
                /\ a.hasProcessInfo
                /\ a.name = lastOwner[p].name
                /\ p \notin forgotten => (a.processTerminated <=> p \notin DOMAIN listed)
      ]_attributionVars
=============================================================================
