------------------------- MODULE ConnectionPipeline -------------------------
(***************************************************************************)
(* NetworkMonitor -> ConnectionTracker -> EventDispatcher -> handlers, in  *)
(* the caller's polling loop (docs/NETWORK_MONITOR_ARCHITECTURE.md, "Flow  *)
(* Description").                                                          *)
(*                                                                         *)
(* A handler is any consumer that keeps its own picture of the open        *)
(* connections: it starts from getActiveConnections() and then applies the *)
(* events it receives.  The question is whether that picture stays right.  *)
(***************************************************************************)
EXTENDS NetworkMonitor

CONSTANTS Handlers,      \* the event handlers of the consumers
          HandlersThrow  \* may a handler throw?

ASSUME HandlersAssumption == HandlersThrow \in BOOLEAN

\* The tracker is fed by getActiveConnections.
ASSUME PollsConnections == "connections" \in Kinds

VARIABLES activeConnections, seeded,  \* ConnectionTracker
          handlers, queue, at,        \* EventDispatcher
          view,      \* handler -> the connections it takes to be open
          synced     \* history: handlers that started from the tracker's set
                     \* and have missed no event since

trackerVars == <<activeConnections, seeded>>
dispatcherVars == <<handlers, queue, at>>
consumerVars == <<view, synced>>

Tracker == INSTANCE ConnectionTracker

Dispatcher == INSTANCE EventDispatcher

vars == <<monitorVars, trackerVars, dispatcherVars, consumerVars>>

Init ==
    /\ MonitorInit
    /\ Tracker!Init
    /\ Dispatcher!Init
    /\ view = [h \in Handlers |-> {}]
    /\ synced = {}

Subscribed == {handlers[i] : i \in DOMAIN handlers}

\* Between two polls the caller is free to act on tracker and dispatcher.
Between == phase = "idle" /\ Dispatcher!Idle

Environment ==
    OsStep /\ UNCHANGED <<trackerVars, dispatcherVars, consumerVars>>

Collect ==
    CollectStep /\ UNCHANGED <<trackerVars, dispatcherVars, consumerVars>>

Poll ==
    /\ Between
    /\ Begin("connections")
    /\ UNCHANGED <<trackerVars, dispatcherVars, consumerVars>>

\* dispatcher.dispatch(tracker.update(connections)): the update and the start
\* of the dispatch.
Report ==
    /\ Return
    /\ \E events \in Tracker!Changes(result) :
          Tracker!Apply(result, events) /\ Dispatcher!dispatch(events)
    /\ UNCHANGED consumerVars

HandleEvent(h, event) ==
    /\ Dispatcher!Invoke(h, event)
    /\ view' = [view EXCEPT ![h] = IF event.type = "CREATED" THEN @ \cup {event.conn}
                                                             ELSE @ \ {event.conn}]
    /\ UNCHANGED <<monitorVars, trackerVars, synced>>

\* Handlers before the one that throws have had the event; if it was the last
\* one, they have missed nothing.
HandlerThrows(h) ==
    /\ HandlersThrow
    /\ Dispatcher!Throw(h)
    /\ synced' = IF Len(queue) = 1
                 THEN synced \cap {handlers[i] : i \in 1..(at - 1)}
                 ELSE synced \ Subscribed
    /\ UNCHANGED <<monitorVars, trackerVars, view>>

\* A consumer subscribes and reads the tracker's set.  Before the first
\* snapshot there is nothing to start from.
Subscribe(h) ==
    /\ Between
    /\ h \notin Subscribed
    /\ Dispatcher!subscribe(h, FALSE)
    /\ view' = [view EXCEPT ![h] = DOMAIN activeConnections]
    /\ synced' = IF seeded THEN synced \cup {h} ELSE synced
    /\ UNCHANGED <<monitorVars, trackerVars>>

SubscribeNothing ==
    /\ Between
    /\ \E h \in Handlers : Dispatcher!subscribe(h, TRUE)
    /\ UNCHANGED <<monitorVars, trackerVars, consumerVars>>

ClearHandlers ==
    /\ Between
    /\ Dispatcher!clear
    /\ synced' = {}
    /\ UNCHANGED <<monitorVars, trackerVars, view>>

\* A reset forgets the connections without an event, and the next snapshot is
\* taken as they are: consumers have to start again.
ResetTracker ==
    /\ Between
    /\ Tracker!reset
    /\ synced' = {}
    /\ UNCHANGED <<monitorVars, dispatcherVars, view>>

Deliver == \E h \in Handlers : \E i \in DOMAIN queue : HandleEvent(h, queue[i])

Next ==
    \/ Environment \/ Collect \/ Poll \/ Report \/ Deliver
    \/ \E h \in Handlers : Subscribe(h) \/ HandlerThrows(h)
    \/ SubscribeNothing \/ ClearHandlers \/ ResetTracker

Spec == Init /\ [][Next]_vars

\* The polling loop runs on; the operating system promises nothing.
LiveSpec == Spec /\ WF_vars(Collect) /\ WF_vars(Poll) /\ WF_vars(Report) /\ WF_vars(Deliver)

-----------------------------------------------------------------------------
\* Between two polls a consumer that has followed the events knows exactly the
\* connections the tracker holds (ConnectionTracker::update emits all changes,
\* EventDispatcher delivers them to everyone).
ViewsFollowTracker ==
    Between => \A h \in synced : view[h] = DOMAIN activeConnections

\* Every event delivered to such a consumer is news to it: never a second
\* CREATED for a connection it knows, or CLOSED for one it does not
\* ("Prevent duplicate connection records", NETWORK_MONITOR_ARCHITECTURE.md).
EveryEventIsNews ==
    [][\A h \in synced \cap synced' :
          (at' # at \/ queue' # queue) /\ ~Dispatcher!Idle /\ handlers[at] = h
             => view'[h] # view[h]]_vars

\* A connection is reported closed only if it was missing at some time during
\* the collection or its table could not be read.
ClosedOnlyIfGoneOrUnread ==
    [][phase = "done" /\ phase' = "idle" =>
         \A c \in DOMAIN activeConnections \ DOMAIN activeConnections' :
            c \notin openThroughout \/ TableOf[c] \in failedTables]_vars

\* ConnectionTracker.h: "generates CREATED / CLOSED events for changes".  A
\* connection that was open during the whole collection has not changed.
ClosedOnlyIfGone ==
    [][phase = "done" /\ phase' = "idle" =>
         \A c \in DOMAIN activeConnections \ DOMAIN activeConnections' :
            c \notin openThroughout]_vars

\* Whoever keeps following the events learns of every connection that stays
\* closed, whatever fails, and of every connection that stays open if from some
\* time on collections get something from its table.  (Sockets that open again
\* and again may spoil its collections for ever; the connection is then reported
\* CLOSED and CREATED by turns.)
ChangesReachConsumers ==
    \A c \in Conns, h \in Handlers :
        /\ <>[](IsOpen(c) /\ h \in synced)
           /\ <>[](phase = "done" => TableOf[c] \notin failedTables) => <>[](c \in view[h])
        /\ <>[](~IsOpen(c) /\ h \in synced) => <>[](c \notin view[h])
=============================================================================
