---------------------- MODULE ConnectionPipelineProofs ----------------------
(***************************************************************************)
(* A consumer that follows the events knows what the tracker holds: for    *)
(* every number of connections and handlers, every order of the events and *)
(* every exception a handler throws.                                       *)
(***************************************************************************)
EXTENDS ConnectionPipeline, NetworkMonitorProofs, SequenceTheorems

-----------------------------------------------------------------------------
(* The inductive invariant.                                                *)

\* What update() reports.
Events == [type : {"CREATED", "CLOSED"}, conn : Conns]

PipelineShape ==
    /\ DOMAIN activeConnections \subseteq Conns
    /\ seeded \in BOOLEAN
    /\ handlers \in Seq(Handlers)
    /\ queue \in Seq(Events)
    /\ view \in [Handlers -> SUBSET Conns]

\* Nobody is subscribed twice, and who follows the events is subscribed.
SubscriptionShape ==
    /\ \A i, j \in DOMAIN handlers : i # j => handlers[i] # handlers[j]
    /\ synced \subseteq Subscribed
    /\ ~seeded => synced = {}

\* A dispatch runs between two polls; its events are about different
\* connections, and the tracker is already where they lead.
DispatchShape ==
    /\ queue = <<>> => at = 1
    /\ queue # <<>> => phase = "idle" /\ at \in DOMAIN handlers
    /\ \A i, j \in DOMAIN queue : i # j => queue[i].conn # queue[j].conn
    /\ \A i \in DOMAIN queue :
          queue[i].type = "CREATED" <=> queue[i].conn \in DOMAIN activeConnections

\* The events handler j has still to get: those before the current one in the
\* order of subscription have had the first.
Outstanding(j) == {i \in DOMAIN queue : j < at => i # 1}

\* Handler j has heard all that the running dispatch has to say about c.
Told(j, c) == \A i \in Outstanding(j) : queue[i].conn # c

\* The handler's picture differs from the tracker's in exactly the connections
\* it has still to hear of.
ViewRight(j) ==
    \A c \in Conns :
        c \in view[handlers[j]] <=>
            (c \in DOMAIN activeConnections <=> Told(j, c))

PipelineInv ==
    /\ MonitorInv
    /\ PipelineShape
    /\ SubscriptionShape
    /\ DispatchShape
    /\ \A j \in DOMAIN handlers : handlers[j] \in synced => ViewRight(j)

-----------------------------------------------------------------------------
(* What update() returns.                                                  *)

\* A sequence that lists a finite set once has all of its elements: there is
\* no room for one to be missing.
LEMMA Listed ==
    ASSUME NEW S, IsFiniteSet(S), NEW s \in Tracker!SetToSeqs(S)
    PROVE  /\ Cardinality(S) \in Nat
           /\ s \in [1..Cardinality(S) -> S]
           /\ \A i, j \in DOMAIN s : i # j => s[i] # s[j]
           /\ \A x \in S : \E i \in DOMAIN s : s[i] = x
<1> DEFINE n == Cardinality(S)
<1>1. n \in Nat
  BY FS_CardinalityType
<1>a. Tracker!Cardinality(S) = Cardinality(S)
  BY DEF Tracker!Cardinality, Cardinality
<1>2. s \in [1..n -> S] /\ \A i, j \in 1..n : i # j => s[i] # s[j]
  BY <1>a DEF Tracker!SetToSeqs
<1>3. s \in Injection(1..n, S)
  BY <1>2 DEF Injection, IsInjective
<1> HIDE DEF n
<1>4. Cardinality(1..n) = n
  BY <1>1, FS_Interval
<1>5. s \in Surjection(1..n, S)
  <2>1. n = Cardinality(S)
    BY DEF n
  <2> QED BY <2>1, <1>3, <1>4, FS_Injection
<1> QED BY <1>1, <1>2, <1>5 DEF Surjection, n

\* The events name every connection of created and of closed, each once and
\* with the right type, and no other.
Reports(ev, created, closed) ==
    /\ ev \in Seq(Events)
    /\ \A i, j \in DOMAIN ev : i # j => ev[i].conn # ev[j].conn
    /\ \A i \in DOMAIN ev : IF ev[i].type = "CREATED" THEN ev[i].conn \in created
                                                      ELSE ev[i].conn \in closed
    /\ \A c \in created \cup closed : \E i \in DOMAIN ev : ev[i].conn = c

\* The events of one type.
LEMMA EventsListed ==
    ASSUME NEW t, t \in {"CREATED", "CLOSED"}, NEW S, S \subseteq Conns,
           NEW ev, ev \in Tracker!EventsFor(t, S)
    PROVE  Reports(ev, IF t = "CREATED" THEN S ELSE {}, IF t = "CREATED" THEN {} ELSE S)
<1>1. PICK s \in Tracker!SetToSeqs(S) : ev = [i \in DOMAIN s |-> Tracker!Event(t, s[i])]
  BY DEF Tracker!EventsFor
<1>2. IsFiniteSet(S)
  BY MonitorAssumption, FS_Subset
<1> DEFINE n == Cardinality(S)
<1>3. /\ n \in Nat
      /\ s \in [1..n -> S]
      /\ \A i, j \in DOMAIN s : i # j => s[i] # s[j]
      /\ \A x \in S : \E i \in DOMAIN s : s[i] = x
  BY <1>2, Listed
<1> HIDE DEF n
<1>4. /\ DOMAIN ev = 1..n
      /\ \A i \in 1..n : ev[i] = [type |-> t, conn |-> s[i]]
  BY <1>1, <1>3 DEF Tracker!Event
<1>5. \A i \in 1..n : ev[i] \in Events /\ ev[i].type = t /\ ev[i].conn = s[i]
  BY <1>3, <1>4 DEF Events
<1>6. ev \in [1..n -> Events]
  BY <1>1, <1>3, <1>5
<1>7. ev \in Seq(Events)
  BY <1>3, <1>6
<1> QED BY <1>3, <1>4, <1>5, <1>7 DEF Reports

\* All creations, then all closings: each connection is named once.
LEMMA EventsJoined ==
    ASSUME NEW created, created \subseteq Conns, NEW closed, closed \subseteq Conns,
           \A c \in created : c \notin closed,
           NEW cr, cr \in Tracker!EventsFor("CREATED", created),
           NEW cl, cl \in Tracker!EventsFor("CLOSED", closed),
           NEW events, events = cr \o cl
    PROVE  Reports(events, created, closed)
<1>1. Reports(cr, created, {})
  BY EventsListed
<1>2. Reports(cl, {}, closed)
  BY EventsListed
<1>3. /\ events \in Seq(Events)
      /\ Len(events) = Len(cr) + Len(cl)
      /\ \A i \in 1..Len(cr) : events[i] = cr[i]
      /\ \A i \in 1..Len(cl) : events[Len(cr) + i] = cl[i]
      /\ Len(cr) \in Nat /\ Len(cl) \in Nat
      /\ DOMAIN cr = 1..Len(cr) /\ DOMAIN cl = 1..Len(cl) /\ DOMAIN events = 1..Len(events)
  BY <1>1, <1>2 DEF Reports
<1>4. ASSUME NEW i \in DOMAIN events
      PROVE  \/ i \in DOMAIN cr /\ events[i] = cr[i]
             \/ i - Len(cr) \in DOMAIN cl /\ events[i] = cl[i - Len(cr)] /\ i > Len(cr)
  <2>1. CASE i <= Len(cr)
    BY <2>1, <1>3
  <2>2. CASE i > Len(cr)
    <3>1. i - Len(cr) \in 1..Len(cl) /\ i = Len(cr) + (i - Len(cr))
      BY <2>2, <1>3
    <3> QED BY <2>2, <3>1, <1>3
  <2> QED BY <1>3, <2>1, <2>2
<1>5. ASSUME NEW i \in DOMAIN events, NEW j \in DOMAIN events, i # j
      PROVE  events[i].conn # events[j].conn
  <2>1. CASE i \in DOMAIN cr /\ j \in DOMAIN cr
    BY <1>1, <1>3, <1>5, <2>1 DEF Reports
  <2>2. CASE i \notin DOMAIN cr /\ j \notin DOMAIN cr
    <3>1. /\ i - Len(cr) \in DOMAIN cl /\ events[i] = cl[i - Len(cr)]
          /\ j - Len(cr) \in DOMAIN cl /\ events[j] = cl[j - Len(cr)]
      BY <1>4, <2>2
    <3>2. i - Len(cr) # j - Len(cr)
      BY <1>3, <1>5
    <3> QED BY <1>2, <3>1, <3>2 DEF Reports
  <2>3. CASE i \in DOMAIN cr /\ j \notin DOMAIN cr
    BY <1>1, <1>2, <1>3, <1>4, <2>3 DEF Reports
  <2>4. CASE i \notin DOMAIN cr /\ j \in DOMAIN cr
    BY <1>1, <1>2, <1>3, <1>4, <2>4 DEF Reports
  <2> QED BY <2>1, <2>2, <2>3, <2>4
<1>6. \A c \in created : \E i \in DOMAIN events : events[i].conn = c
  BY <1>1, <1>3 DEF Reports
<1>7. ASSUME NEW c \in closed PROVE \E i \in DOMAIN events : events[i].conn = c
  <2>1. PICK i \in DOMAIN cl : cl[i].conn = c
    BY <1>2 DEF Reports
  <2>2. Len(cr) + i \in DOMAIN events /\ events[Len(cr) + i] = cl[i]
    BY <1>3, <2>1
  <2> QED BY <2>1, <2>2
<1>8. \A i \in DOMAIN events :
          IF events[i].type = "CREATED" THEN events[i].conn \in created
                                        ELSE events[i].conn \in closed
  BY <1>1, <1>2, <1>4 DEF Reports
<1> QED BY <1>3, <1>5, <1>6, <1>7, <1>8 DEF Reports

\* update() reports every connection that appeared and every one that
\* disappeared, each once and nothing else.
LEMMA ChangesExact ==
    ASSUME seeded, NEW snap, NEW events, events \in Tracker!Changes(snap),
           DOMAIN snap \subseteq Conns, DOMAIN activeConnections \subseteq Conns
    PROVE  Reports(events, DOMAIN snap \ DOMAIN activeConnections,
                           DOMAIN activeConnections \ DOMAIN snap)
<1>1. /\ Tracker!Created(snap) = DOMAIN snap \ DOMAIN activeConnections
      /\ Tracker!Closed(snap) = DOMAIN activeConnections \ DOMAIN snap
  BY DEF Tracker!Created, Tracker!Closed
<1>2. PICK cr \in Tracker!EventsFor("CREATED", Tracker!Created(snap)),
           cl \in Tracker!EventsFor("CLOSED", Tracker!Closed(snap)) :
          events = cr \o cl
  BY DEF Tracker!Changes
<1>3. Reports(events, Tracker!Created(snap), Tracker!Closed(snap))
  BY <1>1, <1>2, EventsJoined
<1> QED BY <1>1, <1>3

-----------------------------------------------------------------------------
(* The steps between two reports.                                          *)

\* Tracker, dispatcher and consumers do not move while the collector does.
LEMMA BystandersKept ==
    ASSUME PipelineInv, UNCHANGED <<trackerVars, dispatcherVars, consumerVars>>,
           MonitorInv', queue # <<>> => phase' = "idle"
    PROVE  PipelineInv'
<1>1. UNCHANGED <<activeConnections, seeded, handlers, queue, at, view, synced>>
  BY DEF trackerVars, dispatcherVars, consumerVars
<1>2. PipelineShape' /\ SubscriptionShape'
  BY <1>1 DEF PipelineInv, PipelineShape, SubscriptionShape, Subscribed
<1>3. DispatchShape'
  BY <1>1 DEF PipelineInv, DispatchShape
<1>4. \A j \in DOMAIN handlers' : handlers'[j] \in synced' => ViewRight(j)'
  BY <1>1 DEF PipelineInv, ViewRight, Told, Outstanding
<1> QED BY <1>2, <1>3, <1>4 DEF PipelineInv

\* Sockets come and go, also during a dispatch.
LEMMA EnvironmentInv == PipelineInv /\ Environment => PipelineInv'
<1> SUFFICES ASSUME PipelineInv, Environment PROVE PipelineInv'
  OBVIOUS
<1>1. MonitorInv'
  BY OsStepKeeps DEF Environment, PipelineInv
<1>2. phase' = phase
  BY DEF Environment, OsStep, Open, ChangeState, Close, Transfer, callVars
<1> QED BY <1>1, <1>2, BystandersKept DEF Environment, PipelineInv, DispatchShape

\* A collection goes on; no dispatch is running.
LEMMA CollectInv == PipelineInv /\ Collect => PipelineInv'
<1> SUFFICES ASSUME PipelineInv, Collect PROVE PipelineInv'
  OBVIOUS
<1>1. MonitorInv'
  BY CollectStepKeeps DEF Collect, PipelineInv
<1>2. phase # "idle"
  BY DEF Collect, CollectStep, QuerySize, QueryFails, Fetch, FetchFails, SkipEstats,
         EnableEstats, ReadEstats, EstatsFails, BetweenRows
<1> QED BY <1>1, <1>2, BystandersKept DEF Collect, PipelineInv, DispatchShape

\* A collection begins.
LEMMA PollInv == PipelineInv /\ Poll => PipelineInv'
<1> SUFFICES ASSUME PipelineInv, Poll PROVE PipelineInv'
  OBVIOUS
<1>1. MonitorInv'
  BY BeginKeeps, PollsConnections DEF Poll, PipelineInv
<1>2. queue = <<>>
  BY DEF Poll, Between, Dispatcher!Idle
<1> QED BY <1>1, <1>2, BystandersKept DEF Poll

-----------------------------------------------------------------------------
(* The steps of a dispatch.                                                *)

\* Delivering an event to the current handler changes what is outstanding for
\* that handler and connection, and for nothing else.
LEMMA InvokeEffect ==
    ASSUME PipelineInv, NEW h, NEW event, Dispatcher!Invoke(h, event)
    PROVE  /\ at \in DOMAIN handlers /\ h = handlers[at] /\ handlers' = handlers
           /\ queue # <<>> /\ event = queue[1] /\ 1 \in Outstanding(at)
           /\ queue' \in Seq(Events)
           /\ queue' = <<>> => at' = 1
           /\ queue' # <<>> => at' \in DOMAIN handlers
           /\ \A i \in DOMAIN queue' : \E k \in DOMAIN queue : queue'[i] = queue[k]
           /\ \A i, j \in DOMAIN queue' : i # j => queue'[i].conn # queue'[j].conn
           /\ \A j \in DOMAIN handlers, c \in Conns :
                 IF j = at /\ c = event.conn THEN Told(j, c)' ELSE Told(j, c)' <=> Told(j, c)
<1>1. /\ queue # <<>> /\ h = handlers[at] /\ event = Head(queue) /\ handlers' = handlers
      /\ \/ at = Len(handlers) /\ queue' = Tail(queue) /\ at' = 1
         \/ at # Len(handlers) /\ at' = at + 1 /\ queue' = queue
  BY DEF Dispatcher!Invoke, Dispatcher!Idle
<1>2. queue \in Seq(Events) /\ handlers \in Seq(Handlers)
  BY DEF PipelineInv, PipelineShape
<1>3. /\ at \in DOMAIN handlers
      /\ \A i, j \in DOMAIN queue : i # j => queue[i].conn # queue[j].conn
  BY <1>1 DEF PipelineInv, DispatchShape
<1>4. /\ Len(handlers) \in Nat /\ DOMAIN handlers = 1..Len(handlers)
      /\ Len(queue) \in Nat /\ DOMAIN queue = 1..Len(queue) /\ Len(queue) >= 1
      /\ event = queue[1]
  BY <1>1, <1>2
<1>5. 1 \in Outstanding(at)
  BY <1>3, <1>4 DEF Outstanding
<1>6. ASSUME NEW c \in Conns
      PROVE  IF c = event.conn
             THEN \A k \in DOMAIN queue : k # 1 => queue[k].conn # c
             ELSE (\A k \in DOMAIN queue : k # 1 => queue[k].conn # c)
                    <=> (\A k \in DOMAIN queue : queue[k].conn # c)
  <2>1. 1 \in DOMAIN queue
    BY <1>4
  <2>2. CASE c = event.conn
    BY <1>3, <1>4, <2>1, <2>2
  <2>3. CASE c # event.conn
    BY <1>4, <2>3
  <2> QED BY <2>2, <2>3
<1>7. CASE at = Len(handlers)
  <2>1. queue' = Tail(queue) /\ at' = 1
    BY <1>1, <1>7
  <2>2. /\ queue' \in Seq(Events)
        /\ DOMAIN queue' = 1..(Len(queue) - 1)
        /\ \A i \in DOMAIN queue' : i + 1 \in DOMAIN queue /\ queue'[i] = queue[i + 1]
    <3>1. /\ queue' \in Seq(Events)
          /\ Len(queue') = Len(queue) - 1
          /\ \A i \in 1..Len(queue') : queue'[i] = queue[i + 1]
      BY <1>1, <1>2, <2>1, HeadTailProperties
    <3>2. DOMAIN queue' = 1..(Len(queue) - 1)
      BY <3>1, LenProperties
    <3> QED BY <1>4, <3>1, <3>2
  <2>3. ASSUME NEW i \in DOMAIN queue', NEW j \in DOMAIN queue', i # j
        PROVE  queue'[i].conn # queue'[j].conn
    <3>1. i + 1 # j + 1
      BY <1>4, <2>2, <2>3
    <3> QED BY <1>3, <2>2, <3>1
  <2>4. at' \in DOMAIN handlers
    BY <1>3, <1>4, <2>1
  <2>5. ASSUME NEW j \in DOMAIN handlers, NEW c \in Conns
        PROVE  IF j = at /\ c = event.conn THEN Told(j, c)' ELSE Told(j, c)' <=> Told(j, c)
    <3>1. Told(j, c)' <=> \A i \in DOMAIN queue' : queue'[i].conn # c
      BY <1>4, <2>1 DEF Told, Outstanding
    <3>2. Told(j, c)' <=> \A k \in DOMAIN queue : k # 1 => queue[k].conn # c
      <4>1. ASSUME \A i \in DOMAIN queue' : queue'[i].conn # c, NEW k \in DOMAIN queue, k # 1
            PROVE  queue[k].conn # c
        <5>1. k - 1 \in DOMAIN queue' /\ queue'[k - 1] = queue[k]
          BY <1>4, <2>2, <4>1
        <5> QED BY <4>1, <5>1
      <4>2. ASSUME \A k \in DOMAIN queue : k # 1 => queue[k].conn # c, NEW i \in DOMAIN queue'
            PROVE  queue'[i].conn # c
        BY <2>2, <4>2
      <4> QED BY <3>1, <4>1, <4>2
    <3>3. CASE j = at
      <4>1. Told(j, c) <=> \A k \in DOMAIN queue : queue[k].conn # c
        BY <1>3, <1>4, <3>3 DEF Told, Outstanding
      <4> QED BY <1>6, <3>2, <3>3, <4>1
    <3>4. CASE j # at
      <4>1. j < at
        BY <1>4, <1>7, <3>4
      <4>2. Told(j, c) <=> \A k \in DOMAIN queue : k # 1 => queue[k].conn # c
        BY <4>1 DEF Told, Outstanding
      <4> QED BY <3>2, <3>4, <4>2
    <3> QED BY <3>3, <3>4
  <2> QED BY <1>1, <1>3, <1>4, <1>5, <2>1, <2>2, <2>3, <2>4, <2>5
<1>8. CASE at # Len(handlers)
  <2>1. queue' = queue /\ at' = at + 1
    BY <1>1, <1>8
  <2>2. at' \in DOMAIN handlers
    BY <1>3, <1>4, <1>8, <2>1
  <2>3. ASSUME NEW j \in DOMAIN handlers, NEW c \in Conns
        PROVE  IF j = at /\ c = event.conn THEN Told(j, c)' ELSE Told(j, c)' <=> Told(j, c)
    <3>1. CASE j = at
      <4>1. Told(j, c) <=> \A k \in DOMAIN queue : queue[k].conn # c
        BY <1>3, <1>4, <3>1 DEF Told, Outstanding
      <4>2. Told(j, c)' <=> \A k \in DOMAIN queue : k # 1 => queue[k].conn # c
        BY <1>3, <1>4, <2>1, <3>1 DEF Told, Outstanding
      <4> QED BY <1>6, <3>1, <4>1, <4>2
    <3>2. CASE j # at
      <4>1. j < at <=> j < at'
        BY <1>3, <1>4, <2>1, <3>2
      <4> QED BY <2>1, <3>2, <4>1 DEF Told, Outstanding
    <3> QED BY <3>1, <3>2
  <2> QED BY <1>1, <1>2, <1>3, <1>4, <1>5, <2>1, <2>2, <2>3
<1> QED BY <1>7, <1>8

\* Tracker and collector stand still during a dispatch.
LEMMA DispatchKeepsMonitor ==
    ASSUME MonitorInv, UNCHANGED monitorVars
    PROVE  MonitorInv' /\ phase' = phase
<1>1. MonitorInv'
  BY MonitorStepKeeps
<1>2. phase' = phase
  BY DEF monitorVars, callVars
<1> QED BY <1>1, <1>2

\* A handler applies an event: its picture of that connection becomes the
\* tracker's, and it was not before.
LEMMA HandleEventEffect ==
    ASSUME PipelineInv, NEW h \in Handlers, NEW event, HandleEvent(h, event)
    PROVE  /\ event.conn \in Conns
           /\ view' \in [Handlers -> SUBSET Conns]
           /\ event.conn \in view'[h] <=> event.conn \in DOMAIN activeConnections
           /\ \A c \in Conns : c # event.conn => (c \in view'[h] <=> c \in view[h])
           /\ \A g \in Handlers : g # h => view'[g] = view[g]
           /\ h \in synced => view'[h] # view[h]
<1>1. /\ at \in DOMAIN handlers /\ h = handlers[at]
      /\ queue # <<>> /\ event = queue[1] /\ 1 \in Outstanding(at)
  BY InvokeEffect DEF HandleEvent
<1>2. /\ 1 \in DOMAIN queue /\ event \in Events
      /\ event.type = "CREATED" <=> event.conn \in DOMAIN activeConnections
  BY <1>1 DEF PipelineInv, PipelineShape, DispatchShape, Outstanding
<1>3. event.conn \in Conns
  BY <1>2 DEF Events
<1>4. view \in [Handlers -> SUBSET Conns]
  BY DEF PipelineInv, PipelineShape
<1>5. view' = [view EXCEPT ![h] = IF event.type = "CREATED" THEN @ \cup {event.conn}
                                                            ELSE @ \ {event.conn}]
  BY DEF HandleEvent
<1>6. /\ view' \in [Handlers -> SUBSET Conns]
      /\ event.conn \in view'[h] <=> event.conn \in DOMAIN activeConnections
      /\ \A c \in Conns : c # event.conn => (c \in view'[h] <=> c \in view[h])
      /\ \A g \in Handlers : g # h => view'[g] = view[g]
  BY <1>2, <1>3, <1>4, <1>5
<1>7. ASSUME h \in synced PROVE view'[h] # view[h]
  <2>1. ViewRight(at) /\ ~Told(at, event.conn)
    BY <1>1, <1>7 DEF PipelineInv, Told
  <2>2. event.conn \in view[h] <=> event.conn \notin DOMAIN activeConnections
    BY <1>1, <1>3, <2>1 DEF ViewRight
  <2> QED BY <1>6, <2>2
<1> QED BY <1>3, <1>6, <1>7

\* An event is delivered.
LEMMA HandleEventInv ==
    ASSUME PipelineInv, NEW h \in Handlers, NEW event, HandleEvent(h, event)
    PROVE  PipelineInv'
<1>1. UNCHANGED <<activeConnections, seeded, synced>> /\ UNCHANGED monitorVars
  BY DEF HandleEvent, trackerVars
<1>2. MonitorInv' /\ phase' = phase
  BY <1>1, DispatchKeepsMonitor DEF PipelineInv
<1>3. /\ at \in DOMAIN handlers /\ h = handlers[at] /\ handlers' = handlers
      /\ queue # <<>>
      /\ queue' \in Seq(Events)
      /\ queue' = <<>> => at' = 1
      /\ queue' # <<>> => at' \in DOMAIN handlers
      /\ \A i \in DOMAIN queue' : \E k \in DOMAIN queue : queue'[i] = queue[k]
      /\ \A i, j \in DOMAIN queue' : i # j => queue'[i].conn # queue'[j].conn
      /\ \A j \in DOMAIN handlers, c \in Conns :
            IF j = at /\ c = event.conn THEN Told(j, c)' ELSE Told(j, c)' <=> Told(j, c)
  BY InvokeEffect DEF HandleEvent
<1>4. /\ event.conn \in Conns
      /\ view' \in [Handlers -> SUBSET Conns]
      /\ event.conn \in view'[h] <=> event.conn \in DOMAIN activeConnections
      /\ \A c \in Conns : c # event.conn => (c \in view'[h] <=> c \in view[h])
      /\ \A g \in Handlers : g # h => view'[g] = view[g]
  BY HandleEventEffect
<1>5. PipelineShape' /\ SubscriptionShape'
  BY <1>1, <1>3, <1>4 DEF PipelineInv, PipelineShape, SubscriptionShape, Subscribed
<1>6. DispatchShape'
  BY <1>1, <1>2, <1>3 DEF PipelineInv, DispatchShape
<1>7. ASSUME NEW j \in DOMAIN handlers', handlers'[j] \in synced' PROVE ViewRight(j)'
  <2>1. j \in DOMAIN handlers /\ handlers[j] \in synced /\ ViewRight(j)
    BY <1>1, <1>3, <1>7 DEF PipelineInv
  <2>2. handlers[j] \in Handlers
    BY <2>1 DEF PipelineInv, PipelineShape
  <2>3. ASSUME NEW c \in Conns
        PROVE  c \in view'[handlers[j]] <=> (c \in DOMAIN activeConnections <=> Told(j, c)')
    <3>1. c \in view[handlers[j]] <=> (c \in DOMAIN activeConnections <=> Told(j, c))
      BY <2>1 DEF ViewRight
    <3>2. CASE j = at /\ c = event.conn
      BY <1>3, <1>4, <3>2
    <3>3. CASE j = at /\ c # event.conn
      BY <1>3, <1>4, <3>1, <3>3
    <3>4. CASE j # at
      <4>1. handlers[j] # h
        BY <1>3, <2>1, <3>4 DEF PipelineInv, SubscriptionShape
      <4> QED BY <1>3, <1>4, <2>1, <2>2, <3>1, <3>4, <4>1
    <3> QED BY <3>2, <3>3, <3>4
  <2> QED BY <1>1, <1>3, <2>3 DEF ViewRight
<1> QED BY <1>2, <1>5, <1>6, <1>7 DEF PipelineInv

\* When no event is outstanding, who follows the events is up to date.
LEMMA IdleViews ==
    ASSUME PipelineInv, queue = <<>>, NEW h \in synced
    PROVE  view[h] = DOMAIN activeConnections
<1>1. PICK j \in DOMAIN handlers : h = handlers[j]
  BY DEF PipelineInv, SubscriptionShape, Subscribed
<1>2. ViewRight(j) /\ h \in Handlers
  BY <1>1 DEF PipelineInv, PipelineShape
<1>3. \A c \in Conns : Told(j, c)
  BY DEF Told, Outstanding
<1>4. view[h] \subseteq Conns /\ DOMAIN activeConnections \subseteq Conns
  BY <1>2 DEF PipelineInv, PipelineShape
<1> QED BY <1>1, <1>2, <1>3, <1>4 DEF ViewRight

\* Conversely, without outstanding events up to date views are right.
LEMMA ViewsRight ==
    ASSUME queue' = <<>>,
           \A h \in synced' : view'[h] = DOMAIN activeConnections'
    PROVE  \A j \in DOMAIN handlers' : handlers'[j] \in synced' => ViewRight(j)'
<1>1. \A j \in DOMAIN handlers', c \in Conns : Told(j, c)'
  BY DEF Told, Outstanding
<1> QED BY <1>1 DEF ViewRight

\* A handler throws: whoever had not got the event stops following.
LEMMA HandlerThrowsInv ==
    ASSUME PipelineInv, NEW h \in Handlers, HandlerThrows(h)
    PROVE  PipelineInv'
<1>1. /\ UNCHANGED <<activeConnections, seeded, view, handlers>> /\ UNCHANGED monitorVars
      /\ queue # <<>> /\ queue' = <<>> /\ at' = 1
      /\ synced' = IF Len(queue) = 1 THEN synced \cap {handlers[i] : i \in 1..(at - 1)}
                                     ELSE synced \ Subscribed
  BY DEF HandlerThrows, Dispatcher!Throw, Dispatcher!Idle, trackerVars
<1>2. MonitorInv'
  BY <1>1, DispatchKeepsMonitor DEF PipelineInv
<1>3. PipelineShape' /\ SubscriptionShape' /\ DispatchShape'
  BY <1>1 DEF PipelineInv, PipelineShape, SubscriptionShape, DispatchShape, Subscribed
<1>4. ASSUME NEW g \in synced' PROVE view'[g] = DOMAIN activeConnections'
  <2>1. synced \ Subscribed = {}
    BY DEF PipelineInv, SubscriptionShape
  <2>2. PICK j \in 1..(at - 1) : g = handlers[j]
    BY <1>1, <1>4, <2>1
  <2>3. Len(queue) = 1 /\ g \in synced
    BY <1>1, <1>4, <2>1
  <2>4. /\ at \in DOMAIN handlers /\ handlers \in Seq(Handlers) /\ queue \in Seq(Events)
        /\ view \in [Handlers -> SUBSET Conns] /\ DOMAIN activeConnections \subseteq Conns
    BY <1>1 DEF PipelineInv, PipelineShape, DispatchShape
  <2>5. j \in DOMAIN handlers /\ j < at /\ DOMAIN queue = {1}
    BY <2>2, <2>3, <2>4
  <2>6. \A c \in Conns : Told(j, c)
    BY <2>5 DEF Told, Outstanding
  <2>7. ViewRight(j) /\ g \in Handlers
    BY <2>2, <2>3, <2>4, <2>5 DEF PipelineInv
  <2> QED BY <1>1, <2>2, <2>4, <2>6, <2>7 DEF ViewRight
<1> QED BY <1>1, <1>2, <1>3, <1>4, ViewsRight DEF PipelineInv

-----------------------------------------------------------------------------
(* The caller between two polls.                                           *)

\* What holds between two polls.
LEMMA BetweenFacts ==
    ASSUME PipelineInv, Between
    PROVE  /\ phase = "idle" /\ queue = <<>> /\ at = 1
           /\ \A h \in synced : view[h] = DOMAIN activeConnections
  BY IdleViews DEF PipelineInv, DispatchShape, Between, Dispatcher!Idle

\* A consumer subscribes and starts from the tracker's set.
LEMMA SubscribeInv ==
    ASSUME PipelineInv, NEW h \in Handlers, Subscribe(h)
    PROVE  PipelineInv'
<1>1. /\ UNCHANGED <<activeConnections, seeded, queue, at>> /\ UNCHANGED monitorVars
      /\ handlers' = Append(handlers, h) /\ h \notin Subscribed
      /\ view' = [view EXCEPT ![h] = DOMAIN activeConnections]
      /\ synced' = IF seeded THEN synced \cup {h} ELSE synced
      /\ Between
  BY DEF Subscribe, Dispatcher!subscribe, trackerVars
<1>2. /\ queue = <<>> /\ at = 1
      /\ \A g \in synced : view[g] = DOMAIN activeConnections
  BY <1>1, BetweenFacts
<1>3. MonitorInv'
  BY <1>1, DispatchKeepsMonitor DEF PipelineInv
<1>4. /\ handlers \in Seq(Handlers) /\ view \in [Handlers -> SUBSET Conns]
      /\ DOMAIN activeConnections \subseteq Conns /\ seeded \in BOOLEAN
      /\ queue \in Seq(Events)
  BY DEF PipelineInv, PipelineShape
<1>5. /\ handlers' \in Seq(Handlers)
      /\ DOMAIN handlers' = 1..(Len(handlers) + 1) /\ DOMAIN handlers = 1..Len(handlers)
      /\ Len(handlers) \in Nat
      /\ handlers'[Len(handlers) + 1] = h
      /\ \A i \in DOMAIN handlers : handlers'[i] = handlers[i] /\ handlers[i] # h
  BY <1>1, <1>4 DEF Subscribed
<1>6. PipelineShape'
  BY <1>1, <1>4, <1>5 DEF PipelineShape
<1>7. SubscriptionShape'
  <2>1. SubscriptionShape
    BY DEF PipelineInv
  <2>2. ASSUME NEW i \in DOMAIN handlers', NEW j \in DOMAIN handlers', i # j
        PROVE  handlers'[i] # handlers'[j]
    <3>1. /\ i \in DOMAIN handlers \/ i = Len(handlers) + 1
          /\ j \in DOMAIN handlers \/ j = Len(handlers) + 1
      BY <1>5
    <3> QED BY <1>5, <2>1, <2>2, <3>1 DEF SubscriptionShape
  <2>3. Subscribed \subseteq Subscribed' /\ h \in Subscribed'
    <3>1. \A i \in DOMAIN handlers : i \in DOMAIN handlers' /\ handlers[i] = handlers'[i]
      BY <1>5
    <3>2. Len(handlers) + 1 \in DOMAIN handlers' /\ h = handlers'[Len(handlers) + 1]
      BY <1>5
    <3> QED BY <3>1, <3>2 DEF Subscribed
  <2>4. synced' \subseteq Subscribed' /\ (~seeded' => synced' = {})
    BY <1>1, <2>1, <2>3 DEF SubscriptionShape
  <2> QED BY <2>2, <2>4 DEF SubscriptionShape
<1>8. DispatchShape'
  BY <1>1, <1>2 DEF DispatchShape
<1>9. ASSUME NEW g \in synced' PROVE view'[g] = DOMAIN activeConnections'
  <2>1. Subscribed \subseteq Handlers
    BY <1>4 DEF Subscribed
  <2>2. g \in Handlers
    BY <1>1, <1>9, <2>1 DEF PipelineInv, SubscriptionShape
  <2> QED BY <1>1, <1>2, <1>4, <1>9, <2>2
<1> QED BY <1>1, <1>2, <1>3, <1>6, <1>7, <1>8, <1>9, ViewsRight DEF PipelineInv

\* An empty handler is ignored.
LEMMA SubscribeNothingInv ==
    ASSUME PipelineInv, SubscribeNothing
    PROVE  PipelineInv'
<1>1. UNCHANGED <<trackerVars, dispatcherVars, consumerVars>> /\ UNCHANGED monitorVars
  BY DEF SubscribeNothing, Dispatcher!subscribe, dispatcherVars
<1>2. MonitorInv' /\ phase' = phase
  BY <1>1, DispatchKeepsMonitor DEF PipelineInv
<1> QED BY <1>1, <1>2, BystandersKept DEF PipelineInv, DispatchShape

\* All handlers are dropped.
LEMMA ClearHandlersInv ==
    ASSUME PipelineInv, ClearHandlers
    PROVE  PipelineInv'
<1>1. /\ UNCHANGED <<activeConnections, seeded, queue, at, view>> /\ UNCHANGED monitorVars
      /\ handlers' = <<>> /\ synced' = {} /\ queue = <<>> /\ at = 1
  BY BetweenFacts DEF ClearHandlers, Dispatcher!clear, trackerVars
<1>2. MonitorInv'
  BY <1>1, DispatchKeepsMonitor DEF PipelineInv
<1>3. PipelineShape' /\ SubscriptionShape' /\ DispatchShape'
  BY <1>1 DEF PipelineInv, PipelineShape, SubscriptionShape, DispatchShape
<1> QED BY <1>1, <1>2, <1>3, ViewsRight DEF PipelineInv

\* The tracker forgets: nobody follows it any more.
LEMMA ResetTrackerInv ==
    ASSUME PipelineInv, ResetTracker
    PROVE  PipelineInv'
<1>1. /\ UNCHANGED <<handlers, queue, at, view>> /\ UNCHANGED monitorVars
      /\ DOMAIN activeConnections' = {} /\ seeded' = FALSE /\ synced' = {}
      /\ queue = <<>> /\ at = 1
  BY BetweenFacts DEF ResetTracker, Tracker!reset, Tracker!EmptyMap, dispatcherVars
<1>2. MonitorInv'
  BY <1>1, DispatchKeepsMonitor DEF PipelineInv
<1>3. PipelineShape'
  BY <1>1 DEF PipelineInv, PipelineShape
<1>4. SubscriptionShape'
  BY <1>1 DEF PipelineInv, SubscriptionShape
<1>5. DispatchShape'
  BY <1>1 DEF DispatchShape
<1> QED BY <1>1, <1>2, <1>3, <1>4, <1>5, ViewsRight DEF PipelineInv

-----------------------------------------------------------------------------
(* A collection is reported.                                               *)

\* The tracker takes the rows and the dispatch of the changes begins.
LEMMA ReportInv ==
    ASSUME PipelineInv, Report
    PROVE  PipelineInv'
<1>1. PICK events \in Tracker!Changes(result) :
          Tracker!Apply(result, events) /\ Dispatcher!dispatch(events)
  BY DEF Report
<1>2. /\ UNCHANGED <<handlers, view, synced>>
      /\ activeConnections' = result /\ seeded' = TRUE
      /\ queue = <<>> /\ at' = 1 /\ queue' = IF handlers = <<>> THEN <<>> ELSE events
      /\ Return /\ phase' = "idle"
  BY <1>1 DEF Report, consumerVars, Tracker!Apply, Dispatcher!dispatch, Dispatcher!Idle, Return
<1>3. MonitorInv'
  BY <1>2, HandOverKeeps DEF PipelineInv
<1>4. /\ DOMAIN result \subseteq Conns /\ DOMAIN activeConnections \subseteq Conns
      /\ seeded \in BOOLEAN /\ handlers \in Seq(Handlers)
      /\ view \in [Handlers -> SUBSET Conns]
  BY DEF PipelineInv, PipelineShape, MonitorInv, MonitorTypeOK
<1>5. SubscriptionShape'
  BY <1>2 DEF PipelineInv, SubscriptionShape, Subscribed
<1>6. CASE ~seeded
  <2>1. synced' = {} /\ queue' = <<>>
    BY <1>1, <1>2, <1>6 DEF PipelineInv, SubscriptionShape, Tracker!Changes
  <2>2. PipelineShape'
    BY <1>2, <1>4, <2>1, EmptySeq DEF PipelineShape
  <2>3. DispatchShape'
    BY <1>2, <2>1 DEF DispatchShape
  <2> QED BY <1>3, <1>5, <2>1, <2>2, <2>3, ViewsRight DEF PipelineInv
<1>7. CASE handlers = <<>>
  <2>1. synced' = {} /\ queue' = <<>>
    BY <1>2, <1>7 DEF PipelineInv, SubscriptionShape, Subscribed
  <2>2. PipelineShape'
    BY <1>2, <1>4, <2>1, EmptySeq DEF PipelineShape
  <2>3. DispatchShape'
    BY <1>2, <2>1 DEF DispatchShape
  <2> QED BY <1>3, <1>5, <2>1, <2>2, <2>3, ViewsRight DEF PipelineInv
<1>8. CASE seeded /\ handlers # <<>>
  <2>1. Reports(events, DOMAIN result \ DOMAIN activeConnections,
                        DOMAIN activeConnections \ DOMAIN result)
    BY <1>1, <1>4, <1>8, ChangesExact
  <2>2. queue' = events
    BY <1>2, <1>8
  <2>3. PipelineShape'
    BY <1>2, <1>4, <2>1, <2>2 DEF PipelineShape, Reports
  <2>4. DispatchShape'
    <3>1. at' \in DOMAIN handlers'
      BY <1>2, <1>4, <1>8
    <3>2. \A i \in DOMAIN queue' : events[i].type = "CREATED" <=> events[i].conn \in DOMAIN result
      BY <2>1, <2>2 DEF Reports
    <3> QED BY <1>2, <2>1, <2>2, <3>1, <3>2 DEF DispatchShape, Reports
  <2>5. ASSUME NEW j \in DOMAIN handlers', handlers'[j] \in synced' PROVE ViewRight(j)'
    <3>1. view[handlers[j]] = DOMAIN activeConnections
      BY <1>2, <2>5, IdleViews
    <3>2. ASSUME NEW c \in Conns
          PROVE  c \in DOMAIN activeConnections <=> (c \in DOMAIN result <=> Told(j, c)')
      <4>1. Told(j, c)' <=> \A i \in DOMAIN events : events[i].conn # c
        <5>1. j \in Nat /\ j >= 1
          BY <1>2, <1>4, <2>5
        <5> QED BY <1>2, <2>2, <5>1 DEF Told, Outstanding
      <4> QED BY <2>1, <4>1 DEF Reports
    <3> QED BY <1>2, <3>1, <3>2 DEF ViewRight
  <2> QED BY <1>3, <1>5, <2>3, <2>4, <2>5 DEF PipelineInv
<1> QED BY <1>4, <1>6, <1>7, <1>8

-----------------------------------------------------------------------------
(* The theorems.                                                           *)

\* Initially nothing is tracked and nobody is subscribed.
LEMMA InitInv == Init => PipelineInv
<1> SUFFICES ASSUME Init PROVE PipelineInv
  OBVIOUS
<1>1. /\ MonitorInit /\ DOMAIN activeConnections = {} /\ seeded = FALSE
      /\ handlers = <<>> /\ queue = <<>> /\ at = 1
      /\ view = [h \in Handlers |-> {}] /\ synced = {}
  BY DEF Init, Tracker!Init, Tracker!EmptyMap, Dispatcher!Init
<1>2. MonitorInv
  BY <1>1, MonitorInitKeeps
<1>3. PipelineShape
  BY <1>1, EmptySeq DEF PipelineShape
<1>4. SubscriptionShape /\ DispatchShape
  BY <1>1 DEF SubscriptionShape, DispatchShape
<1> QED BY <1>1, <1>2, <1>3, <1>4 DEF PipelineInv

\* Every step keeps the invariant.
LEMMA NextInv ==
    ASSUME PipelineInv, [Next]_vars
    PROVE  PipelineInv'
<1>1. CASE UNCHANGED vars
  <2>1. UNCHANGED <<trackerVars, dispatcherVars, consumerVars>> /\ UNCHANGED monitorVars
    BY <1>1 DEF vars
  <2>2. MonitorInv' /\ phase' = phase
    BY <2>1, DispatchKeepsMonitor DEF PipelineInv
  <2> QED BY <2>1, <2>2, BystandersKept DEF PipelineInv, DispatchShape
<1>2. CASE Deliver
  BY <1>2, HandleEventInv DEF Deliver
<1> QED BY <1>1, <1>2, EnvironmentInv, CollectInv, PollInv, ReportInv, SubscribeInv, HandlerThrowsInv,
           SubscribeNothingInv, ClearHandlersInv, ResetTrackerInv DEF Next

\* The invariant holds throughout.
LEMMA Invariance == Spec => []PipelineInv
<1>1. PipelineInv /\ [Next]_vars => PipelineInv'
  BY NextInv
<1> QED BY <1>1, InitInv, PTL DEF Spec

\* Between two polls every consumer that has followed the events knows exactly
\* the connections ConnectionTracker holds, for any number of connections and
\* handlers, whatever order the hash map gives the events, and although
\* handlers may throw.
THEOREM ViewsAgree == Spec => []ViewsFollowTracker
<1>1. PipelineInv => ViewsFollowTracker
  BY BetweenFacts DEF ViewsFollowTracker
<1> QED BY <1>1, Invariance, PTL

\* Every event EventDispatcher delivers to such a consumer changes what the
\* consumer knows: no creation is reported twice, no unknown connection closed.
THEOREM EventsAreNews == Spec => EveryEventIsNews
<1> DEFINE News == \A h \in synced \cap synced' :
                      (at' # at \/ queue' # queue) /\ ~Dispatcher!Idle /\ handlers[at] = h
                         => view'[h] # view[h]
<1>1. PipelineInv /\ [Next]_vars => [News]_vars
  <2> SUFFICES ASSUME PipelineInv, Next, NEW h \in synced \cap synced',
                      at' # at \/ queue' # queue, ~Dispatcher!Idle, handlers[at] = h
               PROVE  view'[h] # view[h]
    OBVIOUS
  <2>1. queue # <<>> /\ ~Between
    BY DEF Dispatcher!Idle, Between
  <2>2. CASE Deliver
    <3>1. PICK g \in Handlers, i \in DOMAIN queue : HandleEvent(g, queue[i])
      BY <2>2 DEF Deliver
    <3>2. g = h
      BY <3>1 DEF HandleEvent, Dispatcher!Invoke
    <3> QED BY <3>1, <3>2, HandleEventEffect
  <2>3. ASSUME NEW g \in Handlers, HandlerThrows(g) PROVE FALSE
    <3>1. synced' = IF Len(queue) = 1 THEN synced \cap {handlers[i] : i \in 1..(at - 1)}
                                      ELSE synced \ Subscribed
      BY <2>3 DEF HandlerThrows
    <3>2. synced \ Subscribed = {}
      BY DEF PipelineInv, SubscriptionShape
    <3>3. PICK j \in 1..(at - 1) : h = handlers[j]
      BY <3>1, <3>2
    <3>4. at \in DOMAIN handlers /\ handlers \in Seq(Handlers)
      BY <2>1 DEF PipelineInv, PipelineShape, DispatchShape
    <3>5. j \in DOMAIN handlers /\ j # at
      BY <3>4
    <3> QED BY <3>3, <3>4, <3>5 DEF PipelineInv, SubscriptionShape
  <2>4. CASE Environment \/ Collect
    BY <2>4 DEF Environment, Collect, dispatcherVars
  <2>5. ~Report
    BY <2>1 DEF Report, Dispatcher!dispatch, Dispatcher!Idle
  <2> QED BY <2>1, <2>2, <2>3, <2>4, <2>5
          DEF Next, Poll, Subscribe, SubscribeNothing, ClearHandlers, ResetTracker
<1> QED BY <1>1, Invariance, PTL DEF Spec, EveryEventIsNews

\* A connection is reported closed only if it was missing at some time during
\* the collection or its table could not be read: ConnectionTracker::update
\* over what NetworkMonitor returns, for every interleaving with the sockets.
THEOREM ClosedMeansGoneOrUnread == Spec => ClosedOnlyIfGoneOrUnread
<1> DEFINE Justified == phase = "done" /\ phase' = "idle" =>
                          \A c \in DOMAIN activeConnections \ DOMAIN activeConnections' :
                             c \notin openThroughout \/ TableOf[c] \in failedTables
<1>1. PipelineInv /\ [Next]_vars => [Justified]_vars
  <2> SUFFICES ASSUME PipelineInv, Next, phase = "done", phase' = "idle",
                      NEW c \in DOMAIN activeConnections \ DOMAIN activeConnections',
                      c \in openThroughout
               PROVE  TableOf[c] \in failedTables
    OBVIOUS
  <2>1. CASE Report
    <3>1. activeConnections' = result
      BY <2>1 DEF Report, Tracker!Apply
    <3>2. CompleteUnlessFailed
      BY MonitorInvComplete DEF PipelineInv
    <3> QED BY <3>1, <3>2 DEF CompleteUnlessFailed
  <2>2. CASE ~Report
    <3>1. activeConnections' = activeConnections
      BY <2>2 DEF Next, Environment, Collect, Poll, Deliver, HandleEvent, HandlerThrows, Subscribe,
                  SubscribeNothing, ClearHandlers, ResetTracker, Between, trackerVars
    <3> QED BY <3>1
  <2> QED BY <2>1, <2>2
<1> QED BY <1>1, Invariance, PTL DEF Spec, ClosedOnlyIfGoneOrUnread
=============================================================================
