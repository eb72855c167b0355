----------------------- MODULE TransferPipelineProofs -----------------------
(***************************************************************************)
(* The totals never exceed the bytes really moved: for every number of     *)
(* connections, sockets, bytes, polls and resets, and however the          *)
(* operating system's activity falls between the collector's calls.        *)
(*                                                                         *)
(* That takes counters that can be read while their socket exists          *)
(* (EstatsReliable).  It then holds for all the connections with the same  *)
(* addresses and ports together, and for each connection if no two share   *)
(* them (a row could otherwise be completed with the counters of another   *)
(* process's socket).                                                      *)
(***************************************************************************)
EXTENDS TransferPipeline, NetworkMonitorProofs, SnapshotRowsProofs

\* ESTATS of IPv4 and IPv6 are asked for separately, and only for TCP: sockets
\* that can be taken for each other are in the same table.
TuplesInOneTable == \A c, d \in Conns : TupleOf[c] = TupleOf[d] => TableOf[c] = TableOf[d]

\* No two connections have the same addresses and ports.
OwnTuples == \A c, d \in Conns : TupleOf[c] = TupleOf[d] => c = d

-----------------------------------------------------------------------------
(* Shared addresses.  ESTATS know a socket by its addresses and ports.     *)

\* Of the connections with the same addresses and ports one is open.
OneSocketPerTuple == \A c, d \in OpenConns : TupleOf[c] = TupleOf[d] => c = d

\* The row of a connection that has been open all along shows counters of its
\* own, which have only grown since.
OwnCounters ==
    \A c \in openThroughout \cap DOMAIN result, d \in Directions :
        result[c].bytes[d] <= sockets[c].bytes[d]

SharedInv == MonitorInv /\ OneSocketPerTuple /\ OwnCounters

\* While a collection runs, its witnesses are open.
LEMMA ThroughoutOpen ==
    ASSUME MonitorInv, NEW c \in openThroughout \cap DOMAIN result
    PROVE  c \in OpenConns /\ c \in Conns
  BY DEF MonitorInv, MonitorTypeOK, LoopShape, WitnessShape, OpenConns, EmptyMap

\* A step of the operating system: a socket is opened where there is none, and
\* counters of a socket that stays never go back.
LEMMA OsStepOwn ==
    ASSUME SharedInv, OsStep
    PROVE  OneSocketPerTuple' /\ OwnCounters'
<1>1. sockets \in [Conns -> Socket] /\ openThroughout \subseteq Conns
  BY DEF SharedInv, MonitorInv, MonitorTypeOK
<1>2. \A c \in Conns : /\ sockets[c] \in Socket
                       /\ \A d \in Directions : sockets[c].bytes[d] \in Nat
  BY <1>1 DEF Socket
<1>3. result' = result
  BY DEF OsStep, Open, ChangeState, Close, Transfer, callVars
<1>4. ASSUME openThroughout' \subseteq openThroughout,
             \A c \in openThroughout' \cap DOMAIN result : \A d \in Directions :
                 sockets'[c].bytes[d] \in Nat /\ sockets[c].bytes[d] <= sockets'[c].bytes[d]
      PROVE  OwnCounters'
  <2> SUFFICES ASSUME NEW c \in openThroughout' \cap DOMAIN result, NEW d \in Directions
               PROVE  result[c].bytes[d] <= sockets'[c].bytes[d]
    BY <1>3 DEF OwnCounters
  <2>1. c \in openThroughout \cap DOMAIN result /\ c \in Conns
    BY <1>1, <1>4
  <2>2. result[c].bytes[d] \in Nat
    BY <2>1 DEF SharedInv, MonitorInv, MonitorTypeOK, ResultRow
  <2>3. result[c].bytes[d] <= sockets[c].bytes[d] /\ sockets[c].bytes[d] \in Nat
    BY <1>2, <2>1 DEF SharedInv, OwnCounters
  <2> QED BY <1>4, <2>2, <2>3
<1>5. ASSUME NEW o \in Conns, Open(o) PROVE OneSocketPerTuple' /\ OwnCounters'
  <2>1. OpenConns' = OpenConns \cup {o} /\ \A d \in OpenConns : TupleOf[d] # TupleOf[o]
    BY <1>1, <1>5 DEF Open, OpenConns, IsOpen, NoSocket
  <2>2. OneSocketPerTuple'
    BY <2>1 DEF SharedInv, OneSocketPerTuple
  <2>3. openThroughout' = openThroughout /\ o \notin OpenConns
    BY <1>5 DEF Open, OpenConns
  <2>4. ASSUME NEW c \in openThroughout \cap DOMAIN result PROVE sockets'[c] = sockets[c]
    <3>1. c # o /\ c \in Conns
      BY <2>3, <2>4, ThroughoutOpen DEF SharedInv
    <3> QED BY <1>1, <1>5, <3>1 DEF Open
  <2> QED BY <1>1, <1>2, <1>4, <2>2, <2>3, <2>4
<1>6. ASSUME NEW o \in Conns, NEW s \in States, ChangeState(o, s)
      PROVE  OneSocketPerTuple' /\ OwnCounters'
  <2>1. /\ \A c \in Conns : sockets'[c].bytes = sockets[c].bytes
        /\ \A c \in Conns : sockets'[c].state # "none" <=> sockets[c].state # "none"
        /\ openThroughout' = openThroughout
    BY <1>1, <1>6 DEF ChangeState, TcpMoves, Socket, witnessVars
  <2>2. OpenConns' = OpenConns
    BY <2>1 DEF OpenConns, IsOpen
  <2> QED BY <1>1, <1>2, <1>4, <2>1, <2>2 DEF SharedInv, OneSocketPerTuple
<1>7. ASSUME NEW o \in Conns, Close(o) PROVE OneSocketPerTuple' /\ OwnCounters'
  <2>1. OpenConns' \subseteq OpenConns /\ openThroughout' = openThroughout \ {o}
    BY <1>1, <1>7 DEF Close, OpenConns, IsOpen, NoSocket
  <2>2. \A c \in Conns \ {o} : sockets'[c] = sockets[c]
    BY <1>1, <1>7 DEF Close
  <2>3. OwnCounters'
    BY <1>1, <1>2, <1>4, <2>1, <2>2
  <2> QED BY <2>1, <2>3 DEF SharedInv, OneSocketPerTuple
<1>8. ASSUME NEW o \in Conns, NEW x \in Directions, Transfer(o, x)
      PROVE  OneSocketPerTuple' /\ OwnCounters'
  <2>1. /\ \A c \in Conns : sockets'[c].state = sockets[c].state
        /\ openThroughout' = openThroughout
    BY <1>1, <1>8 DEF Transfer, Socket, witnessVars
  <2>2. OpenConns' = OpenConns
    BY <2>1 DEF OpenConns, IsOpen
  <2>3. ASSUME NEW c \in Conns, NEW d \in Directions
        PROVE  sockets'[c].bytes[d] \in Nat /\ sockets[c].bytes[d] <= sockets'[c].bytes[d]
    <3>1. sockets[c].bytes \in [Directions -> Nat]
      BY <1>1 DEF Socket
    <3>2. \/ sockets'[c].bytes = sockets[c].bytes
          \/ sockets'[c].bytes = [sockets[c].bytes EXCEPT ![x] = @ + 1]
      BY <1>1, <1>8 DEF Transfer, Socket
    <3> QED BY <3>1, <3>2
  <2> QED BY <1>1, <1>4, <2>1, <2>2, <2>3 DEF SharedInv, OneSocketPerTuple
<1> QED BY <1>5, <1>6, <1>7, <1>8 DEF OsStep

\* A row is completed with zeros, or with the counters found under its
\* addresses: if its own socket is open, those are its own.
LEMMA AddRowOwn ==
    ASSUME SharedInv, NEW o \in Conns, NEW b \in [Directions -> Nat], AddRow(o, b), UNCHANGED sockets,
           o \in openThroughout => \A d \in Directions : b[d] <= sockets[o].bytes[d]
    PROVE  OneSocketPerTuple' /\ OwnCounters'
<1>1. /\ result' = Put(result, [c \in {o} |-> MakeRow(o, b)])
      /\ openThroughout' = openThroughout
  BY DEF AddRow, witnessVars
<1>2. /\ DOMAIN result' = DOMAIN result \cup {o} /\ result'[o].bytes = b
      /\ \A c \in DOMAIN result \ {o} : result'[c] = result[c]
  BY <1>1 DEF Put, MakeRow
<1>3. OwnCounters'
  BY <1>1, <1>2 DEF SharedInv, OwnCounters
<1> QED BY <1>3 DEF SharedInv, OneSocketPerTuple, OpenConns, IsOpen

\* The collector's calls.
LEMMA CollectStepOwn ==
    ASSUME SharedInv, CollectStep
    PROVE  OneSocketPerTuple' /\ OwnCounters'
<1>1. sockets \in [Conns -> Socket]
  BY DEF SharedInv, MonitorInv, MonitorTypeOK
<1>2. /\ Zero \in [Directions -> Nat]
      /\ \A c \in Conns : /\ sockets[c].bytes \in [Directions -> Nat]
                          /\ \A d \in Directions : Zero[d] <= sockets[c].bytes[d]
  BY <1>1 DEF Zero, Socket
<1>3. CASE QuerySize \/ QueryFails \/ FetchFails
  <2>1. UNCHANGED <<sockets, result, openThroughout>>
    BY <1>3 DEF QuerySize, QueryFails, FetchFails, osVars, witnessVars
  <2> QED BY <2>1 DEF SharedInv, OneSocketPerTuple, OpenConns, IsOpen, OwnCounters
<1>4. CASE Fetch
  <2>1. /\ UNCHANGED <<sockets, openThroughout>>
        /\ result' = result \/ result' = AppendRows(InTable(Tables[table]))
    BY <1>4 DEF Fetch, osVars, witnessVars
  <2>2. OneSocketPerTuple'
    BY <2>1 DEF SharedInv, OneSocketPerTuple, OpenConns, IsOpen
  <2>3. \A c \in DOMAIN result' :
            (c \in DOMAIN result /\ result'[c] = result[c]) \/ result'[c].bytes = Zero
    BY <2>1 DEF AppendRows, Put, MakeRow
  <2>4. openThroughout \subseteq Conns
    BY DEF SharedInv, MonitorInv, MonitorTypeOK
  <2> QED BY <1>2, <2>1, <2>2, <2>3, <2>4 DEF SharedInv, OwnCounters
<1>5. ASSUME NEW c \in Conns, SkipEstats(c) \/ EstatsFails(c) PROVE OneSocketPerTuple' /\ OwnCounters'
  <2>1. AddRow(c, Zero) /\ UNCHANGED sockets
    BY <1>5 DEF SkipEstats, EstatsFails
  <2> QED BY <1>2, <2>1, AddRowOwn
<1>6. ASSUME NEW c \in Conns, EnableEstats(c) PROVE OneSocketPerTuple' /\ OwnCounters'
  <2>1. UNCHANGED <<result, openThroughout>>
    BY <1>6 DEF EnableEstats, witnessVars
  <2>2. \A o \in Conns : sockets'[o].state = sockets[o].state /\ sockets'[o].bytes = sockets[o].bytes
    BY <1>1, <1>6 DEF EnableEstats, SocketsAt, OpenConns, Socket
  <2>3. OpenConns' = OpenConns /\ openThroughout \subseteq Conns
    BY <2>2 DEF OpenConns, IsOpen, SharedInv, MonitorInv, MonitorTypeOK
  <2> QED BY <2>1, <2>2, <2>3 DEF SharedInv, OneSocketPerTuple, OwnCounters
<1>7. ASSUME NEW c \in Conns, NEW o \in Conns, ReadEstats(c, o)
      PROVE  OneSocketPerTuple' /\ OwnCounters'
  <2>1. /\ AddRow(c, sockets[o].bytes) /\ UNCHANGED sockets
        /\ phase = "rows" /\ o \in OpenConns /\ TupleOf[o] = TupleOf[c]
    BY <1>7 DEF ReadEstats, SocketsAt
  <2>2. c \in openThroughout => c = o
    BY <2>1 DEF SharedInv, MonitorInv, WitnessShape, OneSocketPerTuple
  <2>3. c \in openThroughout => \A d \in Directions : sockets[o].bytes[d] <= sockets[c].bytes[d]
    <3>1. \A d \in Directions : sockets[o].bytes[d] \in Nat
      BY <1>2
    <3> QED BY <2>2, <3>1
  <2> QED BY <1>2, <2>1, <2>3, AddRowOwn
<1> QED BY <1>3, <1>4, <1>5, <1>6, <1>7 DEF CollectStep

\* Every step keeps a row's counters its connection's own.
LEMMA SharedStep ==
    ASSUME SharedInv, [Next]_vars
    PROVE  SharedInv'
<1>1. [MonitorNext]_monitorVars
  BY PollsTransfers
     DEF Next, Environment, Collect, Poll, Deliver, ResetTracker, MonitorNext, vars
<1>2. MonitorInv'
  BY <1>1, MonitorStepKeeps DEF SharedInv
<1>3. CASE \E k \in Kinds : Begin(k)
  <2>1. /\ UNCHANGED sockets /\ result' = result /\ phase = "idle"
    BY <1>3 DEF Begin, osVars
  <2>2. DOMAIN result' = {}
    BY <2>1 DEF SharedInv, MonitorInv, LoopShape, EmptyMap
  <2> QED BY <1>2, <2>1, <2>2 DEF SharedInv, OneSocketPerTuple, OwnCounters, OpenConns, IsOpen
<1>4. CASE Return
  <2>1. UNCHANGED sockets /\ DOMAIN result' = {}
    BY <1>4 DEF Return, osVars, EmptyMap
  <2> QED BY <1>2, <2>1 DEF SharedInv, OneSocketPerTuple, OwnCounters, OpenConns, IsOpen
<1>5. CASE UNCHANGED monitorVars
  <2>1. UNCHANGED <<sockets, result, openThroughout>>
    BY <1>5 DEF monitorVars, osVars, callVars, witnessVars
  <2> QED BY <1>2, <2>1 DEF SharedInv, OneSocketPerTuple, OwnCounters, OpenConns, IsOpen
<1> QED BY <1>1, <1>2, <1>3, <1>4, <1>5, OsStepOwn, CollectStepOwn DEF MonitorNext, SharedInv

\* Of the connections with the same addresses, one at most is ever open.
LEMMA SharedInvariance == Spec => []SharedInv
<1>1. Init => SharedInv
  <2> SUFFICES ASSUME Init PROVE SharedInv
    OBVIOUS
  <2>1. OpenConns = {} /\ DOMAIN result = {}
    BY DEF Init, MonitorInit, OpenConns, IsOpen, NoSocket, EmptyMap
  <2> QED BY <2>1, MonitorInitKeeps DEF Init, SharedInv, OneSocketPerTuple, OwnCounters
<1>2. SharedInv /\ [Next]_vars => SharedInv'
  BY SharedStep
<1> QED BY <1>1, <1>2, PTL DEF Spec

\* A wrong process is shown bytes only if a socket was replaced while the
\* collection ran: however many connections share addresses, the row of one
\* that was open throughout has the counters of its own socket.
THEOREM CountersAreOwn == Spec => []OwnCountersUnlessReplaced
<1>1. SharedInv => OwnCountersUnlessReplaced
  BY DEF SharedInv, OwnCounters, OwnCountersUnlessReplaced
<1> QED BY <1>1, SharedInvariance, PTL

-----------------------------------------------------------------------------
(* The inductive invariant.                                                *)

Shown(c) == sockets[c].bytes[Counter]

\* What was counted for, and moved by, the connections with c's addresses.
Counted(c) == SumFunction([d \in At(TupleOf[c]) |-> credited[d]])
Moved(c) == SumFunction([d \in At(TupleOf[c]) |-> traffic[d][Counter]])

Base(c) == uploads[c].baseline
Reading(c) == result[c].bytes[Counter]

\* A socket in FIN_WAIT stays unreadable for rows fetched from now on.
Live(c) == sockets[c].state # "FIN_WAIT"

\* A fetched row of c is going to be completed with the socket's counters.
WillRead(c) == c \in DOMAIN pending /\ pending[c] \in Readable \cup {"enabled"}

\* A fetched row of c is going to be completed with zeros.
WillSkip(c) == c \in DOMAIN pending /\ pending[c] \notin Readable \cup {"enabled"}

\* Counters stand at zero until a socket is established; UDP is never counted.
SocketShape ==
    \A c \in Conns :
        /\ sockets[c].state \in {"none", "SYN_SENT"} => Shown(c) = 0
        /\ sockets[c].state = "LISTENING" => TableOf[c] \notin Tcp
        /\ TableOf[c] \notin Tcp => /\ Shown(c) = 0
                                   /\ ~sockets[c].collecting
                                   /\ sockets[c].state \in {"none", "LISTENING"}

\* Rows come from the tables visited so far; those waiting for counters come
\* from the current one and are not among the finished ones.
CallShape ==
    /\ phase # "idle" => kind = "transfers"
    /\ \A c \in DOMAIN result : result[c].conn = c
    /\ \A c \in DOMAIN result : \E i \in 1..4 : TableOf[c] = Tables[i] /\ i <= table
    /\ phase \in {"query", "fetch"} =>
          \A c \in DOMAIN result : \E i \in 1..4 : TableOf[c] = Tables[i] /\ i < table
    /\ \A c \in DOMAIN pending :
          TableOf[c] = Tables[table] /\ TableOf[c] \in Tcp /\ c \notin DOMAIN result
    /\ phase = "idle" => table = 1 /\ result = EmptyMap

\* Of the connections with the same addresses one at most has a row.
OneRowPerTuple ==
    \A c, d \in DOMAIN pending \cup DOMAIN result : TupleOf[c] = TupleOf[d] => c = d

TrackerShape ==
    /\ DOMAIN uploads \subseteq Conns
    /\ \A c \in DOMAIN uploads : uploads[c].baseline \in Nat /\ uploads[c].cumulative \in Nat
    /\ \A c \in DOMAIN closedUploads : closedUploads[c].uploadedBytes \in Nat
    /\ credited \in [Conns -> Nat]

\* What has been counted for the addresses of c, what the collected reading
\* will add, and what the next reading of s, which has the same addresses, would
\* add, is covered by real traffic.
Covered(c, s) ==
    /\ Counted(c) + Gain(c) <= Moved(c)
    /\ c \in DOMAIN result /\ Live(s)
          => Counted(c) + Gain(c) + computeDelta(Reading(c), Shown(s)) <= Moved(c)
    /\ c \in DOMAIN uploads \ DOMAIN result /\ (Live(s) \/ WillRead(c))
          => Counted(c) + computeDelta(Base(c), Shown(s)) <= Moved(c)
    /\ WillSkip(c) /\ Live(s) => Counted(c) + Shown(s) <= Moved(c)

Published(c) ==
    /\ c \in DOMAIN uploads => uploads[c].cumulative <= credited[c]
    /\ c \in DOMAIN closedUploads => closedUploads[c].uploadedBytes <= credited[c]

IInv ==
    /\ MonitorTypeOK
    /\ SocketShape
    /\ CallShape
    /\ OneRowPerTuple
    /\ TrackerShape
    /\ \A c \in Conns : \A s \in At(TupleOf[c]) : Covered(c, s) /\ Published(c)

-----------------------------------------------------------------------------
(* Facts used throughout.                                                  *)

\* Connections with the addresses of c: finitely many, and c is one of them.
LEMMA Peers ==
    ASSUME NEW c \in Conns
    PROVE  /\ IsFiniteSet(At(TupleOf[c])) /\ At(TupleOf[c]) \subseteq Conns /\ c \in At(TupleOf[c])
           /\ \A s \in At(TupleOf[c]) : TupleOf[s] = TupleOf[c]
  BY MonitorAssumption, FS_Subset DEF At

\* The two sums of the invariant add up naturals.
LEMMA Sums ==
    ASSUME MonitorTypeOK, TrackerShape, NEW c \in Conns
    PROVE  Counted(c) \in Nat /\ Moved(c) \in Nat
<1>1. PICK counted \in [At(TupleOf[c]) -> Nat] : counted = [d \in At(TupleOf[c]) |-> credited[d]]
  BY Peers DEF TrackerShape
<1>2. PICK moved \in [At(TupleOf[c]) -> Nat] :
         moved = [d \in At(TupleOf[c]) |-> traffic[d][Counter]]
  <2>1. \A d \in At(TupleOf[c]) : traffic[d][Counter] \in Nat
    BY Peers, CounterAssumption DEF MonitorTypeOK
  <2> QED BY <2>1
<1>3. SumFunction(counted) \in Nat /\ SumFunction(moved) \in Nat
  BY Peers, SumCounts
<1> QED BY <1>1, <1>2, <1>3, Zenon DEF Counted, Moved

\* One of the numbers grows.
LEMMA PeerGrows ==
    ASSUME NEW c \in Conns, NEW o \in At(TupleOf[c]), NEW n \in Nat,
           NEW f \in [At(TupleOf[c]) -> Nat], NEW g \in [At(TupleOf[c]) -> Nat],
           g[o] = f[o] + n, \A e \in At(TupleOf[c]) : e # o => g[e] = f[e]
    PROVE  SumFunction(g) = SumFunction(f) + n
<1>1. PICK S : S = At(TupleOf[c]) /\ IsFiniteSet(S)
  BY Peers
<1>2. f \in [S -> Nat] /\ g \in [S -> Nat] /\ o \in S /\ \A e \in S : e # o => g[e] = f[e]
  BY <1>1
<1> QED BY <1>1, <1>2, SumBumped

\* They change with the numbers added up only.
LEMMA SumsKept ==
    ASSUME NEW c \in Conns
    PROVE  /\ credited' = credited => Counted(c)' = Counted(c)
           /\ traffic' = traffic => Moved(c)' = Moved(c)
  BY Zenon DEF Counted, Moved

\* The quantities of the invariant are natural numbers.
LEMMA Numbers ==
    ASSUME IInv, NEW c \in Conns
    PROVE  /\ Shown(c) \in Nat
           /\ Moved(c) \in Nat
           /\ Counted(c) \in Nat
           /\ credited[c] \in Nat
           /\ c \in DOMAIN result => Reading(c) \in Nat
           /\ c \in DOMAIN uploads => Base(c) \in Nat
           /\ Gain(c) \in Nat
<1>1. Shown(c) \in Nat
  BY CounterAssumption DEF IInv, MonitorTypeOK, Socket, Shown
<1>2. c \in DOMAIN result => Reading(c) \in Nat
  BY CounterAssumption DEF IInv, MonitorTypeOK, ResultRow, Reading
<1>3. credited[c] \in Nat /\ (c \in DOMAIN uploads => Base(c) \in Nat)
  BY DEF IInv, TrackerShape, Base
<1>4. Gain(c) \in Nat
  BY <1>2, <1>3, DeltaBounds DEF Gain, Reading, Base
<1> QED BY <1>1, <1>2, <1>3, <1>4, Sums DEF IInv

\* The invariant of one connection and one socket with its addresses.
LEMMA Pairs ==
    ASSUME IInv, NEW c \in Conns, NEW s \in At(TupleOf[c])
    PROVE  Covered(c, s) /\ Published(c) /\ s \in Conns /\ TupleOf[s] = TupleOf[c]
  BY Peers DEF IInv

\* A connection that is not open shows nothing.
LEMMA ClosedShowsNothing ==
    ASSUME IInv, NEW s \in Conns, s \notin OpenConns
    PROVE  Shown(s) = 0 /\ Live(s)
  BY DEF IInv, SocketShape, OpenConns, IsOpen, Live

\* The operating system does nothing, clears a counter, or moves one byte: what
\* is counted stays covered by what is moved.
LEMMA CoveredByTraffic ==
    ASSUME IInv, UNCHANGED <<callVars, trackerVars>>, NEW c \in Conns, NEW s \in At(TupleOf[c]),
           Shown(s)' \in Nat, Moved(c)' \in Nat,
           \/ Shown(s)' = Shown(s) /\ Moved(c)' >= Moved(c) /\ (Live(s)' => Live(s))
           \/ Shown(s)' = 0 /\ Moved(c)' = Moved(c)
           \/ Shown(s)' = Shown(s) + 1 /\ Moved(c)' = Moved(c) + 1 /\ (Live(s)' => Live(s))
    PROVE  Covered(c, s)' /\ Published(c)'
<1>1. /\ result' = result /\ pending' = pending /\ uploads' = uploads
      /\ credited' = credited /\ closedUploads' = closedUploads
  BY DEF callVars, trackerVars
<1>2. /\ Gain(c)' = Gain(c)
      /\ Reading(c)' = Reading(c)
      /\ Base(c)' = Base(c)
      /\ WillRead(c)' = WillRead(c)
      /\ WillSkip(c)' = WillSkip(c)
  BY <1>1 DEF Gain, Reading, Base, WillRead, WillSkip
<1>3. Published(c)' /\ Counted(c)' = Counted(c)
  BY <1>1, Pairs, SumsKept DEF Published
<1>4. Covered(c, s) /\ s \in Conns
  BY Pairs
<1>5. /\ Shown(s) \in Nat /\ Moved(c) \in Nat /\ Counted(c) \in Nat /\ Gain(c) \in Nat
      /\ c \in DOMAIN result => Reading(c) \in Nat
      /\ c \in DOMAIN uploads => Base(c) \in Nat
  BY <1>4, Numbers
<1>6. /\ c \in DOMAIN result =>
             /\ computeDelta(Reading(c), Shown(s)) \in Nat
             /\ computeDelta(Reading(c), 0) = 0
             /\ computeDelta(Reading(c), Shown(s) + 1) <= computeDelta(Reading(c), Shown(s)) + 1
             /\ computeDelta(Reading(c), Shown(s) + 1) \in Nat
      /\ c \in DOMAIN uploads =>
             /\ computeDelta(Base(c), Shown(s)) \in Nat
             /\ computeDelta(Base(c), 0) = 0
             /\ computeDelta(Base(c), Shown(s) + 1) <= computeDelta(Base(c), Shown(s)) + 1
             /\ computeDelta(Base(c), Shown(s) + 1) \in Nat
  BY <1>5 DEF computeDelta
<1>7. Counted(c) + Gain(c) <= Moved(c)'
  BY <1>4, <1>5 DEF Covered
<1>8. ASSUME c \in DOMAIN result, Live(s)'
      PROVE  Counted(c) + Gain(c) + computeDelta(Reading(c), Shown(s)') <= Moved(c)'
  BY <1>4, <1>5, <1>6, <1>8 DEF Covered
<1>9. ASSUME c \in DOMAIN uploads \ DOMAIN result, Live(s)' \/ WillRead(c)
      PROVE  Counted(c) + computeDelta(Base(c), Shown(s)') <= Moved(c)'
  BY <1>4, <1>5, <1>6, <1>9 DEF Covered
<1>10. ASSUME WillSkip(c), Live(s)'
       PROVE  Counted(c) + Shown(s)' <= Moved(c)'
  BY <1>4, <1>5, <1>10 DEF Covered
<1>11. Covered(c, s)'
  BY <1>1, <1>2, <1>3, <1>7, <1>8, <1>9, <1>10 DEF Covered
<1> QED BY <1>3, <1>11

-----------------------------------------------------------------------------
(* Steps of the operating system.                                          *)

\* The shape of the call and of the tracker do not depend on the sockets.
LEMMA ShapesKept ==
    ASSUME IInv, UNCHANGED <<callVars, trackerVars>>
    PROVE  CallShape' /\ OneRowPerTuple' /\ TrackerShape'
  BY DEF IInv, CallShape, OneRowPerTuple, TrackerShape, callVars, trackerVars

\* A socket opens.
LEMMA OpenInv ==
    ASSUME IInv, NEW o \in Conns, Open(o), UNCHANGED trackerVars
    PROVE  IInv'
<1>1. UNCHANGED <<callVars, trackerVars>> /\ UNCHANGED traffic
  BY DEF Open
<1>2. MonitorTypeOK'
  BY OsStepTyped DEF IInv, OsStep
<1>3. /\ Shown(o)' = 0
      /\ ~sockets'[o].collecting
      /\ sockets'[o].state = IF TableOf[o] \in Tcp THEN "SYN_SENT" ELSE "LISTENING"
  BY CounterAssumption DEF Open, IInv, MonitorTypeOK, Shown, NoSocket, Zero
<1>4. \A c \in Conns \ {o} : sockets'[c] = sockets[c]
  BY DEF Open, IInv, MonitorTypeOK
<1>5. SocketShape'
  BY <1>3, <1>4 DEF IInv, SocketShape, Shown
<1>6. ASSUME NEW c \in Conns, NEW s \in At(TupleOf[c]) PROVE Covered(c, s)' /\ Published(c)'
  <2>1. Moved(c)' = Moved(c) /\ Moved(c) \in Nat /\ Shown(s) \in Nat /\ s \in Conns
    BY <1>1, Numbers, SumsKept, Peers
  <2>2. CASE s = o
    BY <2>1, <2>2, <1>1, <1>3, CoveredByTraffic
  <2>3. CASE s # o
    <3>1. Shown(s)' = Shown(s) /\ Live(s)' = Live(s)
      BY <2>1, <2>3, <1>4 DEF Shown, Live
    <3> QED BY <2>1, <3>1, <1>1, CoveredByTraffic
  <2> QED BY <2>2, <2>3
<1> QED BY <1>1, <1>2, <1>5, <1>6, ShapesKept DEF IInv

\* A TCP socket changes state; it never leaves FIN_WAIT that way.
LEMMA ChangeStateInv ==
    ASSUME IInv, NEW o \in Conns, NEW x \in States, ChangeState(o, x), UNCHANGED trackerVars
    PROVE  IInv'
<1>1. UNCHANGED <<callVars, trackerVars>> /\ UNCHANGED traffic
  BY DEF ChangeState
<1>2. sockets' = [sockets EXCEPT ![o].state = x]
  BY DEF ChangeState
<1>3. sockets \in [Conns -> Socket]
  BY DEF IInv, MonitorTypeOK
<1>4. MonitorTypeOK'
  BY OsStepTyped DEF IInv, OsStep
<1>5. /\ \A c \in Conns \ {o} : sockets'[c] = sockets[c]
      /\ sockets'[o].state = x
      /\ sockets'[o].bytes = sockets[o].bytes
      /\ sockets'[o].collecting = sockets[o].collecting
  BY <1>2, <1>3 DEF Socket
<1>6. /\ x \in {"ESTABLISHED", "CLOSE_WAIT", "FIN_WAIT"}
      /\ sockets[o].state \in {"SYN_SENT", "ESTABLISHED", "CLOSE_WAIT"}
  BY DEF ChangeState, TcpMoves
<1>7. SocketShape'
  <2>1. SocketShape
    BY DEF IInv
  <2>2. TableOf[o] \in Tcp
    BY <1>6, <2>1 DEF SocketShape
  <2> QED BY <1>5, <1>6, <2>1, <2>2 DEF SocketShape, Shown
<1>8. ASSUME NEW c \in Conns, NEW s \in At(TupleOf[c]) PROVE Covered(c, s)' /\ Published(c)'
  <2>1. Moved(c)' = Moved(c) /\ Moved(c) \in Nat /\ Shown(s) \in Nat /\ s \in Conns
    BY <1>1, Numbers, SumsKept, Peers
  <2>2. Shown(s)' = Shown(s) /\ (Live(s)' => Live(s))
    BY <1>5, <1>6, <2>1 DEF Shown, Live
  <2> QED BY <2>1, <2>2, <1>1, CoveredByTraffic
<1> QED BY <1>1, <1>4, <1>7, <1>8, ShapesKept DEF IInv

\* A socket closes, and its counters go with it.
LEMMA CloseInv ==
    ASSUME IInv, NEW o \in Conns, Close(o), UNCHANGED trackerVars
    PROVE  IInv'
<1>1. UNCHANGED <<callVars, trackerVars>> /\ UNCHANGED traffic
  BY DEF Close
<1>2. MonitorTypeOK'
  BY OsStepTyped DEF IInv, OsStep
<1>3. sockets'[o] = NoSocket /\ \A c \in Conns \ {o} : sockets'[c] = sockets[c]
  BY DEF Close, IInv, MonitorTypeOK
<1>4. Shown(o)' = 0
  BY <1>3, CounterAssumption DEF Shown, NoSocket, Zero
<1>5. SocketShape'
  BY <1>3, <1>4 DEF IInv, SocketShape, Shown, NoSocket
<1>6. ASSUME NEW c \in Conns, NEW s \in At(TupleOf[c]) PROVE Covered(c, s)' /\ Published(c)'
  <2>1. Moved(c)' = Moved(c) /\ Moved(c) \in Nat /\ Shown(s) \in Nat /\ s \in Conns
    BY <1>1, Numbers, SumsKept, Peers
  <2>2. CASE s = o
    BY <2>1, <2>2, <1>1, <1>4, CoveredByTraffic
  <2>3. CASE s # o
    <3>1. Shown(s)' = Shown(s) /\ Live(s)' = Live(s)
      BY <2>1, <2>3, <1>3 DEF Shown, Live
    <3> QED BY <2>1, <3>1, <1>1, CoveredByTraffic
  <2> QED BY <2>2, <2>3
<1> QED BY <1>1, <1>2, <1>5, <1>6, ShapesKept DEF IInv

\* A byte is added to what the connections with the same addresses have moved.
LEMMA MovedStep ==
    ASSUME traffic \in [Conns -> [Directions -> Nat]], NEW o \in Conns, NEW d \in Directions,
           traffic' = [traffic EXCEPT ![o][d] = @ + 1], NEW c \in Conns
    PROVE  Moved(c)' = Moved(c) + (IF o \in At(TupleOf[c]) /\ d = Counter THEN 1 ELSE 0)
<1>1. \A e \in Conns : /\ traffic[e][Counter] \in Nat
                       /\ traffic'[e][Counter] =
                             traffic[e][Counter] + (IF e = o /\ d = Counter THEN 1 ELSE 0)
  BY CounterAssumption
<1>2. PICK f \in [At(TupleOf[c]) -> Nat] : f = [e \in At(TupleOf[c]) |-> traffic[e][Counter]]
  BY <1>1, Peers
<1>3. PICK g \in [At(TupleOf[c]) -> Nat] : g = [e \in At(TupleOf[c]) |-> traffic'[e][Counter]]
  <2>1. \A e \in At(TupleOf[c]) : traffic'[e][Counter] \in Nat
    BY <1>1, Peers
  <2> QED BY <2>1
<1>4. Moved(c) = SumFunction(f) /\ Moved(c)' = SumFunction(g)
  BY <1>2, <1>3, Zenon DEF Moved
<1>5. \A e \in At(TupleOf[c]) :
         f[e] \in Nat /\ g[e] = f[e] + (IF e = o /\ d = Counter THEN 1 ELSE 0)
  BY <1>1, <1>2, <1>3, Peers
<1>6. CASE o \in At(TupleOf[c]) /\ d = Counter
  <2>1. g[o] = f[o] + 1 /\ \A e \in At(TupleOf[c]) : e # o => g[e] = f[e]
    BY <1>5, <1>6
  <2>2. SumFunction(g) = SumFunction(f) + 1
    BY <1>6, <2>1, PeerGrows
  <2> QED BY <1>4, <1>6, <2>2
<1>7. CASE ~(o \in At(TupleOf[c]) /\ d = Counter)
  <2>1. g[c] = f[c] + 0 /\ \A e \in At(TupleOf[c]) : e # c => g[e] = f[e]
    BY <1>5, <1>7, Peers
  <2>2. SumFunction(g) = SumFunction(f) + 0
    BY <2>1, Peers, PeerGrows
  <2> QED BY <1>4, <1>7, <2>2
<1> QED BY <1>6, <1>7

\* A byte moves; its counter, if it counts, moves with it.
LEMMA TransferInv ==
    ASSUME IInv, NEW o \in Conns, NEW d \in Directions, Transfer(o, d), UNCHANGED trackerVars
    PROVE  IInv'
<1>1. UNCHANGED <<callVars, trackerVars>>
  BY DEF Transfer
<1>2. sockets \in [Conns -> Socket] /\ traffic \in [Conns -> [Directions -> Nat]]
  BY DEF IInv, MonitorTypeOK
<1>3. traffic' = [traffic EXCEPT ![o][d] = @ + 1]
  BY DEF Transfer
<1>4. sockets' = sockets \/ (sockets[o].collecting /\ sockets' = [sockets EXCEPT ![o].bytes[d] = @ + 1])
  BY DEF Transfer
<1>5. MonitorTypeOK'
  BY OsStepTyped DEF IInv, OsStep
<1>6. ASSUME NEW c \in Conns
      PROVE  /\ sockets'[c].state = sockets[c].state
             /\ sockets'[c].collecting = sockets[c].collecting
             /\ \/ Shown(c)' = Shown(c)
                \/ Shown(c)' = Shown(c) + 1 /\ c = o /\ d = Counter /\ sockets[o].collecting
  <2>1. sockets[c] \in Socket /\ sockets[c].bytes \in [Directions -> Nat]
    BY <1>2 DEF Socket
  <2>2. CASE c # o
    BY <2>2, <1>2, <1>4 DEF Shown
  <2>3. CASE c = o /\ d # Counter
    BY <2>1, <2>3, <1>2, <1>4, CounterAssumption DEF Shown, Socket
  <2>4. CASE c = o /\ d = Counter
    BY <2>1, <2>4, <1>2, <1>4 DEF Shown, Socket
  <2> QED BY <2>2, <2>3, <2>4
<1>7. SocketShape'
  <2>1. sockets[o].state \in {"ESTABLISHED", "CLOSE_WAIT", "FIN_WAIT", "LISTENING"}
    BY DEF Transfer
  <2> QED BY <1>6, <2>1 DEF IInv, SocketShape
<1>8. ASSUME NEW c \in Conns, NEW s \in At(TupleOf[c]) PROVE Covered(c, s)' /\ Published(c)'
  <2>1. /\ Moved(c) \in Nat /\ Shown(s) \in Nat /\ s \in Conns /\ TupleOf[s] = TupleOf[c]
        /\ Live(s)' => Live(s)
    BY <1>6, Numbers, Peers DEF Live
  <2>2. Moved(c)' = Moved(c) + (IF o \in At(TupleOf[c]) /\ d = Counter THEN 1 ELSE 0)
    BY <1>2, <1>3, MovedStep
  <2>3. \/ Shown(s)' = Shown(s) /\ Moved(c)' >= Moved(c)
        \/ Shown(s)' = Shown(s) + 1 /\ Moved(c)' = Moved(c) + 1
    BY <1>6, <2>1, <2>2
  <2>4. Shown(s)' \in Nat /\ Moved(c)' \in Nat
    BY <1>6, <2>1, <2>2
  <2> QED BY <2>1, <2>3, <2>4, <1>1, CoveredByTraffic
<1> QED BY <1>1, <1>5, <1>7, <1>8, ShapesKept DEF IInv

\* No activity of the operating system uncovers a counted byte.
LEMMA EnvironmentInv == IInv /\ Environment => IInv'
  BY OpenInv, ChangeStateInv, CloseInv, TransferInv DEF Environment, OsStep

-----------------------------------------------------------------------------
(* Steps of the collector.                                                 *)

\* A step that leaves sockets, traffic, rows and tracker alone keeps the cover.
LEMMA CoverKept ==
    ASSUME IInv, UNCHANGED <<sockets, traffic, pending, result, trackerVars>>
    PROVE  /\ SocketShape' /\ OneRowPerTuple' /\ TrackerShape'
           /\ \A c \in Conns : \A s \in At(TupleOf[c]) : Covered(c, s)' /\ Published(c)'
<1>1. ASSUME NEW c \in Conns, NEW s \in At(TupleOf[c]) PROVE Covered(c, s)' /\ Published(c)'
  <2>1. Counted(c)' = Counted(c) /\ Moved(c)' = Moved(c)
    BY SumsKept DEF trackerVars
  <2> QED BY <2>1, Pairs DEF Covered, Published, trackerVars, Shown, Base, Reading, Gain, Live,
                             WillRead, WillSkip
<1> QED BY <1>1 DEF IInv, SocketShape, OneRowPerTuple, TrackerShape, trackerVars, Shown

\* The size of a table is asked for.
LEMMA QuerySizeInv ==
    ASSUME IInv, QuerySize, UNCHANGED trackerVars
    PROVE  IInv'
<1>1. UNCHANGED <<sockets, traffic, pending, result, trackerVars>>
  BY DEF QuerySize, osVars
<1>2. MonitorTypeOK'
  BY CollectStepTyped DEF IInv, CollectStep
<1>3. CallShape'
  BY DEF QuerySize, IInv, CallShape, osVars
<1> QED BY <1>1, <1>2, <1>3, CoverKept DEF IInv

\* Leaving a table without rows.
LEMMA SkipTableInv ==
    ASSUME IInv, QueryFails \/ FetchFails, UNCHANGED trackerVars
    PROVE  IInv'
<1>1. /\ UNCHANGED <<sockets, opens, traffic, pending, result, kind, now>>
      /\ UNCHANGED <<openThroughout, seenOpen, trackerVars>>
      /\ phase \in {"query", "fetch"}
      /\ NextTable
      /\ failedTables' = failedTables \cup {Tables[table]}
  BY DEF QueryFails, FetchFails, osVars
<1>2. table \in 1..4 /\ DOMAIN pending = {}
  BY <1>1 DEF IInv, MonitorTypeOK
<1>3. /\ table' = table + 1 /\ size' = 0
      /\ phase' \in {"query", "done"}
      /\ phase' = "query" => table' \in 1..4
  BY <1>1, <1>2 DEF NextTable, Tables
<1>4. MonitorTypeOK'
  BY SkipTableTyped DEF IInv
<1>5. CallShape'
  BY <1>1, <1>2, <1>3 DEF IInv, CallShape
<1> QED BY <1>1, <1>4, <1>5, CoverKept DEF IInv

\* The rows of a TCP table are fetched and wait for their counters.
LEMMA FetchTcpInv ==
    ASSUME TuplesInOneTable, OneSocketPerTuple, IInv, UNCHANGED trackerVars, UNCHANGED <<osVars, kind, now, witnessVars>>,
           phase = "fetch", Tables[table] \in Tcp,
           InTable(Tables[table]) # {},
           pending' = [c \in InTable(Tables[table]) |-> sockets[c].state],
           phase' = "rows",
           UNCHANGED <<table, size, result>>,
           MonitorTypeOK'
    PROVE  IInv'
<1> DEFINE rows == InTable(Tables[table])
<1>1. /\ rows \subseteq Conns
      /\ \A c \in rows : TableOf[c] = Tables[table] /\ sockets[c].state # "none"
  BY DEF InTable, OpenConns, IsOpen
<1>2. DOMAIN pending = {} /\ table \in 1..4 /\ sockets \in [Conns -> Socket]
  BY DEF IInv, MonitorTypeOK
<1>3. DOMAIN pending' = rows /\ \A c \in rows : pending'[c] = sockets[c].state
  OBVIOUS
<1>4. ASSUME NEW c \in rows, NEW r \in DOMAIN result PROVE TupleOf[c] # TupleOf[r]
  <2>1. PICK i \in 1..4 : TableOf[r] = Tables[i] /\ i < table
    BY DEF IInv, CallShape
  <2>2. r \in Conns /\ c \in Conns
    BY <1>1 DEF IInv, MonitorTypeOK
  <2> QED BY <1>1, <1>2, <2>1, <2>2, TablesDiffer DEF TuplesInOneTable
<1>5. CallShape' /\ OneRowPerTuple'
  <2>1. ASSUME NEW c \in rows PROVE c \notin DOMAIN result
    BY <1>4
  <2>2. \A c, d \in rows : TupleOf[c] = TupleOf[d] => c = d
    BY DEF InTable, OneSocketPerTuple
  <2>3. CallShape'
    BY <1>1, <1>3, <2>1 DEF IInv, CallShape
  <2> HIDE DEF rows
  <2> QED BY <1>3, <1>4, <2>2, <2>3 DEF IInv, OneRowPerTuple
<1>6. SocketShape' /\ TrackerShape'
  BY DEF IInv, SocketShape, TrackerShape, trackerVars, osVars, Shown
<1>7. ASSUME NEW c \in Conns, NEW s \in At(TupleOf[c]) PROVE Covered(c, s)' /\ Published(c)'
  <2>1. /\ Gain(c)' = Gain(c) /\ Reading(c)' = Reading(c) /\ Base(c)' = Base(c)
        /\ Shown(s)' = Shown(s) /\ Live(s)' = Live(s)
        /\ credited' = credited /\ uploads' = uploads /\ result' = result
        /\ closedUploads' = closedUploads
        /\ Counted(c)' = Counted(c) /\ Moved(c)' = Moved(c)
    BY SumsKept DEF Gain, Reading, Base, Shown, Live, trackerVars, osVars
  <2>2. Covered(c, s) /\ Published(c) /\ s \in Conns /\ TupleOf[s] = TupleOf[c]
    BY Pairs
  <2>3. c \in rows /\ s # c => Shown(s) = 0 /\ Live(s)
    <3>1. c \in rows => c \in OpenConns
      BY DEF InTable
    <3> QED BY <2>2, <3>1, ClosedShowsNothing DEF OneSocketPerTuple
  <2>4. WillRead(c)' => Live(s)
    BY <1>3, <2>3 DEF WillRead, Live, Readable
  <2>5. WillSkip(c)' /\ Live(s) => Shown(s) = 0
    <3>1. sockets[c].state \in States
      BY <1>2 DEF Socket
    <3>2. SocketShape
      BY DEF IInv
    <3>3. c \in rows => TableOf[c] \in Tcp
      BY <1>1
    <3>4. WillSkip(c)' => c \in rows
      BY <1>3 DEF WillSkip
    <3>5. WillSkip(c)' /\ Live(c) => Shown(c) = 0
      BY <1>1, <1>3, <3>1, <3>2, <3>3 DEF WillSkip, Live, Readable, States, SocketShape
    <3> QED BY <2>3, <3>4, <3>5
  <2>6. Gain(c) \in Nat /\ Counted(c) \in Nat /\ Moved(c) \in Nat
    BY Numbers
  <2> QED BY <2>1, <2>2, <2>4, <2>5, <2>6 DEF Covered, Published
<1> QED BY <1>5, <1>6, <1>7 DEF IInv

\* The rows of a UDP table are complete when fetched; so is an empty table.
LEMMA FetchUdpInv ==
    ASSUME TuplesInOneTable, OneSocketPerTuple, IInv, UNCHANGED trackerVars, UNCHANGED <<osVars, kind, now, witnessVars, pending>>,
           phase = "fetch",
           Tables[table] \notin Tcp \/ InTable(Tables[table]) = {},
           result' = Put(result, [c \in InTable(Tables[table]) |-> MakeRow(c, Zero)]),
           NextTable,
           MonitorTypeOK'
    PROVE  IInv'
<1> DEFINE rows == InTable(Tables[table])
<1>1. rows \subseteq Conns /\ \A c \in rows : TableOf[c] = Tables[table] /\ TableOf[c] \notin Tcp
  BY DEF InTable, OpenConns
<1>2. DOMAIN pending = {} /\ table \in 1..4
  BY DEF IInv, MonitorTypeOK
<1>3. /\ table' = table + 1 /\ size' = 0
      /\ phase' \in {"query", "done"}
      /\ phase' = "query" => table' \in 1..4
  BY <1>2 DEF NextTable, Tables
<1>4. /\ DOMAIN result' = DOMAIN result \cup rows
      /\ \A c \in rows : result'[c] = MakeRow(c, Zero)
      /\ \A c \in DOMAIN result \ rows : result'[c] = result[c]
      /\ result' = [c \in DOMAIN result' |-> result'[c]]
  BY DEF Put
<1>5. ASSUME NEW c \in rows, NEW r \in DOMAIN result PROVE TupleOf[c] # TupleOf[r]
  <2>1. PICK i \in 1..4 : TableOf[r] = Tables[i] /\ i < table
    BY DEF IInv, CallShape
  <2>2. r \in Conns /\ c \in Conns
    BY <1>1 DEF IInv, MonitorTypeOK
  <2> QED BY <1>1, <1>2, <2>1, <2>2, TablesDiffer DEF TuplesInOneTable
<1>6. \A c, d \in rows : TupleOf[c] = TupleOf[d] => c = d
  BY DEF InTable, OneSocketPerTuple
<1> HIDE DEF rows
<1>7. CallShape'
  <2>1. ASSUME NEW c \in DOMAIN result'
        PROVE  \E i \in 1..4 : TableOf[c] = Tables[i] /\ i < table'
    BY <1>1, <1>2, <1>3, <1>4 DEF IInv, CallShape
  <2>2. ASSUME NEW c \in DOMAIN result'
        PROVE  \E i \in 1..4 : TableOf[c] = Tables[i] /\ i <= table'
    BY <1>2, <1>3, <2>1
  <2>3. ASSUME NEW c \in DOMAIN result' PROVE result'[c].conn = c
    <3>1. MakeRow(c, Zero).conn = c
      BY DEF MakeRow
    <3>2. c \in DOMAIN result => result[c].conn = c
      BY DEF IInv, CallShape
    <3> QED BY <1>4, <3>1, <3>2
  <2> QED BY <1>2, <1>3, <2>1, <2>2, <2>3 DEF IInv, CallShape
<1>10. OneRowPerTuple'
  BY <1>2, <1>4, <1>5, <1>6 DEF IInv, OneRowPerTuple
<1>8. SocketShape' /\ TrackerShape'
  BY DEF IInv, SocketShape, TrackerShape, trackerVars, osVars, Shown
<1>9. ASSUME NEW c \in Conns, NEW s \in At(TupleOf[c]) PROVE Covered(c, s)' /\ Published(c)'
  <2>1. /\ Base(c)' = Base(c) /\ Shown(s)' = Shown(s)
        /\ Live(s)' = Live(s) /\ ~WillRead(c)' /\ ~WillSkip(c)'
        /\ credited' = credited /\ uploads' = uploads /\ closedUploads' = closedUploads
        /\ Counted(c)' = Counted(c) /\ Moved(c)' = Moved(c)
    BY <1>2, SumsKept DEF Base, Shown, Live, WillRead, WillSkip, trackerVars, osVars
  <2>2. Covered(c, s) /\ Published(c) /\ s \in Conns /\ TupleOf[s] = TupleOf[c]
    BY Pairs
  <2>3. /\ Gain(c) \in Nat /\ Counted(c) \in Nat /\ Moved(c) \in Nat
        /\ c \in DOMAIN uploads => Base(c) \in Nat
    BY Numbers
  <2>4. CASE c \in rows
    <3>1. Reading(c)' = 0 /\ c \in DOMAIN result'
      <4>1. result'[c] = MakeRow(c, Zero) /\ c \in DOMAIN result'
        BY <2>4, <1>4
      <4>2. MakeRow(c, Zero).bytes = Zero
        BY DEF MakeRow
      <4>3. Zero[Counter] = 0
        BY CounterAssumption DEF Zero
      <4> QED BY <4>1, <4>2, <4>3 DEF Reading
    <3>2. Shown(s) = 0
      <4>1. TableOf[s] \notin Tcp
        BY <2>2, <2>4, <1>1 DEF TuplesInOneTable
      <4> QED BY <2>2, <4>1 DEF IInv, SocketShape
    <3>3. Gain(c)' = 0
      <4>1. c \in DOMAIN uploads => computeDelta(Base(c), 0) = 0
        BY <2>3, DeltaBounds
      <4> QED BY <2>1, <3>1, <4>1 DEF Gain, Base, Reading
    <3>4. Gain(c) = 0
      BY <2>4, <1>5 DEF Gain
    <3>5. computeDelta(0, 0) = 0
      BY DeltaBounds
    <3> QED BY <2>1, <2>2, <2>3, <3>1, <3>2, <3>3, <3>4, <3>5 DEF Covered, Published
  <2>5. CASE c \notin rows
    <3>1. /\ c \in DOMAIN result' <=> c \in DOMAIN result
          /\ c \in DOMAIN result => result'[c] = result[c]
      BY <2>5, <1>4
    <3>2. Gain(c)' = Gain(c) /\ (c \in DOMAIN result => Reading(c)' = Reading(c))
      BY <2>1, <3>1 DEF Gain, Reading
    <3> QED BY <2>1, <2>2, <3>1, <3>2 DEF Covered, Published
  <2> QED BY <2>4, <2>5
<1> QED BY <1>7, <1>8, <1>9, <1>10 DEF IInv

\* The second table call, when it succeeds.
LEMMA FetchInv ==
    ASSUME TuplesInOneTable, OneSocketPerTuple, IInv, Fetch, UNCHANGED trackerVars
    PROVE  IInv'
<1>1. kind = "transfers" /\ phase = "fetch" /\ UNCHANGED <<osVars, kind, now, witnessVars>>
  BY DEF Fetch, IInv, CallShape
<1>4. MonitorTypeOK'
  BY FetchTyped DEF IInv
<1>2. CASE Tables[table] \in Tcp /\ InTable(Tables[table]) # {}
  BY <1>1, <1>2, <1>4, FetchTcpInv DEF Fetch
<1>3. CASE Tables[table] \notin Tcp \/ InTable(Tables[table]) = {}
  BY <1>1, <1>3, <1>4, FetchUdpInv DEF Fetch, AppendRows
<1> QED BY <1>2, <1>3

\* A pending row is completed with a reading r that is covered.
LEMMA AddRowInv ==
    ASSUME IInv, UNCHANGED trackerVars, phase = "rows",
           NEW o \in DOMAIN pending, NEW bytes \in [Directions -> Nat], AddRow(o, bytes),
           UNCHANGED sockets,
           \A s \in At(TupleOf[o]) :
               /\ o \in DOMAIN uploads =>
                     Counted(o) + computeDelta(Base(o), bytes[Counter]) <= Moved(o)
               /\ Live(s) => Counted(o) + computeDelta(bytes[Counter], Shown(s))
                               + (IF o \in DOMAIN uploads
                                  THEN computeDelta(Base(o), bytes[Counter]) ELSE 0) <= Moved(o)
    PROVE  IInv'
<1>1. /\ UNCHANGED <<kind, now, opens, traffic, openThroughout, seenOpen, failedTables>>
      /\ result' = Put(result, [d \in {o} |-> MakeRow(o, bytes)])
      /\ pending' = [d \in DOMAIN pending \ {o} |-> pending[d]]
  BY DEF AddRow, witnessVars
<1>2. /\ DOMAIN result' = DOMAIN result \cup {o}
      /\ result'[o] = MakeRow(o, bytes)
      /\ \A c \in DOMAIN result \ {o} : result'[c] = result[c]
      /\ result' = [c \in DOMAIN result' |-> result'[c]]
  BY <1>1 DEF Put
<1>3. /\ DOMAIN pending' = DOMAIN pending \ {o}
      /\ \A c \in DOMAIN pending \ {o} : pending'[c] = pending[c]
  BY <1>1
<1>4. o \in Conns /\ o \notin DOMAIN result /\ TableOf[o] = Tables[table] /\ table \in 1..4
  BY DEF IInv, MonitorTypeOK, CallShape
<1>5. \/ /\ DOMAIN pending = {o} /\ table' = table + 1 /\ size' = 0
         /\ phase' \in {"query", "done"} /\ (phase' = "query" => table' \in 1..4)
      \/ DOMAIN pending # {o} /\ UNCHANGED <<phase, table, size>>
  BY <1>4 DEF AddRow, NextTable, Tables
<1>6. MonitorTypeOK' /\ SocketShape'
  BY AddRowTyped DEF IInv, SocketShape, Shown
<1>7. CallShape'
  <2>1. kind = "transfers"
    BY DEF IInv, CallShape
  <2>2. ASSUME NEW c \in DOMAIN result'
        PROVE  /\ \E i \in 1..4 : TableOf[c] = Tables[i] /\ i <= table'
               /\ phase' # "rows" => \E i \in 1..4 : TableOf[c] = Tables[i] /\ i < table'
    <3>1. PICK i \in 1..4 : TableOf[c] = Tables[i] /\ i <= table
      BY <1>2, <1>4 DEF IInv, CallShape
    <3> QED BY <1>4, <1>5, <3>1
  <2>3. ASSUME NEW c \in DOMAIN pending'
        PROVE  TableOf[c] = Tables[table'] /\ TableOf[c] \in Tcp /\ c \notin DOMAIN result'
    BY <1>2, <1>3, <1>5 DEF IInv, CallShape
  <2>4. \A c \in DOMAIN result' : result'[c].conn = c
    BY <1>2 DEF IInv, CallShape, MakeRow
  <2> QED BY <1>1, <1>5, <2>1, <2>2, <2>3, <2>4 DEF CallShape
<1>8. TrackerShape' /\ OneRowPerTuple'
  <2>1. DOMAIN pending' \cup DOMAIN result' = DOMAIN pending \cup DOMAIN result
    BY <1>2, <1>3
  <2>2. OneRowPerTuple'
    BY <2>1 DEF IInv, OneRowPerTuple
  <2> QED BY <2>2 DEF IInv, TrackerShape, trackerVars
<1>9. ASSUME NEW c \in Conns, NEW s \in At(TupleOf[c]) PROVE Covered(c, s)' /\ Published(c)'
  <2>1. /\ Base(c)' = Base(c) /\ Shown(s)' = Shown(s) /\ Live(s)' = Live(s)
        /\ credited' = credited /\ uploads' = uploads /\ closedUploads' = closedUploads
        /\ Counted(c)' = Counted(c) /\ Moved(c)' = Moved(c)
    BY <1>1, SumsKept DEF Base, Shown, Live, trackerVars
  <2>2. Covered(c, s) /\ Published(c) /\ s \in Conns
    BY Pairs
  <2>3. CASE c = o
    <3>1. Reading(c)' = bytes[Counter] /\ c \in DOMAIN result'
      BY <2>3, <1>2 DEF Reading, MakeRow
    <3>2. Gain(c)' = IF c \in DOMAIN uploads THEN computeDelta(Base(c), bytes[Counter]) ELSE 0
      BY <2>1, <3>1 DEF Gain, Base, Reading
    <3>3. ~WillRead(c)' /\ ~WillSkip(c)'
      BY <2>3, <1>3 DEF WillRead, WillSkip
    <3>4. /\ Counted(c) \in Nat /\ Moved(c) \in Nat /\ Shown(s) \in Nat /\ bytes[Counter] \in Nat
          /\ c \in DOMAIN uploads => Base(c) \in Nat
      BY <2>2, Numbers, CounterAssumption
    <3>5. Gain(c) = 0
      BY <2>3, <1>4 DEF Gain
    <3>6. /\ computeDelta(bytes[Counter], Shown(s)) \in Nat
          /\ c \in DOMAIN uploads => computeDelta(Base(c), bytes[Counter]) \in Nat
      BY <3>4, DeltaBounds
    <3>7. Counted(c) + Gain(c)' <= Moved(c)
      BY <2>2, <2>3, <3>2, <3>4, <3>5 DEF Covered
    <3>8. Live(s) => Counted(c) + Gain(c)' + computeDelta(bytes[Counter], Shown(s)) <= Moved(c)
      BY <2>3, <3>2, <3>4, <3>6
    <3> QED BY <2>1, <2>2, <3>1, <3>3, <3>7, <3>8 DEF Covered, Published
  <2>4. CASE c # o
    <3>1. /\ c \in DOMAIN result' <=> c \in DOMAIN result
          /\ c \in DOMAIN result => result'[c] = result[c]
          /\ c \in DOMAIN pending' <=> c \in DOMAIN pending
          /\ c \in DOMAIN pending => pending'[c] = pending[c]
      BY <2>4, <1>2, <1>3
    <3>2. /\ Gain(c)' = Gain(c) /\ (c \in DOMAIN result => Reading(c)' = Reading(c))
          /\ WillRead(c)' = WillRead(c) /\ WillSkip(c)' = WillSkip(c)
      BY <2>1, <3>1 DEF Gain, Reading, WillRead, WillSkip
    <3> QED BY <2>1, <2>2, <3>1, <3>2 DEF Covered, Published
  <2> QED BY <2>3, <2>4
<1> QED BY <1>6, <1>7, <1>8, <1>9 DEF IInv

\* A row without readable counters: nothing is shown, and nothing was counted.
LEMMA SkipEstatsInv ==
    ASSUME IInv, NEW o \in Conns, SkipEstats(o), UNCHANGED trackerVars
    PROVE  IInv'
<1>1. /\ phase = "rows" /\ o \in DOMAIN pending /\ WillSkip(o)
      /\ AddRow(o, Zero) /\ sockets' = sockets
  BY DEF SkipEstats, BetweenRows, WillSkip
<1>2. Zero \in [Directions -> Nat] /\ Zero[Counter] = 0
  BY CounterAssumption DEF Zero
<1>3. sockets' \in [Conns -> Socket] /\ SocketShape'
  BY <1>1 DEF IInv, MonitorTypeOK, SocketShape, Shown
<1>4. ASSUME NEW s \in At(TupleOf[o])
      PROVE  /\ o \in DOMAIN uploads => Counted(o) + computeDelta(Base(o), Zero[Counter]) <= Moved(o)
             /\ Live(s) => Counted(o) + computeDelta(Zero[Counter], Shown(s))
                             + (IF o \in DOMAIN uploads
                                THEN computeDelta(Base(o), Zero[Counter]) ELSE 0) <= Moved(o)
  <2>1. Covered(o, s) /\ s \in Conns
    BY Pairs
  <2>2. /\ Counted(o) \in Nat /\ Moved(o) \in Nat /\ Shown(s) \in Nat /\ Gain(o) \in Nat
        /\ o \in DOMAIN uploads => Base(o) \in Nat
    BY <2>1, Numbers
  <2>3. /\ o \in DOMAIN uploads => computeDelta(Base(o), 0) = 0
        /\ computeDelta(0, Shown(s)) = Shown(s)
    BY <2>2, DeltaBounds
  <2>4. Counted(o) <= Moved(o) /\ (Live(s) => Counted(o) + Shown(s) <= Moved(o))
    BY <1>1, <2>1, <2>2 DEF Covered
  <2> QED BY <1>2, <2>2, <2>3, <2>4
<1> QED BY <1>1, <1>2, <1>3, <1>4, AddRowInv

\* Switching counting on moves no counter.
LEMMA EnableEstatsInv ==
    ASSUME TuplesInOneTable, IInv, NEW o \in Conns, EnableEstats(o), UNCHANGED trackerVars
    PROVE  IInv'
<1>1. /\ UNCHANGED <<opens, traffic, phase, kind, now, table, size, result>>
      /\ UNCHANGED <<openThroughout, seenOpen, failedTables>>
      /\ pending' = [pending EXCEPT ![o] = "enabled"]
      /\ o \in DOMAIN pending /\ pending[o] \in Readable
  BY DEF EnableEstats, witnessVars
<1>2. PICK e \in Conns : /\ TupleOf[e] = TupleOf[o]
                         /\ sockets' = sockets \/ sockets' = [sockets EXCEPT ![e].collecting = TRUE]
  BY DEF EnableEstats, SocketsAt, OpenConns
<1>3. sockets \in [Conns -> Socket]
  BY DEF IInv, MonitorTypeOK
<1>4. /\ sockets' \in [Conns -> Socket]
      /\ \A c \in Conns : /\ sockets'[c].bytes = sockets[c].bytes
                          /\ sockets'[c].state = sockets[c].state
      /\ \A c \in Conns \ {e} : sockets'[c] = sockets[c]
  <2>1. CASE sockets' = sockets
    BY <2>1, <1>3
  <2>2. CASE sockets' = [sockets EXCEPT ![e].collecting = TRUE]
    <3>1. [sockets[e] EXCEPT !.collecting = TRUE] \in Socket
      BY <1>3 DEF Socket
    <3>2. /\ [sockets[e] EXCEPT !.collecting = TRUE].bytes = sockets[e].bytes
          /\ [sockets[e] EXCEPT !.collecting = TRUE].state = sockets[e].state
      BY <1>3 DEF Socket
    <3> QED BY <2>2, <1>3, <3>1, <3>2
  <2> QED BY <1>2, <2>1, <2>2
<1>5. /\ DOMAIN pending' = DOMAIN pending
      /\ pending'[o] = "enabled"
      /\ \A c \in DOMAIN pending \ {o} : pending'[c] = pending[c]
  BY <1>1
<1>6. MonitorTypeOK'
  <2>1. pending' \in [DOMAIN pending' -> States \cup {"enabled"}]
    BY <1>1, <1>5 DEF IInv, MonitorTypeOK
  <2> QED BY <1>1, <1>4, <1>5, <2>1 DEF IInv, MonitorTypeOK
<1>7. CallShape'
  BY <1>1, <1>5 DEF IInv, CallShape
<1>8. SocketShape'
  <2>1. TableOf[e] \in Tcp
    BY <1>1, <1>2 DEF IInv, CallShape, TuplesInOneTable
  <2> QED BY <1>4, <2>1 DEF IInv, SocketShape, Shown
<1>9. TrackerShape' /\ OneRowPerTuple'
  BY <1>1, <1>5 DEF IInv, TrackerShape, OneRowPerTuple, trackerVars
<1>10. ASSUME NEW c \in Conns, NEW s \in At(TupleOf[c]) PROVE Covered(c, s)' /\ Published(c)'
  <2>1. Covered(c, s) /\ Published(c) /\ s \in Conns
    BY Pairs
  <2>2. /\ Gain(c)' = Gain(c) /\ Reading(c)' = Reading(c) /\ Base(c)' = Base(c)
        /\ Shown(s)' = Shown(s) /\ Live(s)' = Live(s)
        /\ credited' = credited /\ uploads' = uploads /\ result' = result
        /\ closedUploads' = closedUploads
        /\ Counted(c)' = Counted(c) /\ Moved(c)' = Moved(c)
    BY <1>1, <1>4, <2>1, SumsKept DEF Gain, Reading, Base, Shown, Live, trackerVars
  <2>3. WillRead(c)' = WillRead(c) /\ WillSkip(c)' = WillSkip(c)
    BY <1>1, <1>5 DEF WillRead, WillSkip
  <2> QED BY <2>1, <2>2, <2>3 DEF Covered, Published
<1> QED BY <1>6, <1>7, <1>8, <1>9, <1>10 DEF IInv

\* The counters of a socket are read into the row.
LEMMA ReadEstatsInv ==
    ASSUME OneSocketPerTuple, IInv, NEW o \in Conns, NEW d \in Conns, ReadEstats(o, d),
           UNCHANGED trackerVars
    PROVE  IInv'
<1> DEFINE bytes == sockets[d].bytes
<1>1. d \in OpenConns /\ TupleOf[d] = TupleOf[o]
  BY DEF ReadEstats, SocketsAt
<1>2. /\ phase = "rows" /\ o \in DOMAIN pending /\ WillRead(o)
      /\ AddRow(o, bytes) /\ sockets' = sockets
  BY DEF ReadEstats, WillRead
<1>3. bytes \in [Directions -> Nat] /\ Shown(d) = bytes[Counter]
  BY DEF IInv, MonitorTypeOK, Socket, Shown
<1>4. d \in At(TupleOf[o]) /\ o \notin DOMAIN result
  BY <1>1, <1>2 DEF At, IInv, CallShape
<1>5. /\ Counted(o) \in Nat /\ Moved(o) \in Nat /\ Shown(d) \in Nat /\ Gain(o) \in Nat
      /\ o \in DOMAIN uploads => Base(o) \in Nat
  BY Numbers
<1>6. /\ Counted(o) <= Moved(o)
      /\ o \in DOMAIN uploads => Counted(o) + computeDelta(Base(o), Shown(d)) <= Moved(o)
  <2>1. Covered(o, d)
    BY <1>4, Pairs
  <2> QED BY <1>2, <1>4, <1>5, <2>1 DEF Covered
<1>7. o \in DOMAIN uploads => computeDelta(Base(o), Shown(d)) \in Nat
  BY <1>5, DeltaBounds
<1>8. ASSUME NEW s \in At(TupleOf[o]) PROVE computeDelta(Shown(d), Shown(s)) = 0
  <2>1. s \in Conns /\ TupleOf[s] = TupleOf[o]
    BY Pairs
  <2>2. s = d \/ Shown(s) = 0
    BY <1>1, <2>1, ClosedShowsNothing DEF OneSocketPerTuple
  <2> QED BY <1>5, <2>2, DeltaBounds
<1> HIDE DEF bytes
<1>9. ASSUME NEW s \in At(TupleOf[o])
      PROVE  /\ o \in DOMAIN uploads => Counted(o) + computeDelta(Base(o), bytes[Counter]) <= Moved(o)
             /\ Live(s) => Counted(o) + computeDelta(bytes[Counter], Shown(s))
                             + (IF o \in DOMAIN uploads
                                THEN computeDelta(Base(o), bytes[Counter]) ELSE 0) <= Moved(o)
  BY <1>3, <1>5, <1>6, <1>7, <1>8
<1> QED BY <1>2, <1>3, <1>9, AddRowInv

\* The socket of the row is gone: its successor, if any, starts at zero.
LEMMA EstatsFailsInv ==
    ASSUME EstatsReliable, IInv, NEW o \in Conns, EstatsFails(o), UNCHANGED trackerVars
    PROVE  IInv'
<1>1. /\ phase = "rows" /\ o \in DOMAIN pending /\ SocketsAt(o) = {}
      /\ AddRow(o, Zero) /\ sockets' = sockets
  BY DEF EstatsFails
<1>2. Zero \in [Directions -> Nat] /\ Zero[Counter] = 0
  BY CounterAssumption DEF Zero
<1>3. sockets' \in [Conns -> Socket] /\ SocketShape'
  BY <1>1 DEF IInv, MonitorTypeOK, SocketShape, Shown
<1>4. ASSUME NEW s \in At(TupleOf[o])
      PROVE  /\ o \in DOMAIN uploads => Counted(o) + computeDelta(Base(o), Zero[Counter]) <= Moved(o)
             /\ Live(s) => Counted(o) + computeDelta(Zero[Counter], Shown(s))
                             + (IF o \in DOMAIN uploads
                                THEN computeDelta(Base(o), Zero[Counter]) ELSE 0) <= Moved(o)
  <2>1. Covered(o, s) /\ s \in Conns /\ TupleOf[s] = TupleOf[o]
    BY Pairs
  <2>2. Shown(s) = 0
    BY <1>1, <2>1, ClosedShowsNothing DEF SocketsAt
  <2>3. /\ Counted(o) \in Nat /\ Moved(o) \in Nat /\ Gain(o) \in Nat
        /\ o \in DOMAIN uploads => Base(o) \in Nat
    BY Numbers
  <2>4. (o \in DOMAIN uploads => computeDelta(Base(o), 0) = 0) /\ computeDelta(0, 0) = 0
    BY <2>3, DeltaBounds
  <2>5. Counted(o) <= Moved(o)
    BY <2>1, <2>3 DEF Covered
  <2> QED BY <1>2, <2>2, <2>3, <2>4, <2>5
<1> QED BY <1>1, <1>2, <1>3, <1>4, AddRowInv

\* No step of a running collection uncovers a counted byte.
LEMMA CollectInv ==
    ASSUME EstatsReliable, TuplesInOneTable, OneSocketPerTuple, IInv, Collect
    PROVE  IInv'
  BY QuerySizeInv, SkipTableInv, FetchInv, SkipEstatsInv, EnableEstatsInv, ReadEstatsInv, EstatsFailsInv
     DEF Collect, CollectStep

-----------------------------------------------------------------------------
(* Steps of the polling loop.                                              *)

\* A collection begins.
LEMMA PollInv ==
    ASSUME IInv, Poll
    PROVE  IInv'
<1>1. UNCHANGED <<sockets, opens, traffic, table, size, pending, result, failedTables, trackerVars>>
  BY DEF Poll, Begin, osVars
<1>2. MonitorTypeOK'
  <2>1. OpenConns \subseteq Conns
    BY DEF OpenConns
  <2>2. table' \in 1..4
    BY <1>1 DEF Poll, Begin, IInv, CallShape
  <2> QED BY <1>1, <2>1, <2>2, PollsTransfers DEF Poll, Begin, IInv, MonitorTypeOK
<1>3. CallShape'
  BY <1>1 DEF Poll, Begin, IInv, CallShape, MonitorTypeOK, EmptyMap
<1> QED BY <1>1, <1>2, <1>3, CoverKept DEF IInv

\* What update() does to the tracker's maps, for the quantities that matter.
LEMMA ApplyEffect ==
    ASSUME IInv, Tracker!Apply(result, now)
    PROVE  /\ DOMAIN uploads' = DOMAIN result
           /\ \A c \in DOMAIN result :
                 /\ uploads'[c].baseline = Reading(c)
                 /\ \/ c \notin DOMAIN uploads /\ uploads'[c].cumulative = 0
                    \/ c \in DOMAIN uploads /\ uploads'[c].cumulative = uploads[c].cumulative
                    \/ /\ c \in DOMAIN uploads
                       /\ uploads'[c].cumulative = uploads[c].cumulative + Gain(c)
           /\ DOMAIN closedUploads \subseteq DOMAIN closedUploads'
           /\ \A c \in DOMAIN closedUploads' :
                 \/ c \in DOMAIN uploads /\ closedUploads'[c].uploadedBytes = uploads[c].cumulative
                 \/ c \in DOMAIN closedUploads /\ closedUploads'[c] = closedUploads[c]
<1>1. uploads' = Tracker!NextActive(result, now)
  BY DEF Tracker!Apply
<1>2. DOMAIN uploads' = DOMAIN result
  BY <1>1 DEF Tracker!NextActive
<1>3. ASSUME NEW c \in DOMAIN result
      PROVE  /\ uploads'[c].baseline = Reading(c)
             /\ \/ c \notin DOMAIN uploads /\ uploads'[c].cumulative = 0
                \/ c \in DOMAIN uploads /\ uploads'[c].cumulative = uploads[c].cumulative
                \/ /\ c \in DOMAIN uploads
                   /\ uploads'[c].cumulative = uploads[c].cumulative + Gain(c)
  <2>1. CASE c \in DOMAIN uploads
    <3>1. uploads'[c] = Tracker!KeepTracking(result[c], now)
      BY <2>1, <1>1 DEF Tracker!NextActive
    <3>2. result[c].conn = c
      BY DEF IInv, CallShape
    <3>3. uploads[c].cumulative \in Nat
      BY <2>1 DEF IInv, TrackerShape
    <3>4. Gain(c) = Tracker!computeDelta(uploads[c].baseline, result[c].bytes[Counter])
      BY <2>1 DEF Gain, computeDelta, Tracker!computeDelta
    <3>5. /\ uploads'[c].baseline = Reading(c)
          /\ uploads'[c].cumulative = uploads[c].cumulative + (IF seeded THEN Gain(c) ELSE 0)
      BY <3>1, <3>2, <3>4 DEF Tracker!KeepTracking, Tracker!makeKey, Reading
    <3> QED BY <2>1, <3>3, <3>5
  <2>2. CASE c \notin DOMAIN uploads
    <3>1. uploads'[c] = Tracker!StartTracking(result[c], now)
      BY <2>2, <1>1 DEF Tracker!NextActive
    <3> QED BY <2>2, <3>1 DEF Tracker!StartTracking, Reading
  <2> QED BY <2>1, <2>2
<1>4. /\ DOMAIN closedUploads \subseteq DOMAIN closedUploads'
      /\ \A c \in DOMAIN closedUploads' :
            \/ c \in DOMAIN uploads /\ closedUploads'[c].uploadedBytes = uploads[c].cumulative
            \/ c \in DOMAIN closedUploads /\ closedUploads'[c] = closedUploads[c]
  <2>1. Tracker!Closing(result) \subseteq DOMAIN uploads
    BY DEF Tracker!Closing
  <2>2. closedUploads' =
          Tracker!Put(closedUploads,
                      [k \in Tracker!Closing(result) |-> Tracker!toStats(uploads[k], FALSE)])
    BY DEF Tracker!Apply
  <2> HIDE DEF Tracker!Closing
  <2> QED BY <2>1, <2>2 DEF Tracker!Put, Tracker!toStats
<1> QED BY <1>2, <1>3, <1>4

\* What an update adds for the connections with the addresses of c is what it
\* adds for the one of them that has a row.
LEMMA CountedStep ==
    ASSUME IInv, credited' = [c \in Conns |-> credited[c] + Gain(c)], NEW c \in Conns
    PROVE  \E r \in At(TupleOf[c]) :
              /\ Counted(c)' = Counted(c) + Gain(r)
              /\ \A d \in At(TupleOf[c]) \cap DOMAIN result : d = r
<1>1. PICK r \in At(TupleOf[c]) : \A d \in At(TupleOf[c]) \cap DOMAIN result : d = r
  BY Peers DEF IInv, OneRowPerTuple
<1>2. \A d \in At(TupleOf[c]) : /\ credited[d] \in Nat /\ Gain(d) \in Nat
                                /\ credited'[d] = credited[d] + Gain(d)
                                /\ d # r => Gain(d) = 0
  <2>1. \A d \in At(TupleOf[c]) : d \in Conns
    BY Peers
  <2>2. \A d \in At(TupleOf[c]) : d # r => Gain(d) = 0
    BY <1>1 DEF Gain
  <2> QED BY <2>1, <2>2, Numbers
<1>3. PICK f \in [At(TupleOf[c]) -> Nat] : f = [d \in At(TupleOf[c]) |-> credited[d]]
  BY <1>2
<1>4. PICK g \in [At(TupleOf[c]) -> Nat] : g = [d \in At(TupleOf[c]) |-> credited'[d]]
  <2>1. \A d \in At(TupleOf[c]) : credited'[d] \in Nat
    BY <1>2
  <2> QED BY <2>1
<1>5. Counted(c) = SumFunction(f) /\ Counted(c)' = SumFunction(g)
  BY <1>3, <1>4, Zenon DEF Counted
<1>6. /\ g[r] = f[r] + Gain(r) /\ Gain(r) \in Nat
      /\ \A d \in At(TupleOf[c]) : d # r => g[d] = f[d]
  BY <1>2, <1>3, <1>4
<1>7. SumFunction(g) = SumFunction(f) + Gain(r)
  BY <1>6, PeerGrows
<1> QED BY <1>1, <1>5, <1>7

\* The collected rows are given to the tracker.
LEMMA DeliverInv ==
    ASSUME IInv, Deliver
    PROVE  IInv'
<1>1. /\ UNCHANGED <<sockets, opens, traffic, kind, now, size, pending>>
      /\ phase = "done" /\ phase' = "idle" /\ table' = 1 /\ result' = EmptyMap
      /\ openThroughout' = {} /\ seenOpen' = {} /\ failedTables' = {}
      /\ Tracker!Apply(result, now)
      /\ credited' = [c \in Conns |-> credited[c] + Gain(c)]
  BY DEF Deliver, Return, osVars
<1>2. DOMAIN result' = {} /\ DOMAIN pending' = {} /\ DOMAIN pending = {}
  BY <1>1 DEF EmptyMap, IInv, MonitorTypeOK
<1>3. MonitorTypeOK'
  <2>1. result' \in [DOMAIN result' -> ResultRow]
    BY <1>1 DEF EmptyMap
  <2> QED BY <1>1, <1>2, <2>1 DEF IInv, MonitorTypeOK
<1>4. SocketShape'
  BY <1>1 DEF IInv, SocketShape, Shown
<1>5. CallShape' /\ OneRowPerTuple'
  BY <1>1, <1>2 DEF CallShape, OneRowPerTuple
<1>6. \A c \in Conns : /\ credited'[c] = credited[c] + Gain(c)
                       /\ credited[c] \in Nat /\ Gain(c) \in Nat
                       /\ c \in DOMAIN result => Reading(c) \in Nat
  BY <1>1, Numbers
<1>7. DOMAIN result \subseteq Conns
  BY DEF IInv, MonitorTypeOK
<1>8. TrackerShape'
  <2>1. credited' \in [Conns -> Nat]
    BY <1>1, <1>6
  <2>2. ASSUME NEW c \in DOMAIN uploads'
        PROVE  uploads'[c].baseline \in Nat /\ uploads'[c].cumulative \in Nat
    <3>1. c \in DOMAIN result /\ c \in Conns
      BY <1>1, <1>7, ApplyEffect
    <3>2. c \in DOMAIN uploads => uploads[c].cumulative \in Nat
      BY DEF IInv, TrackerShape
    <3>3. /\ uploads'[c].baseline = Reading(c)
          /\ \/ c \notin DOMAIN uploads /\ uploads'[c].cumulative = 0
             \/ c \in DOMAIN uploads /\ uploads'[c].cumulative = uploads[c].cumulative
             \/ /\ c \in DOMAIN uploads
                /\ uploads'[c].cumulative = uploads[c].cumulative + Gain(c)
      BY <1>1, <3>1, ApplyEffect
    <3> QED BY <1>6, <3>1, <3>2, <3>3
  <2>3. ASSUME NEW c \in DOMAIN closedUploads'
        PROVE  closedUploads'[c].uploadedBytes \in Nat
    BY <1>1, ApplyEffect DEF IInv, TrackerShape
  <2>4. DOMAIN uploads' \subseteq Conns
    BY <1>1, <1>7, ApplyEffect
  <2> QED BY <2>1, <2>2, <2>3, <2>4 DEF TrackerShape
<1>9. ASSUME NEW c \in Conns, NEW s \in At(TupleOf[c]) PROVE Covered(c, s)'
  <2>1. /\ Gain(c)' = 0 /\ Shown(s)' = Shown(s) /\ Moved(c)' = Moved(c) /\ Live(s)' = Live(s)
        /\ s \in Conns
    BY <1>1, <1>2, SumsKept, Peers DEF Gain, Shown, Live
  <2>2. ~WillRead(c)' /\ ~WillSkip(c)'
    BY <1>2 DEF WillRead, WillSkip
  <2>3. PICK r \in At(TupleOf[c]) :
           /\ Counted(c)' = Counted(c) + Gain(r)
           /\ \A d \in At(TupleOf[c]) \cap DOMAIN result : d = r
    BY <1>1, CountedStep
  <2>4. /\ r \in Conns /\ At(TupleOf[r]) = At(TupleOf[c])
        /\ Counted(r) = Counted(c) /\ Moved(r) = Moved(c)
    <3>1. r \in Conns /\ TupleOf[r] = TupleOf[c]
      BY Peers
    <3> QED BY <3>1 DEF Counted, Moved
  <2>5. Covered(r, s)
    BY <2>4, Pairs
  <2>6. Counted(c) \in Nat /\ Moved(c) \in Nat /\ Gain(r) \in Nat
    BY <2>4, Numbers
  <2>7. Counted(c)' + Gain(c)' <= Moved(c)'
    BY <2>1, <2>3, <2>4, <2>5, <2>6 DEF Covered
  <2>8. ASSUME c \in DOMAIN uploads', Live(s)
        PROVE  Counted(c)' + computeDelta(Base(c)', Shown(s)) <= Moved(c)
    <3>1. c \in DOMAIN result /\ Base(c)' = Reading(c)
      BY <2>8, <1>1, ApplyEffect DEF Base
    <3>2. c = r
      BY <2>3, <3>1, Peers
    <3> QED BY <2>3, <2>5, <2>8, <3>1, <3>2 DEF Covered
  <2> QED BY <1>2, <2>1, <2>2, <2>7, <2>8 DEF Covered
<1>10. ASSUME NEW c \in Conns PROVE Published(c)'
  <2>1. Published(c) /\ (c \in DOMAIN uploads => uploads[c].cumulative \in Nat)
        /\ (c \in DOMAIN closedUploads => closedUploads[c].uploadedBytes \in Nat)
    BY Peers, Pairs DEF IInv, TrackerShape
  <2>2. ASSUME c \in DOMAIN uploads' PROVE uploads'[c].cumulative <= credited'[c]
    <3>1. \/ uploads'[c].cumulative = 0
          \/ c \in DOMAIN uploads /\ uploads'[c].cumulative = uploads[c].cumulative
          \/ c \in DOMAIN uploads /\ uploads'[c].cumulative = uploads[c].cumulative + Gain(c)
      BY <1>1, <2>2, ApplyEffect
    <3> QED BY <2>1, <1>6, <3>1 DEF Published
  <2>3. c \in DOMAIN closedUploads' => closedUploads'[c].uploadedBytes <= credited'[c]
    BY <2>1, <1>1, <1>6, ApplyEffect DEF Published
  <2> QED BY <2>2, <2>3 DEF Published
<1> QED BY <1>3, <1>4, <1>5, <1>8, <1>9, <1>10 DEF IInv

\* reset() forgets the tracked connections; what was counted stays counted.
LEMMA ResetTrackerInv ==
    ASSUME IInv, ResetTracker
    PROVE  IInv'
<1>1. /\ UNCHANGED <<monitorVars, credited>>
      /\ DOMAIN uploads' = {} /\ DOMAIN closedUploads' = {}
      /\ DOMAIN result = {} /\ DOMAIN pending = {}
  BY DEF ResetTracker, Tracker!reset, Tracker!EmptyMap, EmptyMap, IInv, CallShape, MonitorTypeOK
<1>2. MonitorTypeOK' /\ SocketShape' /\ CallShape' /\ OneRowPerTuple'
  BY <1>1 DEF monitorVars, osVars, callVars, witnessVars, IInv, MonitorTypeOK,
              SocketShape, CallShape, OneRowPerTuple, Shown, Socket, ResultRow
<1>3. TrackerShape'
  BY <1>1 DEF IInv, TrackerShape
<1>4. ASSUME NEW c \in Conns, NEW s \in At(TupleOf[c]) PROVE Covered(c, s)' /\ Published(c)'
  <2>1. /\ Gain(c) = 0 /\ Gain(c)' = 0
        /\ Moved(c)' = Moved(c) /\ Counted(c)' = Counted(c)
    BY <1>1, SumsKept DEF Gain, monitorVars, osVars, callVars
  <2>2. ~WillSkip(c)' /\ c \notin DOMAIN result'
    BY <1>1 DEF WillSkip, monitorVars, callVars
  <2>3. Covered(c, s)
    BY Pairs
  <2> QED BY <1>1, <2>1, <2>2, <2>3 DEF Covered, Published
<1> QED BY <1>2, <1>3, <1>4 DEF IInv

-----------------------------------------------------------------------------
(* The theorem.                                                            *)

\* Nothing is counted or published initially.
LEMMA InitInv == Init => IInv
<1> SUFFICES ASSUME Init PROVE IInv
  OBVIOUS
<1> USE DEF Init, MonitorInit, EmptyMap
<1>1. MonitorTypeOK
  <2>1. NoSocket \in Socket /\ Zero \in [Directions -> Nat]
    BY DEF NoSocket, Socket, Zero, States
  <2> QED BY <2>1 DEF MonitorTypeOK
<1>2. Zero[Counter] = 0
  BY CounterAssumption DEF Zero
<1>3. SocketShape
  BY <1>2 DEF SocketShape, Shown, NoSocket
<1>4. CallShape /\ OneRowPerTuple
  BY DEF CallShape, OneRowPerTuple
<1>5. TrackerShape /\ DOMAIN uploads = {} /\ DOMAIN closedUploads = {}
  BY DEF TrackerShape, Tracker!Init, Tracker!EmptyMap
<1>6. ASSUME NEW c \in Conns, NEW s \in At(TupleOf[c]) PROVE Covered(c, s) /\ Published(c)
  <2>1. PICK zeros \in [At(TupleOf[c]) -> Nat] : zeros = [d \in At(TupleOf[c]) |-> 0]
    OBVIOUS
  <2>2. SumFunction(zeros) = 0
    BY <2>1, Peers, SumNothing
  <2>3. /\ zeros = [d \in At(TupleOf[c]) |-> credited[d]]
        /\ zeros = [d \in At(TupleOf[c]) |-> traffic[d][Counter]]
    BY <1>2, <2>1, Peers
  <2>4. Counted(c) = SumFunction(zeros) /\ Moved(c) = SumFunction(zeros)
    BY <2>3, Zenon DEF Counted, Moved
  <2> QED BY <1>5, <2>2, <2>4 DEF Covered, Published, Gain, WillSkip
<1> QED BY <1>1, <1>3, <1>4, <1>5, <1>6 DEF IInv

\* Every step keeps counted bytes covered by moved bytes.
LEMMA NextInv ==
    ASSUME EstatsReliable, TuplesInOneTable, OneSocketPerTuple, IInv, [Next]_vars
    PROVE  IInv'
<1>1. CASE Next
  BY <1>1, EnvironmentInv, CollectInv, PollInv, DeliverInv, ResetTrackerInv DEF Next
<1>2. CASE UNCHANGED vars
  <2>1. UNCHANGED <<sockets, traffic, pending, result, trackerVars>>
    BY <1>2 DEF vars, monitorVars, osVars, callVars
  <2>2. MonitorTypeOK' /\ CallShape'
    BY <1>2 DEF vars, monitorVars, osVars, callVars, witnessVars, IInv, MonitorTypeOK, CallShape
  <2> QED BY <2>1, <2>2, CoverKept DEF IInv
<1> QED BY <1>1, <1>2

\* Counted bytes are covered in every state.
LEMMA CoverInvariance ==
    ASSUME EstatsReliable, TuplesInOneTable
    PROVE  Spec => []IInv
<1>1. SharedInv /\ IInv /\ [Next]_vars => IInv'
  BY NextInv DEF SharedInv
<1> QED BY <1>1, InitInv, SharedInvariance, PTL DEF Spec

\* When the counters of existing sockets can be read, and however many processes
\* take over each other's addresses and ports, the bytes counted for all of them
\* were moved by one of them, and the bytes shown were counted: a byte may be
\* shown for the wrong process, none is invented.
THEOREM AddressesCovered ==
    ASSUME EstatsReliable, TuplesInOneTable
    PROVE  Spec => []AddressesNeverOvercounted
<1>1. IInv => AddressesNeverOvercounted
  <2> SUFFICES ASSUME IInv, NEW c \in Conns
               PROVE  /\ Counted(c) <= Moved(c)
                      /\ SumFunction([d \in At(TupleOf[c]) |->
                            IF d \in DOMAIN uploads THEN uploads[d].cumulative ELSE 0]) <= Counted(c)
    BY DEF AddressesNeverOvercounted, Counted, Moved
  <2>1. Counted(c) <= Moved(c)
    <3>1. Covered(c, c) /\ Counted(c) \in Nat /\ Moved(c) \in Nat /\ Gain(c) \in Nat
      BY Peers, Pairs, Numbers
    <3> QED BY <3>1 DEF Covered
  <2>2. ASSUME NEW d \in At(TupleOf[c])
        PROVE  /\ credited[d] \in Nat
               /\ d \in DOMAIN uploads => /\ uploads[d].cumulative \in Nat
                                         /\ uploads[d].cumulative <= credited[d]
    <3>1. d \in Conns /\ d \in At(TupleOf[d])
      BY Peers
    <3>2. Published(d)
      BY <3>1, Pairs
    <3> QED BY <3>1, <3>2 DEF IInv, TrackerShape, Published
  <2>3. PICK counted \in [At(TupleOf[c]) -> Nat] : counted = [d \in At(TupleOf[c]) |-> credited[d]]
    BY <2>2
  <2>4. PICK shown \in [At(TupleOf[c]) -> Nat] :
           shown = [d \in At(TupleOf[c]) |->
                       IF d \in DOMAIN uploads THEN uploads[d].cumulative ELSE 0]
    BY <2>2
  <2>5. \A d \in At(TupleOf[c]) : shown[d] <= counted[d]
    BY <2>2, <2>3, <2>4
  <2>6. SumFunction(shown) <= SumFunction(counted)
    BY <2>5, Peers, SumMonotone
  <2>7. Counted(c) = SumFunction(counted)
    BY <2>3, Zenon DEF Counted
  <2> QED BY <2>1, <2>4, <2>6, <2>7, Zenon
<1> QED BY <1>1, CoverInvariance, PTL

\* When the counters of existing sockets can be read and connections do not
\* share addresses and ports, no byte is ever counted or shown that was not
\* moved: for any number of connections, sockets, bytes, polls and resets.
THEOREM NeverOvercountsHolds ==
    ASSUME EstatsReliable, OwnTuples
    PROVE  Spec => []NeverOvercounts
<1>1. IInv => NeverOvercounts
  <2> SUFFICES ASSUME IInv, NEW c \in Conns
               PROVE  /\ credited[c] <= traffic[c][Counter]
                      /\ c \in DOMAIN uploads => uploads[c].cumulative <= credited[c]
                      /\ c \in DOMAIN closedUploads => closedUploads[c].uploadedBytes <= credited[c]
    BY DEF NeverOvercounts
  <2>1. /\ Counted(c) \in Nat /\ Moved(c) \in Nat /\ Gain(c) \in Nat /\ credited[c] \in Nat
        /\ Covered(c, c) /\ Published(c)
    BY Numbers, Peers, Pairs
  <2>2. At(TupleOf[c]) = {c} /\ traffic[c][Counter] \in Nat
    BY CounterAssumption DEF OwnTuples, At, IInv, MonitorTypeOK
  <2>3. PICK counted \in [{c} -> Nat] : counted = [d \in {c} |-> credited[d]]
    BY <2>1
  <2>4. PICK moved \in [{c} -> Nat] : moved = [d \in {c} |-> traffic[d][Counter]]
    BY <2>2
  <2>5. SumFunction(counted) = credited[c] /\ SumFunction(moved) = traffic[c][Counter]
    BY <2>3, <2>4, SumSingle
  <2>6. Counted(c) = SumFunction(counted) /\ Moved(c) = SumFunction(moved)
    BY <2>2, <2>3, <2>4, Zenon DEF Counted, Moved
  <2> QED BY <2>1, <2>5, <2>6 DEF Covered, Published
<1>2. TuplesInOneTable
  BY DEF OwnTuples, TuplesInOneTable
<1> QED BY <1>1, <1>2, CoverInvariance, PTL

-----------------------------------------------------------------------------
(* Types, and what is tracked.  Neither condition is needed here.          *)

PipelineTyped == MonitorInv /\ Tracker!TypeOK /\ credited \in [Conns -> Nat]

\* An update with the collected rows keeps the tracker's maps typed.
LEMMA DeliverTyped ==
    ASSUME PipelineTyped, Deliver
    PROVE  Tracker!TypeOK' /\ credited' \in [Conns -> Nat]
<1>1. /\ uploads' = Tracker!NextActive(result, now)
      /\ closedUploads' =
            Tracker!Put(closedUploads,
                        [k \in Tracker!Closing(result) |-> Tracker!toStats(uploads[k], FALSE)])
      /\ seeded' = TRUE
      /\ session' = Tracker!NextSession(result)
  BY DEF Deliver, Tracker!Apply
<1>2. DOMAIN uploads' = DOMAIN result /\ DOMAIN result \subseteq Conns
  BY <1>1 DEF Tracker!NextActive, PipelineTyped, MonitorInv, MonitorTypeOK
<1>3. ASSUME NEW c \in DOMAIN result
      PROVE  /\ result[c].conn = c /\ result[c].name = NoName
             /\ result[c].bytes[Counter] \in Nat
             /\ Tracker!ObservedAt(result[c], now) \in Nat
  <2>1. result[c] \in ResultRow /\ now \in Nat /\ result[c].conn = c
    BY MonitorAssumption DEF PipelineTyped, MonitorInv, MonitorTypeOK, RowsKeyed
  <2>2. result[c].timestamp \in Nat
    BY <2>1, MonitorAssumption DEF ResultRow
  <2> QED BY <2>1, <2>2, CounterAssumption DEF ResultRow, Tracker!ObservedAt
<1>4. ASSUME NEW c \in DOMAIN uploads
      PROVE  /\ uploads[c] \in Tracker!TrackedUpload
             /\ uploads[c].baseline \in Nat /\ uploads[c].cumulative \in Nat
             /\ session[c] \in [origin : Nat, lost : Nat]
  BY DEF PipelineTyped, Tracker!TypeOK, Tracker!TrackedUpload
<1>5. ASSUME NEW c \in DOMAIN result
      PROVE  uploads'[c] \in Tracker!TrackedUpload
  <2>1. CASE c \in DOMAIN uploads
    <3>1. uploads'[c] = Tracker!KeepTracking(result[c], now)
      BY <2>1, <1>1 DEF Tracker!NextActive
    <3>2. Tracker!computeDelta(uploads[c].baseline, result[c].bytes[Counter]) \in Nat
      BY <2>1, <1>3, <1>4 DEF Tracker!computeDelta
    <3> QED BY <2>1, <3>1, <3>2, <1>3, <1>4
            DEF Tracker!KeepTracking, Tracker!makeKey, Tracker!TrackedUpload
  <2>2. CASE c \notin DOMAIN uploads
    BY <2>2, <1>1, <1>3 DEF Tracker!NextActive, Tracker!StartTracking, Tracker!TrackedUpload
  <2> QED BY <2>1, <2>2
<1>6. ASSUME NEW c \in DOMAIN result
      PROVE  session'[c] \in [origin : Nat, lost : Nat]
  BY <1>1, <1>3, <1>4 DEF Tracker!NextSession
<1>7. /\ DOMAIN closedUploads' \subseteq Conns
      /\ closedUploads' \in [DOMAIN closedUploads' -> Tracker!UploadStats]
  <2>1. \A c \in Tracker!Closing(result) : Tracker!toStats(uploads[c], FALSE) \in Tracker!UploadStats
    BY <1>4 DEF Tracker!Closing, Tracker!TrackedUpload, Tracker!toStats, Tracker!UploadStats
  <2>2. Tracker!Closing(result) \subseteq Conns
    BY DEF Tracker!Closing, PipelineTyped, Tracker!TypeOK
  <2> QED BY <1>1, <2>1, <2>2 DEF Tracker!Put, PipelineTyped, Tracker!TypeOK
<1>8. /\ uploads' \in [DOMAIN uploads' -> Tracker!TrackedUpload]
      /\ session' \in [DOMAIN uploads' -> [origin : Nat, lost : Nat]]
  BY <1>1, <1>2, <1>5, <1>6 DEF Tracker!NextActive, Tracker!NextSession
<1>9. Tracker!TypeOK'
  <2>1. seeded' \in BOOLEAN
    BY <1>1
  <2> QED BY <1>2, <1>7, <1>8, <2>1 DEF Tracker!TypeOK
<1>10. \A c \in Conns : Gain(c) \in Nat
  BY <1>3, <1>4, DeltaBounds DEF Gain
<1> QED BY <1>9, <1>10 DEF Deliver, PipelineTyped

\* Every step keeps types, and the collection's own invariant.
LEMMA TypedStep ==
    ASSUME PipelineTyped, [Next]_vars
    PROVE  PipelineTyped'
<1>1. [MonitorNext]_monitorVars
  BY PollsTransfers
     DEF Next, Environment, Collect, Poll, Deliver, ResetTracker, MonitorNext, vars
<1>2. MonitorInv'
  BY <1>1, MonitorStepKeeps DEF PipelineTyped
<1>3. CASE UNCHANGED trackerVars
  BY <1>2, <1>3 DEF trackerVars, PipelineTyped, Tracker!TypeOK
<1>4. CASE Deliver
  BY <1>2, <1>4, DeliverTyped DEF PipelineTyped
<1>5. CASE ResetTracker
  BY <1>2, <1>5 DEF ResetTracker, Tracker!reset, Tracker!TypeOK, Tracker!EmptyMap, PipelineTyped
<1> QED BY <1>3, <1>4, <1>5 DEF Next, Environment, Collect, Poll, vars

\* Types hold in every behaviour.
LEMMA Typed == Spec => []PipelineTyped
<1>1. Init => PipelineTyped
  <2> SUFFICES ASSUME Init PROVE PipelineTyped
    OBVIOUS
  <2>1. MonitorInv /\ credited \in [Conns -> Nat]
    BY MonitorInitKeeps DEF Init
  <2>2. seeded \in BOOLEAN
    BY DEF Init, Tracker!Init
  <2>3. Tracker!TypeOK
    BY <2>2 DEF Init, Tracker!Init, Tracker!TypeOK, Tracker!EmptyMap
  <2> QED BY <2>1, <2>3 DEF PipelineTyped
<1>2. PipelineTyped /\ [Next]_vars => PipelineTyped'
  BY TypedStep
<1> QED BY <1>1, <1>2, PTL DEF Spec

\* Collector, tracker and the counted bytes keep their types whatever fails:
\* in particular no total is ever negative.
THEOREM PipelineTypeCorrect == Spec => []TypeOK
<1>1. PipelineTyped => TypeOK
  BY DEF PipelineTyped, TypeOK, MonitorInv
<1> QED BY <1>1, Typed, PTL

\* Once the rows are delivered, the tracker follows every connection that was
\* open throughout a collection whose table was read, and none that was closed
\* all the time: a failing table or unreadable counters do not change that.
THEOREM TrackedExactlyTheSeen == Spec => TrackedMeansSeen
<1> DEFINE Step == phase = "done" /\ phase' = "idle" =>
                     /\ DOMAIN uploads' \subseteq seenOpen
                     /\ {c \in openThroughout : TableOf[c] \notin failedTables}
                            \subseteq DOMAIN uploads'
<1>1. PipelineTyped /\ [Next]_vars => [Step]_vars
  <2> SUFFICES ASSUME PipelineTyped, Next, phase = "done", phase' = "idle" PROVE Step
    OBVIOUS
  <2>1. Deliver
    <3>1. ~Environment
      BY DEF Environment, OsStep, Open, ChangeState, Close, Transfer, callVars
    <3>2. ~Collect /\ ~Poll /\ ~ResetTracker
      BY DEF Collect, CollectStep, QuerySize, QueryFails, Fetch, FetchFails, SkipEstats,
             EnableEstats, ReadEstats, EstatsFails, BetweenRows, Poll, Begin, ResetTracker
    <3> QED BY <3>1, <3>2 DEF Next
  <2>2. DOMAIN uploads' = DOMAIN result
    BY <2>1 DEF Deliver, Tracker!Apply, Tracker!NextActive
  <2>3. DOMAIN result \subseteq seenOpen
    BY DEF PipelineTyped, MonitorInv, NoPhantomRows
  <2>4. CompleteUnlessFailed
    BY MonitorInvComplete DEF PipelineTyped
  <2> QED BY <2>2, <2>3, <2>4 DEF CompleteUnlessFailed
<1> QED BY <1>1, Typed, PTL DEF Spec, TrackedMeansSeen

=============================================================================
