------------------------ MODULE NetworkMonitorProofs ------------------------
(***************************************************************************)
(* What a collection returns, for every number of connections and however  *)
(* sockets open and close between the collector's calls: everything that   *)
(* was open during the whole collection and whose table could be read, and *)
(* nothing that was not open at some time during it.                       *)
(***************************************************************************)
EXTENDS NetworkMonitor, FiniteSetTheorems, TLAPS

-----------------------------------------------------------------------------
(* The inductive invariant.                                                *)

\* The collection has left the table of c behind.
Passed(c) == \E i \in 1..4 : TableOf[c] = Tables[i] /\ i < table

\* Between two collections there is nothing; the last table ends one.
LoopShape ==
    /\ phase = "idle" => table = 1 /\ result = EmptyMap
    /\ phase = "done" <=> table = 5

\* The witnesses follow the sockets.
WitnessShape ==
    phase # "idle" => openThroughout \subseteq OpenConns /\ OpenConns \subseteq seenOpen

\* A connection that has been open all along is in the result once its table
\* is behind, and in the rows being completed while its table is.
Accounted(c) ==
    /\ Passed(c) => c \in DOMAIN result \/ TableOf[c] \in failedTables
    /\ phase = "rows" /\ TableOf[c] = Tables[table] => c \in DOMAIN pending \cup DOMAIN result

\* Every row is filed under the connection it is about.
RowsKeyed == \A c \in DOMAIN result : result[c].conn = c

MonitorInv ==
    /\ MonitorTypeOK
    /\ LoopShape
    /\ RowsKeyed
    /\ WitnessShape
    /\ NoPhantomRows
    /\ \A c \in openThroughout : Accounted(c)

-----------------------------------------------------------------------------
(* Facts used throughout.                                                  *)

\* The four tables are different.
LEMMA TablesDiffer ==
    ASSUME NEW i \in 1..4, NEW j \in 1..4, Tables[i] = Tables[j]
    PROVE  i = j
<1>1. /\ Tables[1] = "tcp4" /\ Tables[2] = "tcp6"
      /\ Tables[3] = "udp4" /\ Tables[4] = "udp6"
  BY DEF Tables
<1>2. /\ i = 1 \/ i = 2 \/ i = 3 \/ i = 4
      /\ j = 1 \/ j = 2 \/ j = 3 \/ j = 4
  OBVIOUS
<1> QED BY <1>1, <1>2

\* A table's size is a natural number.
LEMMA SizeIsNat ==
    ASSUME NEW t
    PROVE  Cardinality(InTable(t)) \in Nat
<1>1. InTable(t) \subseteq Conns
  BY DEF InTable, OpenConns
<1>2. IsFiniteSet(InTable(t))
  BY <1>1, MonitorAssumption, FS_Subset
<1> QED BY <1>2, FS_CardinalityType

\* Leaving table i leads to table i + 1, or out of the loop after the last one.
LEMMA NextTableEffect ==
    ASSUME MonitorTypeOK, phase \in {"query", "fetch", "rows"}, NextTable
    PROVE  /\ table \in 1..4 /\ table' = table + 1 /\ size' = 0
           /\ phase' \in {"query", "done"}
           /\ phase' = "query" => table' \in 1..4
           /\ phase' = "done" <=> table' = 5
  BY DEF MonitorTypeOK, NextTable, Tables

\* Rows with the counters given are rows, and nothing else changes in a map of
\* rows they are put into.
LEMMA RowsPut ==
    ASSUME MonitorTypeOK, NEW rows \in SUBSET Conns, NEW bytes \in [Directions -> Nat],
           result' = Put(result, [c \in rows |-> MakeRow(c, bytes)])
    PROVE  /\ DOMAIN result' = DOMAIN result \cup rows
           /\ DOMAIN result' \subseteq Conns
           /\ result' \in [DOMAIN result' -> ResultRow]
           /\ \A c \in rows : result'[c] = MakeRow(c, bytes)
           /\ \A c \in DOMAIN result \ rows : result'[c] = result[c]
<1>1. /\ DOMAIN result' = DOMAIN result \cup rows
      /\ \A c \in rows : result'[c] = MakeRow(c, bytes)
      /\ \A c \in DOMAIN result \ rows : result'[c] = result[c]
      /\ result' = [c \in DOMAIN result' |-> result'[c]]
  BY DEF Put
<1>2. DOMAIN result' \subseteq Conns
  BY <1>1 DEF MonitorTypeOK
<1>3. ASSUME NEW c \in rows PROVE MakeRow(c, bytes) \in ResultRow
  BY DEF MonitorTypeOK, MakeRow, ResultRow
<1>4. \A c \in DOMAIN result' : result'[c] \in ResultRow
  BY <1>1, <1>3 DEF MonitorTypeOK
<1> QED BY <1>1, <1>2, <1>4

-----------------------------------------------------------------------------
(* Typing.                                                                 *)

\* Sockets stay sockets, and the collector's variables are its own.
LEMMA OsStepTyped ==
    ASSUME MonitorTypeOK, OsStep
    PROVE  MonitorTypeOK'
<1>1. ASSUME NEW o \in Conns, Open(o) PROVE MonitorTypeOK'
  <2>1. [NoSocket EXCEPT !.state = IF TableOf[o] \in Tcp THEN "SYN_SENT" ELSE "LISTENING"] \in Socket
    BY DEF Socket, NoSocket, Zero, States
  <2>2. sockets' \in [Conns -> Socket] /\ opens' \in [Conns -> Nat] /\ seenOpen' \subseteq Conns
    BY <1>1, <2>1 DEF Open, MonitorTypeOK
  <2> QED BY <1>1, <2>2 DEF Open, MonitorTypeOK, callVars
<1>2. ASSUME NEW o \in Conns, NEW s \in States, ChangeState(o, s) PROVE MonitorTypeOK'
  <2>1. sockets' \in [Conns -> Socket]
    BY <1>2 DEF ChangeState, MonitorTypeOK, Socket
  <2> QED BY <1>2, <2>1 DEF ChangeState, MonitorTypeOK, callVars, witnessVars
<1>3. ASSUME NEW o \in Conns, Close(o) PROVE MonitorTypeOK'
  <2>1. NoSocket \in Socket
    BY DEF Socket, NoSocket, Zero, States
  <2>2. sockets' \in [Conns -> Socket] /\ openThroughout' \subseteq Conns
    BY <1>3, <2>1 DEF Close, MonitorTypeOK
  <2> QED BY <1>3, <2>2 DEF Close, MonitorTypeOK, callVars
<1>4. ASSUME NEW o \in Conns, NEW d \in Directions, Transfer(o, d) PROVE MonitorTypeOK'
  <2>1. sockets \in [Conns -> Socket] /\ traffic \in [Conns -> [Directions -> Nat]]
    BY DEF MonitorTypeOK
  <2>2. traffic' \in [Conns -> [Directions -> Nat]]
    BY <1>4, <2>1 DEF Transfer
  <2>3. sockets[o] \in Socket /\ sockets[o].bytes \in [Directions -> Nat]
    BY <2>1 DEF Socket
  <2>4. [sockets[o].bytes EXCEPT ![d] = @ + 1] \in [Directions -> Nat]
    BY <2>3
  <2>5. [sockets[o] EXCEPT !.bytes = [sockets[o].bytes EXCEPT ![d] = @ + 1]] \in Socket
    BY <2>3, <2>4 DEF Socket
  <2>6. sockets' \in [Conns -> Socket]
    BY <1>4, <2>1, <2>5 DEF Transfer
  <2> QED BY <1>4, <2>2, <2>6 DEF Transfer, MonitorTypeOK, callVars, witnessVars
<1> QED BY <1>1, <1>2, <1>3, <1>4 DEF OsStep

\* A row is completed.
LEMMA AddRowTyped ==
    ASSUME MonitorTypeOK, phase = "rows", NEW o \in DOMAIN pending,
           NEW bytes \in [Directions -> Nat], AddRow(o, bytes), UNCHANGED sockets
    PROVE  MonitorTypeOK'
<1>1. /\ UNCHANGED <<kind, now, opens, traffic, openThroughout, seenOpen, failedTables>>
      /\ result' = Put(result, [d \in {o} |-> MakeRow(d, bytes)])
      /\ pending' = [d \in DOMAIN pending \ {o} |-> pending[d]]
  BY DEF AddRow, witnessVars
<1>2. DOMAIN result' \subseteq Conns /\ result' \in [DOMAIN result' -> ResultRow]
  <2>1. {o} \in SUBSET Conns
    BY DEF MonitorTypeOK
  <2> QED BY <1>1, <2>1, RowsPut
<1>3. /\ DOMAIN pending' = DOMAIN pending \ {o}
      /\ pending' \in [DOMAIN pending' -> States \cup {"enabled"}]
      /\ DOMAIN pending' \subseteq Conns
  BY <1>1 DEF MonitorTypeOK
<1>4. CASE DOMAIN pending = {o}
  <2>1. NextTable
    BY <1>4 DEF AddRow
  <2>2. /\ table' \in 1..5 /\ size' = 0 /\ phase' \in {"query", "done"}
        /\ phase' = "query" => table' \in 1..4
    BY <2>1, NextTableEffect
  <2> QED BY <1>1, <1>2, <1>3, <1>4, <2>2 DEF MonitorTypeOK
<1>5. CASE DOMAIN pending # {o}
  <2>1. UNCHANGED <<phase, table, size>>
    BY <1>5 DEF AddRow
  <2> QED BY <1>1, <1>2, <1>3, <1>5, <2>1 DEF MonitorTypeOK
<1> QED BY <1>4, <1>5

\* A table is left without rows.
LEMMA SkipTableTyped ==
    ASSUME MonitorTypeOK, QueryFails \/ FetchFails
    PROVE  MonitorTypeOK'
<1>1. /\ UNCHANGED <<sockets, opens, traffic, pending, result, kind, now, openThroughout, seenOpen>>
      /\ phase \in {"query", "fetch"}
      /\ NextTable
      /\ failedTables' = failedTables \cup {Tables[table]}
  BY DEF QueryFails, FetchFails, osVars
<1>2. /\ table \in 1..4 /\ table' \in 1..5 /\ size' = 0 /\ phase' \in {"query", "done"}
      /\ phase' = "query" => table' \in 1..4
  BY <1>1, NextTableEffect
<1> QED BY <1>1, <1>2 DEF MonitorTypeOK

\* The rows of a table are fetched.
LEMMA FetchTyped ==
    ASSUME MonitorTypeOK, Fetch
    PROVE  MonitorTypeOK'
<1> DEFINE rows == InTable(Tables[table])
<1>1. /\ phase = "fetch"
      /\ UNCHANGED <<sockets, opens, traffic, kind, now, openThroughout, seenOpen, failedTables>>
  BY DEF Fetch, osVars, witnessVars
<1>2. rows \in SUBSET Conns /\ DOMAIN pending = {} /\ table \in 1..4
  BY <1>1 DEF InTable, OpenConns, MonitorTypeOK
<1>3. CASE /\ rows # {} /\ pending' = [c \in rows |-> sockets[c].state] /\ phase' = "rows"
           /\ UNCHANGED <<table, size, result>>
  <2>1. pending' \in [rows -> States \cup {"enabled"}]
    BY <1>2, <1>3 DEF MonitorTypeOK, Socket
  <2> QED BY <1>1, <1>2, <1>3, <2>1 DEF MonitorTypeOK
<1>4. CASE result' = AppendRows(rows) /\ NextTable /\ UNCHANGED pending
  <2>1. /\ table' \in 1..5 /\ size' = 0 /\ phase' \in {"query", "done"}
        /\ phase' = "query" => table' \in 1..4
    BY <1>1, <1>4, NextTableEffect
  <2>2. Zero \in [Directions -> Nat]
    BY DEF Zero
  <2>3. DOMAIN result' \subseteq Conns /\ result' \in [DOMAIN result' -> ResultRow]
    BY <1>2, <1>4, <2>2, RowsPut DEF AppendRows
  <2> QED BY <1>1, <1>2, <1>4, <2>1, <2>3 DEF MonitorTypeOK
<1> QED BY <1>3, <1>4 DEF Fetch

\* Counting is switched on.
LEMMA EnableEstatsTyped ==
    ASSUME MonitorTypeOK, NEW o \in Conns, EnableEstats(o)
    PROVE  MonitorTypeOK'
<1>1. /\ UNCHANGED <<opens, traffic, phase, kind, now, table, size, result>>
      /\ UNCHANGED <<openThroughout, seenOpen, failedTables>>
      /\ pending' = [pending EXCEPT ![o] = "enabled"]
      /\ o \in DOMAIN pending
  BY DEF EnableEstats, witnessVars
<1>2. pending' \in [DOMAIN pending' -> States \cup {"enabled"}] /\ DOMAIN pending' = DOMAIN pending
  BY <1>1 DEF MonitorTypeOK
<1>3. sockets' \in [Conns -> Socket]
  <2>1. CASE sockets' = sockets
    BY <2>1 DEF MonitorTypeOK
  <2>2. ASSUME NEW d \in Conns, sockets' = [sockets EXCEPT ![d].collecting = TRUE]
        PROVE  sockets' \in [Conns -> Socket]
    <3>1. [sockets[d] EXCEPT !.collecting = TRUE] \in Socket
      BY DEF MonitorTypeOK, Socket
    <3> QED BY <2>2, <3>1 DEF MonitorTypeOK
  <2> QED BY <2>1, <2>2 DEF EnableEstats, SocketsAt, OpenConns
<1> QED BY <1>1, <1>2, <1>3 DEF MonitorTypeOK

\* No call of the collector leaves its variables' types.
LEMMA CollectStepTyped ==
    ASSUME MonitorTypeOK, CollectStep
    PROVE  MonitorTypeOK'
<1>1. CASE QuerySize
  <2>1. size' \in Nat
    BY <1>1, SizeIsNat DEF QuerySize
  <2> QED BY <1>1, <2>1 DEF QuerySize, MonitorTypeOK, osVars, witnessVars
<1>2. Zero \in [Directions -> Nat]
  BY DEF Zero
<1>3. ASSUME NEW c \in Conns, SkipEstats(c) PROVE MonitorTypeOK'
  BY <1>2, <1>3, AddRowTyped DEF SkipEstats, BetweenRows
<1>4. ASSUME NEW c \in Conns, NEW d \in Conns, ReadEstats(c, d) PROVE MonitorTypeOK'
  <2>1. sockets[d].bytes \in [Directions -> Nat]
    BY DEF MonitorTypeOK, Socket
  <2> QED BY <1>4, <2>1, AddRowTyped DEF ReadEstats
<1>5. ASSUME NEW c \in Conns, EstatsFails(c) PROVE MonitorTypeOK'
  BY <1>2, <1>5, AddRowTyped DEF EstatsFails
<1> QED BY <1>1, <1>3, <1>4, <1>5, SkipTableTyped, FetchTyped, EnableEstatsTyped DEF CollectStep

\* A collection begins at the first table.
LEMMA BeginTyped ==
    ASSUME MonitorTypeOK, phase = "idle" => table = 1, NEW k \in Kinds, Begin(k)
    PROVE  MonitorTypeOK'
<1>1. /\ UNCHANGED <<sockets, opens, traffic, table, size, pending, result, failedTables>>
      /\ phase = "idle" /\ phase' = "query" /\ kind' = k /\ now' \in Clock
      /\ openThroughout' = OpenConns /\ seenOpen' = OpenConns
  BY DEF Begin, osVars
<1>2. OpenConns \subseteq Conns
  BY DEF OpenConns
<1> QED BY <1>1, <1>2 DEF MonitorTypeOK

\* The caller takes the rows.
LEMMA ReturnTyped ==
    ASSUME MonitorTypeOK, Return
    PROVE  MonitorTypeOK'
<1>1. /\ UNCHANGED <<sockets, opens, traffic, kind, now, size, pending>>
      /\ phase = "done" /\ phase' = "idle" /\ table' = 1 /\ result' = EmptyMap
      /\ openThroughout' = {} /\ seenOpen' = {} /\ failedTables' = {}
  BY DEF Return, osVars
<1>2. DOMAIN result' = {} /\ result' \in [DOMAIN result' -> ResultRow]
  BY <1>1 DEF EmptyMap
<1> QED BY <1>1, <1>2 DEF MonitorTypeOK

\* Initially there are no sockets and no rows.
LEMMA MonitorInitTyped == MonitorInit => MonitorTypeOK
<1>1. NoSocket \in Socket /\ Zero \in [Directions -> Nat]
  BY DEF NoSocket, Socket, Zero, States
<1> QED BY <1>1 DEF MonitorInit, MonitorTypeOK, EmptyMap

-----------------------------------------------------------------------------
(* What is accounted for.                                                  *)

\* The sockets change between the collector's calls: whoever opens is seen,
\* whoever closes is no longer expected.
LEMMA OsStepKeeps ==
    ASSUME MonitorInv, OsStep
    PROVE  MonitorInv'
<1>1. /\ UNCHANGED <<callVars, failedTables>>
      /\ openThroughout' \subseteq openThroughout
      /\ seenOpen \subseteq seenOpen'
  BY DEF OsStep, Open, ChangeState, Close, Transfer, witnessVars
<1>2. WitnessShape'
  <2>1. sockets \in [Conns -> Socket] /\ phase' = phase
    BY <1>1 DEF MonitorInv, MonitorTypeOK, callVars
  <2>2. ASSUME NEW o \in Conns, Open(o) PROVE WitnessShape'
    <3>1. OpenConns' = OpenConns \cup {o} /\ openThroughout' = openThroughout
      BY <2>1, <2>2 DEF Open, OpenConns, IsOpen, NoSocket
    <3>2. phase # "idle" => seenOpen' = seenOpen \cup {o}
      BY <2>2 DEF Open
    <3> QED BY <2>1, <3>1, <3>2 DEF MonitorInv, WitnessShape
  <2>3. ASSUME NEW o \in Conns, NEW s \in States, ChangeState(o, s) PROVE WitnessShape'
    <3>1. s # "none" /\ sockets[o].state # "none"
      BY <2>3 DEF ChangeState, TcpMoves
    <3>2. \A c \in Conns : sockets'[c].state = IF c = o THEN s ELSE sockets[c].state
      BY <2>1, <2>3 DEF ChangeState, Socket
    <3>3. OpenConns' = OpenConns
      BY <3>1, <3>2 DEF OpenConns, IsOpen
    <3> QED BY <2>1, <2>3, <3>3 DEF ChangeState, witnessVars, MonitorInv, WitnessShape
  <2>4. ASSUME NEW o \in Conns, Close(o) PROVE WitnessShape'
    <3>1. OpenConns' = OpenConns \ {o}
      BY <2>1, <2>4 DEF Close, OpenConns, IsOpen, NoSocket
    <3>2. openThroughout' = openThroughout \ {o} /\ seenOpen' = seenOpen
      BY <2>4 DEF Close
    <3> QED BY <2>1, <3>1, <3>2 DEF MonitorInv, WitnessShape
  <2>5. ASSUME NEW o \in Conns, NEW d \in Directions, Transfer(o, d) PROVE WitnessShape'
    <3>1. \A c \in Conns : sockets'[c].state = sockets[c].state
      BY <2>1, <2>5 DEF Transfer, Socket
    <3>2. OpenConns' = OpenConns
      BY <3>1 DEF OpenConns, IsOpen
    <3> QED BY <2>1, <2>5, <3>2 DEF Transfer, witnessVars, MonitorInv, WitnessShape
  <2> QED BY <2>2, <2>3, <2>4, <2>5 DEF OsStep
<1>3. LoopShape' /\ RowsKeyed' /\ NoPhantomRows'
  BY <1>1 DEF MonitorInv, LoopShape, RowsKeyed, NoPhantomRows, callVars
<1>4. \A c \in openThroughout' : Accounted(c)'
  BY <1>1 DEF MonitorInv, Accounted, Passed, callVars
<1>5. MonitorTypeOK'
  BY OsStepTyped DEF MonitorInv
<1> QED BY <1>2, <1>3, <1>4, <1>5 DEF MonitorInv

\* The open connections are the same when the sockets' states are.
LEMMA WitnessKept ==
    ASSUME MonitorInv, phase # "idle", UNCHANGED <<openThroughout, seenOpen>>,
           \A c \in Conns : sockets'[c].state = sockets[c].state
    PROVE  WitnessShape'
<1>1. OpenConns' = OpenConns
  BY DEF OpenConns, IsOpen
<1> QED BY <1>1 DEF MonitorInv, WitnessShape

\* When a table is left, its connections are accounted for: the others were
\* before.
LEMMA LeavingTable ==
    ASSUME MonitorInv, phase \in {"query", "fetch", "rows"}, NextTable,
           UNCHANGED openThroughout,
           DOMAIN result \subseteq DOMAIN result',
           failedTables \subseteq failedTables',
           \A c \in openThroughout :
               TableOf[c] = Tables[table] => c \in DOMAIN result' \/ TableOf[c] \in failedTables'
    PROVE  /\ LoopShape'
           /\ \A c \in openThroughout' : Accounted(c)'
<1>1. /\ table \in 1..4 /\ table' = table + 1 /\ phase' \in {"query", "done"}
      /\ phase' = "done" <=> table' = 5
  BY NextTableEffect DEF MonitorInv
<1>2. LoopShape'
  BY <1>1 DEF LoopShape
<1>3. ASSUME NEW c \in openThroughout, NEW i \in 1..4, TableOf[c] = Tables[i], i < table'
      PROVE  c \in DOMAIN result' \/ TableOf[c] \in failedTables'
  <2>1. CASE i = table
    BY <1>3, <2>1
  <2>2. CASE i < table
    BY <1>3, <2>2 DEF MonitorInv, Accounted, Passed
  <2> QED BY <1>1, <1>3, <2>1, <2>2
<1>4. ASSUME NEW c \in openThroughout PROVE Accounted(c)'
  <2>1. Passed(c)' => \E i \in 1..4 : TableOf[c] = Tables[i] /\ i < table'
    BY DEF Passed
  <2> QED BY <1>1, <1>3, <2>1 DEF Accounted
<1> QED BY <1>2, <1>4

\* A table that cannot be read excuses its connections, and no others.
LEMMA SkipTableKeeps ==
    ASSUME MonitorInv, QueryFails \/ FetchFails
    PROVE  MonitorInv'
<1>1. /\ UNCHANGED <<sockets, pending, result, openThroughout, seenOpen>>
      /\ phase \in {"query", "fetch"}
      /\ NextTable
      /\ failedTables' = failedTables \cup {Tables[table]}
  BY DEF QueryFails, FetchFails, osVars
<1>2. LoopShape' /\ \A c \in openThroughout' : Accounted(c)'
  BY <1>1, LeavingTable
<1>3. WitnessShape' /\ RowsKeyed' /\ NoPhantomRows'
  BY <1>1, WitnessKept DEF MonitorInv, RowsKeyed, NoPhantomRows
<1>4. MonitorTypeOK'
  BY SkipTableTyped DEF MonitorInv
<1> QED BY <1>2, <1>3, <1>4 DEF MonitorInv

\* The rows of a table are those of the sockets open now: whoever was open all
\* along is among them, and all of them have been seen.
LEMMA FetchKeeps ==
    ASSUME MonitorInv, Fetch
    PROVE  MonitorInv'
<1> DEFINE rows == InTable(Tables[table])
<1>1. phase = "fetch" /\ UNCHANGED <<sockets, openThroughout, seenOpen, failedTables>>
  BY DEF Fetch, osVars, witnessVars
<1>2. /\ rows \in SUBSET Conns /\ rows \subseteq seenOpen
      /\ \A c \in openThroughout : TableOf[c] = Tables[table] => c \in rows
      /\ table \in 1..4 /\ DOMAIN pending = {}
  BY <1>1 DEF InTable, OpenConns, MonitorInv, MonitorTypeOK, WitnessShape
<1>3. WitnessShape'
  BY <1>1, WitnessKept
<1>4. MonitorTypeOK'
  BY FetchTyped DEF MonitorInv
<1> HIDE DEF rows
<1>5. CASE /\ rows # {} /\ pending' = [c \in rows |-> sockets[c].state] /\ phase' = "rows"
           /\ UNCHANGED <<table, size, result>>
  <2>1. DOMAIN pending' = rows
    BY <1>5
  <2>2. LoopShape' /\ RowsKeyed' /\ NoPhantomRows'
    BY <1>1, <1>2, <1>5, <2>1 DEF MonitorInv, LoopShape, RowsKeyed, NoPhantomRows
  <2>3. \A c \in openThroughout' : Accounted(c)'
    BY <1>1, <1>2, <1>5, <2>1 DEF MonitorInv, Accounted, Passed
  <2> QED BY <1>3, <1>4, <2>2, <2>3 DEF MonitorInv
<1>6. CASE result' = AppendRows(rows) /\ NextTable /\ UNCHANGED pending
  <2>1. DOMAIN result' = DOMAIN result \cup rows /\ RowsKeyed'
    BY <1>6 DEF AppendRows, Put, MakeRow, MonitorInv, RowsKeyed
  <2>2. LoopShape' /\ \A c \in openThroughout' : Accounted(c)'
    BY <1>1, <1>2, <1>6, <2>1, LeavingTable
  <2>3. NoPhantomRows'
    BY <1>1, <1>2, <1>6, <2>1 DEF MonitorInv, NoPhantomRows
  <2> QED BY <1>3, <1>4, <2>1, <2>2, <2>3 DEF MonitorInv
<1> QED BY <1>5, <1>6 DEF Fetch, rows

\* A row that waited for its counters is moved to the result.
LEMMA AddRowKeeps ==
    ASSUME MonitorInv, phase = "rows", NEW o \in DOMAIN pending,
           NEW bytes \in [Directions -> Nat], AddRow(o, bytes), UNCHANGED sockets
    PROVE  MonitorInv'
<1>1. /\ UNCHANGED <<openThroughout, seenOpen, failedTables>>
      /\ result' = Put(result, [d \in {o} |-> MakeRow(o, bytes)])
      /\ pending' = [d \in DOMAIN pending \ {o} |-> pending[d]]
  BY DEF AddRow, witnessVars
<1>2. DOMAIN result' = DOMAIN result \cup {o} /\ DOMAIN pending' = DOMAIN pending \ {o}
  BY <1>1 DEF Put
<1>3. WitnessShape'
  BY <1>1, WitnessKept
<1>4. MonitorTypeOK'
  BY AddRowTyped DEF MonitorInv
<1>5. RowsKeyed' /\ NoPhantomRows'
  BY <1>1, <1>2 DEF MonitorInv, RowsKeyed, NoPhantomRows, Put, MakeRow
<1>6. CASE DOMAIN pending = {o}
  <2>1. NextTable
    BY <1>6 DEF AddRow
  <2>2. \A c \in openThroughout : TableOf[c] = Tables[table] => c \in DOMAIN result'
    BY <1>2, <1>6 DEF MonitorInv, Accounted
  <2>3. LoopShape' /\ \A c \in openThroughout' : Accounted(c)'
    BY <1>1, <1>2, <2>1, <2>2, LeavingTable
  <2> QED BY <1>3, <1>4, <1>5, <2>3 DEF MonitorInv
<1>7. CASE DOMAIN pending # {o}
  <2>1. UNCHANGED <<phase, table>>
    BY <1>7 DEF AddRow
  <2>2. LoopShape'
    BY <2>1 DEF MonitorInv, LoopShape
  <2>3. \A c \in openThroughout' : Accounted(c)'
    BY <1>1, <1>2, <2>1 DEF MonitorInv, Accounted, Passed
  <2> QED BY <1>3, <1>4, <1>5, <2>2, <2>3 DEF MonitorInv
<1> QED BY <1>6, <1>7

\* Switching counting on opens and closes nothing.
LEMMA EnableEstatsKeeps ==
    ASSUME MonitorInv, NEW o \in Conns, EnableEstats(o)
    PROVE  MonitorInv'
<1>1. /\ UNCHANGED <<phase, table, result, openThroughout, seenOpen, failedTables>>
      /\ phase = "rows" /\ pending' = [pending EXCEPT ![o] = "enabled"]
  BY DEF EnableEstats, BetweenRows, witnessVars
<1>2. DOMAIN pending' = DOMAIN pending
  BY <1>1
<1>3. \A c \in Conns : sockets'[c].state = sockets[c].state
  <2>1. sockets \in [Conns -> Socket]
    BY DEF MonitorInv, MonitorTypeOK
  <2> QED BY <2>1 DEF EnableEstats, SocketsAt, OpenConns, Socket
<1>4. WitnessShape'
  BY <1>1, <1>3, WitnessKept
<1>5. LoopShape' /\ RowsKeyed' /\ NoPhantomRows' /\ \A c \in openThroughout' : Accounted(c)'
  BY <1>1, <1>2 DEF MonitorInv, LoopShape, RowsKeyed, NoPhantomRows, Accounted, Passed
<1>6. MonitorTypeOK'
  BY EnableEstatsTyped DEF MonitorInv
<1> QED BY <1>4, <1>5, <1>6 DEF MonitorInv

\* Every call of the collector keeps the account.
LEMMA CollectStepKeeps ==
    ASSUME MonitorInv, CollectStep
    PROVE  MonitorInv'
<1>1. CASE QuerySize
  <2>1. /\ UNCHANGED <<sockets, table, pending, result, openThroughout, seenOpen, failedTables>>
        /\ phase = "query" /\ phase' = "fetch"
    BY <1>1 DEF QuerySize, osVars, witnessVars
  <2>2. LoopShape' /\ RowsKeyed' /\ NoPhantomRows' /\ \A c \in openThroughout' : Accounted(c)'
    BY <2>1 DEF MonitorInv, LoopShape, RowsKeyed, NoPhantomRows, Accounted, Passed
  <2>3. MonitorTypeOK'
    BY <1>1, CollectStepTyped DEF MonitorInv
  <2> QED BY <2>1, <2>2, <2>3, WitnessKept DEF MonitorInv
<1>2. Zero \in [Directions -> Nat]
  BY DEF Zero
<1>3. ASSUME NEW c \in Conns, SkipEstats(c) PROVE MonitorInv'
  BY <1>2, <1>3, AddRowKeeps DEF SkipEstats, BetweenRows
<1>4. ASSUME NEW c \in Conns, NEW d \in Conns, ReadEstats(c, d) PROVE MonitorInv'
  <2>1. sockets[d].bytes \in [Directions -> Nat]
    BY DEF MonitorInv, MonitorTypeOK, Socket
  <2> QED BY <1>4, <2>1, AddRowKeeps DEF ReadEstats
<1>5. ASSUME NEW c \in Conns, EstatsFails(c) PROVE MonitorInv'
  BY <1>2, <1>5, AddRowKeeps DEF EstatsFails
<1> QED BY <1>1, <1>3, <1>4, <1>5, SkipTableKeeps, FetchKeeps, EnableEstatsKeeps DEF CollectStep

\* A collection begins with every table ahead of it.
LEMMA BeginKeeps ==
    ASSUME MonitorInv, NEW k \in Kinds, Begin(k)
    PROVE  MonitorInv'
<1>1. /\ UNCHANGED <<sockets, table, pending, result, failedTables>>
      /\ phase = "idle" /\ phase' = "query"
      /\ openThroughout' = OpenConns /\ seenOpen' = OpenConns
  BY DEF Begin, osVars
<1>2. table = 1 /\ DOMAIN result = {} /\ DOMAIN pending = {}
  BY <1>1 DEF MonitorInv, MonitorTypeOK, LoopShape, EmptyMap
<1>3. OpenConns' = OpenConns
  BY <1>1 DEF OpenConns, IsOpen
<1>4. LoopShape' /\ RowsKeyed' /\ WitnessShape' /\ NoPhantomRows'
  BY <1>1, <1>2, <1>3 DEF LoopShape, RowsKeyed, WitnessShape, NoPhantomRows
<1>5. \A c \in openThroughout' : Accounted(c)'
  BY <1>1, <1>2 DEF Accounted, Passed
<1>6. MonitorTypeOK'
  BY <1>2, BeginTyped DEF MonitorInv
<1> QED BY <1>4, <1>5, <1>6 DEF MonitorInv

\* Handing the rows over leaves nothing behind.
LEMMA HandOverKeeps ==
    ASSUME MonitorInv, Return
    PROVE  MonitorInv'
<1>1. /\ pending' = pending /\ phase = "done" /\ phase' = "idle" /\ table' = 1
      /\ result' = EmptyMap /\ openThroughout' = {} /\ seenOpen' = {}
  BY DEF Return
<1>2. DOMAIN pending = {} /\ DOMAIN result' = {}
  BY <1>1 DEF MonitorInv, MonitorTypeOK, EmptyMap
<1>3. MonitorTypeOK'
  BY ReturnTyped DEF MonitorInv
<1> QED BY <1>1, <1>2, <1>3 DEF MonitorInv, LoopShape, RowsKeyed, WitnessShape, NoPhantomRows

\* The invariant holds initially.
LEMMA MonitorInitKeeps == MonitorInit => MonitorInv
  BY MonitorInitTyped
     DEF MonitorInit, MonitorInv, LoopShape, RowsKeyed, WitnessShape, NoPhantomRows, EmptyMap

\* Every step of the collector or of the operating system keeps the invariant.
LEMMA MonitorStepKeeps ==
    ASSUME MonitorInv, [MonitorNext]_monitorVars
    PROVE  MonitorInv'
<1>1. CASE UNCHANGED monitorVars
  <2>1. UNCHANGED <<sockets, opens, traffic, callVars, openThroughout, seenOpen, failedTables>>
    BY <1>1 DEF monitorVars, osVars, witnessVars
  <2>2. MonitorTypeOK'
    BY <2>1 DEF MonitorInv, MonitorTypeOK, callVars
  <2>3. LoopShape' /\ RowsKeyed' /\ WitnessShape' /\ NoPhantomRows'
    BY <2>1 DEF MonitorInv, LoopShape, RowsKeyed, WitnessShape, NoPhantomRows, OpenConns,
                IsOpen, callVars
  <2>4. \A c \in openThroughout' : Accounted(c)'
    BY <2>1 DEF MonitorInv, Accounted, Passed, callVars
  <2> QED BY <2>2, <2>3, <2>4 DEF MonitorInv
<1> QED BY <1>1, OsStepKeeps, CollectStepKeeps, HandOverKeeps, BeginKeeps DEF MonitorNext

\* What is accounted for when the last table is behind is complete.
LEMMA MonitorInvComplete == MonitorInv => CompleteUnlessFailed
<1> SUFFICES ASSUME MonitorInv, phase = "done", NEW c \in openThroughout,
                    TableOf[c] \notin failedTables
             PROVE  c \in DOMAIN result
  BY DEF CompleteUnlessFailed
<1>1. table = 5 /\ c \in Conns
  BY DEF MonitorInv, LoopShape, MonitorTypeOK
<1>2. Passed(c)
  BY <1>1, MonitorAssumption DEF Passed
<1> QED BY <1>2 DEF MonitorInv, Accounted

-----------------------------------------------------------------------------
(* The theorems.                                                           *)

\* A collection returns every connection that was open from its first call to
\* its last, unless the table of that connection could not be read: a failing
\* or growing table never costs rows of another.
THEOREM CollectionsComplete == MonitorSpec => []CompleteUnlessFailed
<1>1. MonitorInv /\ [MonitorNext]_monitorVars => MonitorInv'
  BY MonitorStepKeeps
<1> QED BY <1>1, MonitorInitKeeps, MonitorInvComplete, PTL DEF MonitorSpec

\* A collection never returns a connection that was closed all the time it ran.
THEOREM CollectionsHaveNoPhantoms == MonitorSpec => []NoPhantomRows
<1>1. MonitorInv /\ [MonitorNext]_monitorVars => MonitorInv'
  BY MonitorStepKeeps
<1>2. MonitorInv => NoPhantomRows
  BY DEF MonitorInv
<1> QED BY <1>1, <1>2, MonitorInitKeeps, PTL DEF MonitorSpec
=============================================================================
