--------------------------- MODULE NetworkMonitor ---------------------------
(***************************************************************************)
(* network::NetworkMonitor: reads the operating system's connection        *)
(* tables.  A collection is not atomic: each of the four tables is first   *)
(* asked for its size and then fetched into a buffer of that size, and     *)
(* the byte counters (ESTATS) of a TCP row are read after the row itself.  *)
(* Sockets open, move bytes and close between any two of these calls.      *)
(*                                                                         *)
(* The operating system (Windows IP Helper) is external; it is modelled    *)
(* from the calls the collector makes and the results it tests for.        *)
(***************************************************************************)
EXTENDS SnapshotRows, FiniteSets

CONSTANTS Conns,           \* connection identities (what makeKey tells apart)
          TableOf,         \* the table that lists a connection
          TupleOf,         \* its addresses and ports, without the PID
          NoName,          \* the empty process name
          Clock,           \* readings of the system clock
          Kinds,           \* the collector's operations the caller uses
          TablesReliable,  \* table queries fail only when a buffer is too small
          EstatsReliable,  \* counters are read whenever the socket exists
          MaxOpens,        \* bound: sockets ever opened per connection
          MaxBytes         \* bound: bytes ever moved per connection, for each direction

\* The order in which both collector operations visit the tables.
Tables == <<"tcp4", "tcp6", "udp4", "udp6">>

Tcp == {"tcp4", "tcp6"}

ASSUME MonitorAssumption ==
    /\ IsFiniteSet(Conns)
    /\ TableOf \in [Conns -> {Tables[i] : i \in 1..4}]
    /\ DOMAIN TupleOf = Conns
    /\ Clock \subseteq Nat \ {NoTime}
    /\ Kinds \subseteq {"connections", "transfers"}
    /\ TablesReliable \in BOOLEAN
    /\ EstatsReliable \in BOOLEAN
    /\ MaxOpens \in Nat
    /\ MaxBytes \in [Directions -> Nat]

VARIABLES sockets,    \* the operating system: connection -> socket
          opens,      \* sockets ever opened, per connection
          traffic,    \* bytes ever moved, per connection and direction
          phase,      \* where the running collection is
          kind,       \* which operation is running
          now,        \* its timestamp
          table,      \* index of the table it is at
          size,       \* rows the buffer has room for
          pending,    \* fetched TCP rows whose counters are still to be read:
                      \* connection -> state in the row, or "enabled" once
                      \* counting has been switched on for it
          result,     \* rows collected so far: connection -> row
          openThroughout,  \* history: open ever since the collection began
          seenOpen,        \* history: open at some time since then
          failedTables     \* history: tables this collection got nothing from

osVars == <<sockets, opens, traffic>>
callVars == <<phase, kind, now, table, size, pending, result>>
witnessVars == <<openThroughout, seenOpen, failedTables>>
monitorVars == <<osVars, callVars, witnessVars>>

Zero == [d \in Directions |-> 0]

States == {"none", "SYN_SENT", "ESTABLISHED", "CLOSE_WAIT", "FIN_WAIT", "LISTENING"}

Socket == [state : States, collecting : BOOLEAN, bytes : [Directions -> Nat]]

NoSocket == [state |-> "none", collecting |-> FALSE, bytes |-> Zero]

IsOpen(c) == sockets[c].state # "none"

OpenConns == {c \in Conns : IsOpen(c)}

-----------------------------------------------------------------------------
(* The operating system.                                                   *)

\* A socket is opened for c.  Two processes cannot hold the same addresses and
\* ports at once.  UDP rows have no state; the collector calls them LISTENING.
Open(c) ==
    /\ ~IsOpen(c)
    /\ opens[c] < MaxOpens
    /\ \A d \in OpenConns : TupleOf[d] # TupleOf[c]
    /\ sockets' = [sockets EXCEPT ![c] =
          [NoSocket EXCEPT !.state = IF TableOf[c] \in Tcp THEN "SYN_SENT" ELSE "LISTENING"]]
    /\ opens' = [opens EXCEPT ![c] = @ + 1]
    /\ seenOpen' = IF phase = "idle" THEN seenOpen ELSE seenOpen \cup {c}
    /\ UNCHANGED <<traffic, callVars, openThroughout, failedTables>>

TcpMoves == {<<"SYN_SENT", "ESTABLISHED">>, <<"ESTABLISHED", "CLOSE_WAIT">>,
             <<"ESTABLISHED", "FIN_WAIT">>, <<"CLOSE_WAIT", "FIN_WAIT">>}

ChangeState(c, s) ==
    /\ <<sockets[c].state, s>> \in TcpMoves
    /\ sockets' = [sockets EXCEPT ![c].state = s]
    /\ UNCHANGED <<opens, traffic, callVars, witnessVars>>

Close(c) ==
    /\ IsOpen(c)
    /\ sockets' = [sockets EXCEPT ![c] = NoSocket]
    /\ openThroughout' = openThroughout \ {c}
    /\ UNCHANGED <<opens, traffic, callVars, seenOpen, failedTables>>

\* A byte moves.  The counter sees it once collection is enabled.
Transfer(c, d) ==
    /\ sockets[c].state \in {"ESTABLISHED", "CLOSE_WAIT", "FIN_WAIT", "LISTENING"}
    /\ traffic[c][d] < MaxBytes[d]
    /\ traffic' = [traffic EXCEPT ![c][d] = @ + 1]
    /\ sockets' = IF sockets[c].collecting
                  THEN [sockets EXCEPT ![c].bytes[d] = @ + 1]
                  ELSE sockets
    /\ UNCHANGED <<opens, callVars, witnessVars>>

OsStep ==
    \E c \in Conns : \/ Open(c)
                     \/ \E s \in States : ChangeState(c, s)
                     \/ Close(c)
                     \/ \E d \in Directions : Transfer(c, d)

-----------------------------------------------------------------------------
(* The collector.                                                          *)

InTable(t) == {c \in OpenConns : TableOf[c] = t}

\* getActiveConnections ("connections") or getConnectionTransferSnapshots
\* ("transfers") is called.
Begin(k) ==
    /\ phase = "idle"
    /\ phase' = "query"
    /\ kind' = k
    /\ now' \in Clock
    /\ openThroughout' = OpenConns
    /\ seenOpen' = OpenConns
    /\ UNCHANGED <<osVars, table, size, pending, result, failedTables>>

\* The collector leaves the current table and its buffer.
NextTable ==
    /\ table' = table + 1
    /\ size' = 0
    /\ phase' = IF table = Len(Tables) THEN "done" ELSE "query"

\* First call of a collect function: how large a buffer does the table need?
QuerySize ==
    /\ phase = "query"
    /\ size' = Cardinality(InTable(Tables[table]))
    /\ phase' = "fetch"
    /\ UNCHANGED <<osVars, kind, now, table, pending, result, witnessVars>>

\* Any other answer than ERROR_INSUFFICIENT_BUFFER: the table is skipped.
QueryFails ==
    /\ phase = "query"
    /\ ~TablesReliable
    /\ failedTables' = failedTables \cup {Tables[table]}
    /\ NextTable
    /\ UNCHANGED <<osVars, kind, now, pending, result, openThroughout, seenOpen>>

MakeRow(c, bytes) == [conn |-> c, name |-> NoName, timestamp |-> now, bytes |-> bytes]

\* Fault: the loop over a table's rows stops one row short.
RowsButLast(rows) ==
    Put(result, [c \in {d \in rows : d # (CHOOSE e \in rows : TRUE)} |-> MakeRow(c, Zero)])

\* Rows without counters are appended to the result.
AppendRows(rows) == Put(result, [c \in rows |-> MakeRow(c, Zero)])

\* Second call: the rows fit the buffer.  Rows without counters are complete;
\* TCP rows of a transfer snapshot wait for theirs.
Fetch ==
    LET rows == InTable(Tables[table])
        counted == kind = "transfers" /\ Tables[table] \in Tcp
    IN  /\ phase = "fetch"
        /\ Cardinality(rows) <= size
        /\ \/ /\ counted
              /\ rows # {}
              /\ pending' = [c \in rows |-> sockets[c].state]
              /\ phase' = "rows"
              /\ UNCHANGED <<table, size, result>>
           \/ /\ ~counted \/ rows = {}
              /\ result' = AppendRows(rows)
              /\ NextTable
              /\ UNCHANGED pending
        /\ UNCHANGED <<osVars, kind, now, witnessVars>>

\* Fault: a failing table ends the whole collection.
FetchFailsForAll ==
    /\ phase = "fetch"
    /\ Cardinality(InTable(Tables[table])) > size \/ ~TablesReliable
    /\ failedTables' = failedTables \cup {Tables[table]}
    /\ table' = Len(Tables) + 1
    /\ size' = 0
    /\ phase' = "done"
    /\ UNCHANGED <<osVars, kind, now, pending, result, openThroughout, seenOpen>>

\* Second call: the table has outgrown the buffer, or the call fails.  The
\* collector returns without rows of this table; it does not try again.
FetchFails ==
    /\ phase = "fetch"
    /\ Cardinality(InTable(Tables[table])) > size \/ ~TablesReliable
    /\ failedTables' = failedTables \cup {Tables[table]}
    /\ NextTable
    /\ UNCHANGED <<osVars, kind, now, pending, result, openThroughout, seenOpen>>

\* ESTATS are read for rows in these states only.
Readable == {"ESTABLISHED", "CLOSE_WAIT"}

\* GetPerTcpConnectionEStats finds a socket by addresses and ports.
SocketsAt(c) == {d \in OpenConns : TupleOf[d] = TupleOf[c]}

\* The row of c is completed with its counters.
AddRow(c, bytes) ==
    /\ result' = Put(result, [d \in {c} |-> MakeRow(c, bytes)])
    /\ pending' = [d \in DOMAIN pending \ {c} |-> pending[d]]
    /\ IF DOMAIN pending = {c} THEN NextTable ELSE UNCHANGED <<phase, table, size>>
    /\ UNCHANGED <<kind, now, opens, traffic, witnessVars>>

\* The rows are completed one after the other.
BetweenRows == phase = "rows" /\ \A c \in DOMAIN pending : pending[c] # "enabled"

\* readTcp4Estats / readTcp6Estats on a row whose state rules it out.
SkipEstats(c) ==
    /\ BetweenRows
    /\ c \in DOMAIN pending
    /\ pending[c] \notin Readable
    /\ AddRow(c, Zero)
    /\ UNCHANGED sockets

\* Set...EStats switches counting on for the socket; its result is ignored.
EnableEstats(c) ==
    /\ BetweenRows
    /\ c \in DOMAIN pending
    /\ pending[c] \in Readable
    /\ pending' = [pending EXCEPT ![c] = "enabled"]
    /\ \/ \E d \in SocketsAt(c) : sockets' = [sockets EXCEPT ![d].collecting = TRUE]
       \/ (SocketsAt(c) = {} \/ ~EstatsReliable) /\ UNCHANGED sockets
    /\ UNCHANGED <<opens, traffic, phase, kind, now, table, size, result, witnessVars>>

\* Fault: the two counters are taken for each other.
ReadEstatsSwapped(c, d) ==
    /\ phase = "rows"
    /\ c \in DOMAIN pending
    /\ pending[c] = "enabled"
    /\ d \in SocketsAt(c)
    /\ AddRow(c, [x \in Directions |-> sockets[d].bytes[CHOOSE y \in Directions : y # x]])
    /\ UNCHANGED sockets

\* Get...EStats then reads the counters of the socket that is there by now.
ReadEstats(c, d) ==
    /\ phase = "rows"
    /\ c \in DOMAIN pending
    /\ pending[c] = "enabled"
    /\ d \in SocketsAt(c)
    /\ AddRow(c, sockets[d].bytes)
    /\ UNCHANGED sockets

\* Get...EStats fails: the caller ignores that and keeps the zeros.
EstatsFails(c) ==
    /\ phase = "rows"
    /\ c \in DOMAIN pending
    /\ pending[c] = "enabled"
    /\ SocketsAt(c) = {} \/ ~EstatsReliable
    /\ AddRow(c, Zero)
    /\ UNCHANGED sockets

\* Fault: the vector of rows is used again for the next collection.
ReturnKeepsRows ==
    /\ phase = "done"
    /\ phase' = "idle"
    /\ table' = 1
    /\ openThroughout' = {}
    /\ seenOpen' = {}
    /\ failedTables' = {}
    /\ UNCHANGED <<osVars, kind, now, size, pending, result>>

\* The rows are handed to the caller.
Return ==
    /\ phase = "done"
    /\ phase' = "idle"
    /\ table' = 1
    /\ result' = EmptyMap
    /\ openThroughout' = {}
    /\ seenOpen' = {}
    /\ failedTables' = {}
    /\ UNCHANGED <<osVars, kind, now, size, pending>>

CollectStep ==
    \/ QuerySize \/ QueryFails \/ Fetch \/ FetchFails
    \/ \E c \in Conns : \/ SkipEstats(c)
                        \/ EnableEstats(c)
                        \/ \E d \in Conns : ReadEstats(c, d)
                        \/ EstatsFails(c)

-----------------------------------------------------------------------------
MonitorInit ==
    /\ sockets = [c \in Conns |-> NoSocket]
    /\ opens = [c \in Conns |-> 0]
    /\ traffic = [c \in Conns |-> Zero]
    /\ phase = "idle"
    /\ kind \in Kinds
    /\ now \in Clock
    /\ table = 1
    /\ size = 0
    /\ pending = EmptyMap
    /\ result = EmptyMap
    /\ openThroughout = {}
    /\ seenOpen = {}
    /\ failedTables = {}

MonitorNext == OsStep \/ CollectStep \/ Return \/ \E k \in Kinds : Begin(k)

MonitorSpec == MonitorInit /\ [][MonitorNext]_monitorVars

-----------------------------------------------------------------------------
ResultRow == [conn : Conns, name : {NoName}, timestamp : Clock, bytes : [Directions -> Nat]]

\* Every variable has its type; pending rows exist exactly in the row loop.
MonitorTypeOK ==
    /\ sockets \in [Conns -> Socket]
    /\ opens \in [Conns -> Nat]
    /\ traffic \in [Conns -> [Directions -> Nat]]
    /\ phase \in {"idle", "query", "fetch", "rows", "done"}
    /\ kind \in Kinds
    /\ now \in Clock
    /\ table \in 1..5
    /\ phase \in {"query", "fetch", "rows"} => table \in 1..4
    /\ size \in Nat
    /\ DOMAIN pending \subseteq Conns
    /\ pending \in [DOMAIN pending -> States \cup {"enabled"}]
    /\ DOMAIN pending # {} <=> phase = "rows"
    /\ DOMAIN result \subseteq Conns
    /\ result \in [DOMAIN result -> ResultRow]
    /\ openThroughout \subseteq Conns
    /\ seenOpen \subseteq Conns
    /\ failedTables \subseteq {Tables[i] : i \in 1..4}

\* "so a failure in one address family does not suppress the other"
\* (NetworkMonitor.cpp:407): what was open during the whole collection is
\* returned unless its own table failed.
CompleteUnlessFailed ==
    phase = "done" =>
        \A c \in openThroughout : TableOf[c] \notin failedTables => c \in DOMAIN result

\* Nothing is returned that was not open at some time during the collection,
\* although every row is stale by the time the collector returns.
NoPhantomRows == DOMAIN pending \cup DOMAIN result \subseteq seenOpen
=============================================================================
