------------------------ MODULE ProtocolPortAnalyzer ------------------------
(***************************************************************************)
(* network::ProtocolPortAnalyzer: protocol, ports and family of the rows   *)
(* of a connection snapshot, listening sockets included.  Rows are as in   *)
(* RemoteEndpointIdentifier.                                               *)
(***************************************************************************)
EXTENDS NetworkUtils

CONSTANT NoName  \* the empty name

Analyzable(row) == isValidPort(row.localPort) /\ row.protocol \in {"TCP", "UDP"}

LocalFamily(row) ==
    IF isValidIpAddress(row.local) THEN detectAddressFamily(row.local) ELSE "UNKNOWN"

\* The profile tryAnalyze makes of a row it does not refuse.
ProtocolPortProfile(row, processName) ==
    [pid |-> row.pid, processName |-> processName, protocol |-> row.protocol,
     localPort |-> row.localPort,
     remotePort |-> IF hasRemotePort(row.remotePort) THEN row.remotePort ELSE Zero,
     state |-> row.state, addressFamily |-> LocalFamily(row),
     hasRemotePort |-> hasRemotePort(row.remotePort)]

analyze(rows) ==
    LET found == SelectSeq(rows, Analyzable)
    IN  [i \in DOMAIN found |-> ProtocolPortProfile(found[i], NoName)]

analyzeAttributed(rows) ==
    LET found == SelectSeq(rows, Analyzable)
    IN  [i \in DOMAIN found |->
            ProtocolPortProfile(found[i], IF found[i].hasProcessInfo THEN found[i].processName
                                                                     ELSE NoName)]
=============================================================================
