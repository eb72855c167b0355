---------------------- MODULE RemoteEndpointIdentifier ----------------------
(***************************************************************************)
(* network::RemoteEndpointIdentifier: the remote peers of the rows of a    *)
(* connection snapshot, in the order of the rows.  A row has the fields    *)
(* pid, protocol, local, localPort, remote, remotePort and state; an       *)
(* attributed one also hasProcessInfo and processName.                     *)
(***************************************************************************)
EXTENDS NetworkUtils

CONSTANT NoName  \* the empty name

Identifiable(row) == hasRemoteEndpoint(row.remote) /\ isValidIpAddress(row.remote)

\* A malformed local address is blanked, the remote peer is kept.
ValidatedLocal(row) ==
    IF ~isValidIpAddress(row.local) /\ ~isUnspecified(row.local) THEN <<>> ELSE row.local

\* The endpoint tryIdentify makes of a row it does not refuse.
RemoteEndpoint(row, processName) ==
    [pid |-> row.pid, processName |-> processName, protocol |-> row.protocol,
     localIp |-> ValidatedLocal(row), localPort |-> row.localPort,
     remoteIp |-> row.remote, remotePort |-> row.remotePort,
     addressFamily |-> detectAddressFamily(row.remote)]

identify(rows) ==
    LET found == SelectSeq(rows, Identifiable)
    IN  [i \in DOMAIN found |-> RemoteEndpoint(found[i], NoName)]

identifyAttributed(rows) ==
    LET found == SelectSeq(rows, Identifiable)
    IN  [i \in DOMAIN found |->
            RemoteEndpoint(found[i], IF found[i].hasProcessInfo THEN found[i].processName
                                                                ELSE NoName)]
=============================================================================
