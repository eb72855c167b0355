------------------------ MODULE EndpointIntelligence ------------------------
(***************************************************************************)
(* From the rows of a connection snapshot to host names: the texts that    *)
(* NetworkUtils takes for addresses, the endpoints and profiles made of    *)
(* the rows, what DomainResolver is asked, and how the endpoints are found *)
(* again on the timeline.  The client first goes through the rows and then *)
(* resolves; a row's remote side is any text of up to MaxTokens tokens.    *)
(***************************************************************************)
EXTENDS DomainResolver, NetworkUtils, TimelineOrder

LOCAL INSTANCE SequencesExt

CONSTANTS Runs,       \* runs to make texts from
          Port,       \* a port
          MaxTokens   \* bound on the length of a text

ASSUME IntelligenceAssumption ==
    /\ HexRuns \subseteq Runs
    /\ Port \in Digits \ {Zero}
    /\ MaxTokens \in Nat
    /\ \A ip \in Ips : isValidIpAddress(ip)
    /\ \A ip \in BadIps : ~isValidIpAddress(ip)

VARIABLE rows  \* the remote sides of the rows that are still to be looked at

Identifier == INSTANCE RemoteEndpointIdentifier WITH NoName <- NoHost

Analyzer == INSTANCE ProtocolPortAnalyzer WITH NoName <- NoHost

Separators == {Colon, Dot}

\* All texts of n tokens.  Two runs in a row would be one run.
TextsOf[n \in 0..MaxTokens] ==
    IF n = 0 THEN {<<>>}
    ELSE {Append(t, x) : t \in TextsOf[n - 1], x \in Separators}
         \cup {Append(t, x) : t \in {u \in TextsOf[n - 1] : n = 1 \/ u[n - 1] \in Separators},
                              x \in Runs}

Texts == UNION {TextsOf[n] : n \in 0..MaxTokens}

IntelligenceInit == Init /\ rows \in {<<t>> : t \in Texts}

LookAtRow == rows # <<>> /\ rows' = Tail(rows) /\ UNCHANGED vars

UseResolver == rows = <<>> /\ Next /\ UNCHANGED rows

IntelligenceNext == LookAtRow \/ UseResolver

IntelligenceSpec == IntelligenceInit /\ [][IntelligenceNext]_<<vars, rows>>

Remotes == {rows[i] : i \in DOMAIN rows}

-----------------------------------------------------------------------------
(* How a remote endpoint is written into a timeline event                  *)
(* (TimelineEventCollector::formatEndpoint) and found again                *)
(* (TimelineQuery::byRemoteDestination).  The remote and the description   *)
(* of an event are texts.                                                  *)

\* The port is a run of digits, the run 0 if there is none.  No brackets are
\* set around an IPv6 address.
formatEndpoint(address, port) ==
    IF address # <<>> /\ hasRemotePort(port) THEN address \o <<Colon, port>> ELSE address

AllDigits(text) == \A i \in DOMAIN text : text[i] \in Digits

\* The text without what looks like a port.
hostFromEndpoint(endpoint) ==
    LET colon == LastColon(endpoint)
        closing == SelectInSeq(endpoint, LAMBDA x : x = "]")
        maybePort == From(endpoint, colon + 1)
    IN  CASE endpoint = <<>>    -> <<>>
          [] endpoint # <<>> /\ endpoint[1] = "[" ->
                IF closing = 0 THEN endpoint ELSE SubSeq(endpoint, 2, closing - 1)
          [] OTHER ->
                IF colon # 0 /\ maybePort # <<>> /\ AllDigits(maybePort)
                THEN Before(endpoint, colon)
                ELSE endpoint

Within(part, text) == text # <<>> /\ Occurrences(part, text) # {}

matchesRemoteDestination(event, remoteIpOrDomain) ==
    \/ event.remote = remoteIpOrDomain
    \/ /\ hostFromEndpoint(event.remote) # <<>>
       /\ hostFromEndpoint(event.remote) = hostFromEndpoint(remoteIpOrDomain)
    \/ Within(remoteIpOrDomain, event.remote)
    \/ Within(remoteIpOrDomain, event.description)

byRemoteDestination(events, remoteIpOrDomain) ==
    IF remoteIpOrDomain = <<>> THEN <<>>
    ELSE StableSort(SelectSeq(events, LAMBDA e : matchesRemoteDestination(e, remoteIpOrDomain)))

-----------------------------------------------------------------------------
(* The grammar of addresses, independent of how they are parsed.           *)

Ipv4Texts == {Join(f, Dot) : f \in [1..Parts -> Octets]}

Listed(n) == {Join(f, Colon) : f \in [1..n -> Hextets]}

\* n hextets, the last two of which may be written as an IPv4 address.
Spelled(n) ==
    Listed(n) \cup
    (CASE n < 2 -> {}
       [] n = 2 -> Ipv4Texts
       [] n > 2 -> {l \o <<Colon>> \o t : l \in Listed(n - 2), t \in Ipv4Texts})

\* All hextets, or a compression in the place of at least one of them.
Ipv6Texts ==
    Spelled(Groups) \cup
    UNION {{l \o Compression \o r : l \in Listed(n[1]), r \in Spelled(n[2])} :
              n \in {m \in (0..Groups) \X (0..Groups) : m[1] + m[2] < Groups}}

Addresses == Ipv4Texts \cup Ipv6Texts

Wildcards == {Join(Zeros(Parts), Dot), Compression, Join(Zeros(Groups), Colon)}

FamilyOf(a) == CASE a \in Ipv4Texts -> "IPv4"
                 [] a \in Ipv6Texts -> "IPv6"
                 [] OTHER           -> "UNKNOWN"

\* isValidIpv4 and isValidIpv6, which cut, count and replace, accept exactly
\* the texts of the grammar: no compression of nothing, no second compression,
\* no colon or dot too many, an IPv4 address only at the end.
AddressesRecognised == \A t \in Remotes : detectAddressFamily(t) = FamilyOf(t)

-----------------------------------------------------------------------------
Row(local, remote, port) ==
    [pid |-> 1, protocol |-> "TCP", local |-> local, localPort |-> Port, remote |-> remote,
     remotePort |-> port, state |-> "ESTABLISHED", hasProcessInfo |-> FALSE,
     processName |-> NoHost]

\* Rows of a snapshot: what is connected, listens on any interface, or is
\* malformed on one side.
Locals == Ips \cup BadIps \cup Wildcards \cup {<<>>}

\* "Unspecified (`0.0.0.0` / `::`) | Skipped", "Malformed address | Skipped"
\* (REMOTE_ENDPOINT_IDENTIFICATION.md): an endpoint is made of a row exactly if
\* the remote side is an address and not a wildcard, so listening sockets are
\* never looked up and DomainResolver never answers INVALID_IP for an endpoint;
\* a malformed local side costs the local address and not the endpoint.  Every
\* row, listening ones too, has a profile, of the endpoint's family when both
\* sides are of one family.
EndpointsUsable ==
    \A remote \in Remotes, local \in Locals :
        LET row == Row(local, remote, Port)
            endpoints == Identifier!identify(<<row>>)
            profiles == Analyzer!analyze(<<row>>)
        IN  /\ endpoints # <<>> <=> remote \in Addresses \ Wildcards
            /\ Len(profiles) = 1
            /\ endpoints # <<>> =>
                  /\ endpoints[1].remoteIp = remote
                  /\ endpoints[1].addressFamily = FamilyOf(remote)
                  /\ endpoints[1].localIp \in Addresses \cup {<<>>}
                  /\ FamilyOf(local) = FamilyOf(remote) =>
                        profiles[1].addressFamily = endpoints[1].addressFamily

\* The event of a transfer with address a.
EventAt(a, port) ==
    [timestamp |-> 1, pid |-> 1, type |-> "UPLOAD_ACTIVITY", description |-> <<"zz">>,
     remote |-> formatEndpoint(a, port)]

Finds(query, event) == byRemoteDestination(<<event>>, query) # <<>>

\* "Prefer the last ':' so IPv4 host:port splits cleanly without breaking bare
\* IPv6 addresses that contain multiple colons and no brackets"
\* (TimelineQuery.cpp:170), and "Unknown PID / name / remote | Empty result"
\* (TIMELINE_QUERY.md): the events of another address than the bare IPv6 address
\* a query asks for are found only if the address is a part of their text.
OnlyAskedDestinations ==
    \A b \in Remotes \cap Addresses, a \in Ipv6Texts, port \in {Zero, Port} :
        LET event == EventAt(b, port)
        IN  Finds(a, event) => a = b \/ Occurrences(a, event.remote) # {}
=============================================================================
