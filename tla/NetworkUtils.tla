---------------------------- MODULE NetworkUtils ----------------------------
(***************************************************************************)
(* network::NetworkUtils: which texts are IP addresses, and of which       *)
(* family.                                                                 *)
(*                                                                         *)
(* A text is a sequence of tokens: a colon, a dot, or a run of other       *)
(* characters, of which only its class matters.  Groups and Parts are 8    *)
(* and 4 in the code; nothing but the counting depends on them.            *)
(***************************************************************************)
EXTENDS Integers, Sequences

LOCAL INSTANCE SequencesExt

CONSTANTS Octets,    \* runs that parseDecimalOctet accepts: 0 to 255, no leading zero
          Hextets,   \* runs that parseHextet accepts: one to four hexadecimal digits
          HexRuns,   \* runs of hexadecimal digits of any length
          Digits,    \* runs of decimal digits of any length
          Zero,      \* the run 0
          Groups,    \* hextets in an IPv6 address
          Parts      \* octets in an IPv4 address

ASSUME UtilsAssumption ==
    /\ Zero \in Octets
    /\ Octets \subseteq Hextets \cap Digits
    /\ Hextets \cup Digits \subseteq HexRuns
    /\ Groups \in Nat \ {0} /\ Parts \in Nat \ {0, 1}

Colon == ":"
Dot == "."
Compression == <<Colon, Colon>>

-----------------------------------------------------------------------------
(* std::string, as far as it is used.                                      *)

\* Positions at which part begins in text.
Occurrences(part, text) ==
    {i \in 1..(Len(text) - Len(part) + 1) : SubSeq(text, i, i + Len(part) - 1) = part}

Before(text, i) == SubSeq(text, 1, i - 1)

From(text, i) == SubSeq(text, i, Len(text))

\* The parts between the delimiters, empty ones included.
split(text, delimiter) ==
    LET cut(parts, token) ==
            IF token = delimiter THEN Append(parts, <<>>)
            ELSE [parts EXCEPT ![Len(parts)] = Append(@, token)]
    IN  FoldLeft(cut, <<<<>>>>, text)

-----------------------------------------------------------------------------
parseDecimalOctet(part) == Len(part) = 1 /\ part[1] \in Octets

parseHextet(part) == Len(part) = 1 /\ part[1] \in Hextets

isValidIpv4(address) ==
    LET parts == split(address, Dot)
    IN  Len(parts) = Parts /\ \A i \in DOMAIN parts : parseDecimalOctet(parts[i])

\* Where the last colon is, 0 if there is none.
LastColon(text) == SelectLastInSeq(text, LAMBDA x : x = Colon)

FirstDot(text) == SelectInSeq(text, LAMBDA x : x = Dot)

\* An IPv4 address can only be the tail of an IPv6 one.
TailOk(address) ==
    FirstDot(address) # 0 =>
        /\ LastColon(address) \in 1..FirstDot(address)
        /\ isValidIpv4(From(address, LastColon(address) + 1))

\* The tail counts as two hextets.
WithoutTail(address) ==
    IF FirstDot(address) = 0 THEN address
    ELSE Before(address, LastColon(address) + 1) \o <<Zero, Colon, Zero>>

\* Nothing to the left or to the right of a compression is no part at all.
PartsOf(text) == IF text = <<>> THEN <<>> ELSE split(text, Colon)

\* Fault: a compression may stand for no hextet at all.
CountOkLoose(compressed, count) == IF compressed THEN count <= Groups ELSE count = Groups

CountOk(compressed, count) == IF compressed THEN count < Groups ELSE count = Groups

isValidIpv6(address) ==
    /\ address # <<>>
    /\ Occurrences(Compression \o <<Colon>>, address) = {}
    /\ \A i \in DOMAIN address : address[i] \in HexRuns \cup {Colon, Dot}
    /\ TailOk(address)
    /\ LET working == WithoutTail(address)
           compressions == Occurrences(Compression, working)
           compressed == compressions # {}
           at == CHOOSE i \in compressions : TRUE
           hextets == IF compressed
                      THEN PartsOf(Before(working, at)) \o PartsOf(From(working, at + 2))
                      ELSE split(working, Colon)
       IN  /\ \A i, j \in compressions : i = j
           /\ \A i \in DOMAIN hextets : parseHextet(hextets[i])
           /\ CountOk(compressed, Len(hextets))

isValidIpAddress(address) == isValidIpv4(address) \/ isValidIpv6(address)

detectAddressFamily(address) ==
    CASE isValidIpv4(address) -> "IPv4"
      [] isValidIpv6(address) -> "IPv6"
      [] OTHER                -> "UNKNOWN"

Join(parts, delimiter) ==
    FoldLeft(LAMBDA text, part : IF text = <<>> THEN <<part>> ELSE text \o <<delimiter, part>>,
             <<>>, parts)

Zeros(n) == [i \in 1..n |-> Zero]

\* Fault: only the IPv4 wildcard is known.
UnspecifiedV4(address) == address \in {<<>>, Join(Zeros(Parts), Dot)}

\* The texts the operating system gives for "no address".
isUnspecified(address) ==
    address \in {<<>>, Join(Zeros(Parts), Dot), Compression, Join(Zeros(Groups), Colon)}

hasRemoteEndpoint(address) == ~isUnspecified(address) /\ isValidIpAddress(address)

\* A port is written as a run.
isValidPort(port) == port # Zero

hasRemotePort(port) == isValidPort(port)
=============================================================================
