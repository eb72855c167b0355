--------------------------- MODULE DomainResolver ---------------------------
(***************************************************************************)
(* network::DomainResolver over its DnsCache, with a client that resolves, *)
(* refreshes and configures, a clock that runs on, and a DNS whose answers *)
(* change and fail.  A lookup blocks the caller; time and DNS do not wait. *)
(***************************************************************************)
EXTENDS Integers, Maps, FiniteSetsExt

CONSTANTS Ips,       \* remote addresses that pass NetworkUtils validation
          BadIps,    \* strings that do not
          Hosts,     \* host names
          NoHost,    \* the empty string
          Ttls,      \* lifetimes the client configures; one is the longest
          MaxClock   \* bound on the clock, for model checking

ASSUME ResolverAssumption ==
    /\ Ips \cap BadIps = {}
    /\ NoHost \notin Hosts
    /\ Ttls \subseteq Nat
    /\ \E t \in Ttls : \A u \in Ttls : u <= t
    /\ MaxClock \in Nat

VARIABLES entries, ttl,  \* DnsCache
          dns,       \* DNS: address -> host name, NoHost if there is none
          clock,     \* the system clock
          call,      \* the lookup that is running, if any
          answer,    \* the last ResolvedEndpoint returned
          ended,     \* history: address -> host name -> when it was last true
          quiet      \* history: address -> no new query is due before then

clientVars == <<call, answer>>
historyVars == <<ended, quiet>>
vars == <<entries, ttl, dns, clock, clientVars, historyVars>>

Cache == INSTANCE DnsCache

\* The empty text is never looked up.
NoCall == <<>>

Result(ip, hostname, status, cacheHit) ==
    [ip |-> ip, hostname |-> hostname, status |-> status, cacheHit |-> cacheHit,
     at |-> clock]

Idle == call = NoCall

-----------------------------------------------------------------------------
(* The world.                                                              *)

Tick ==
    /\ clock < MaxClock
    /\ clock' = clock + 1
    /\ UNCHANGED <<entries, ttl, dns, clientVars, historyVars>>

DnsChanges(ip, h) ==
    /\ h # dns[ip]
    /\ dns' = [dns EXCEPT ![ip] = h]
    /\ ended' = [ended EXCEPT ![ip] = Put(@, [x \in {dns[ip]} |-> clock])]
    /\ UNCHANGED <<entries, ttl, clock, clientVars, quiet>>

-----------------------------------------------------------------------------
(* resolve(), resolveIp() and, repeated, resolveAll().                     *)

ResolveInvalid(ip) ==
    /\ Idle
    /\ ip \in BadIps
    /\ answer' = Result(ip, NoHost, "INVALID_IP", FALSE)
    /\ UNCHANGED <<entries, ttl, dns, clock, call, historyVars>>

\* A forced refresh drops the entry and looks up.
ResolveForced(ip) ==
    /\ Idle
    /\ ip \in Ips
    /\ Cache!invalidate(ip)
    /\ call' = ip
    /\ quiet' = Erase(quiet, {ip})
    /\ UNCHANGED <<dns, clock, answer, ended>>

ResolveCached(ip) ==
    /\ Idle
    /\ ip \in Ips
    /\ Cache!Hit(ip, clock)
    /\ answer' = Result(ip, entries[ip].hostname,
                        IF entries[ip].hostname = NoHost THEN "NOT_FOUND" ELSE "CACHED", TRUE)
    /\ UNCHANGED <<entries, ttl, dns, clock, call, historyVars>>

\* Fault: the address is not validated.
ResolveUnchecked(ip) ==
    /\ Idle
    /\ ~Cache!Hit(ip, clock)
    /\ call' = ip
    /\ UNCHANGED <<entries, ttl, dns, clock, answer, historyVars>>

ResolveMiss(ip) ==
    /\ Idle
    /\ ip \in Ips
    /\ ~Cache!Hit(ip, clock)
    /\ call' = ip
    /\ UNCHANGED <<entries, ttl, dns, clock, answer, historyVars>>

\* The lookup ends: with what DNS says now, with a failure, or by throwing.
\* Whatever it is, it is stored.
LookupOutcomes(ip) ==
    {IF dns[ip] = NoHost THEN "NotFound" ELSE "Success", "Failed", "Throws"}

LookupReturns(outcome) ==
    LET ip == call
        hostname == IF outcome = "Success" THEN dns[ip] ELSE NoHost
        status == CASE outcome = "Success"  -> "RESOLVED"
                    [] outcome = "NotFound" -> "NOT_FOUND"
                    [] OTHER                -> "FAILED"
    IN  /\ ~Idle
        /\ outcome \in LookupOutcomes(ip)
        /\ Cache!put(ip, hostname, clock)
        /\ answer' = Result(ip, hostname, status, FALSE)
        /\ call' = NoCall
        /\ quiet' = Put(quiet, [i \in {ip} |-> clock + ttl])
        /\ UNCHANGED <<dns, clock, ended>>

-----------------------------------------------------------------------------
(* The rest of the client's interface.                                     *)

refresh(ip) ==
    /\ Idle
    /\ Cache!invalidate(ip)
    /\ quiet' = Erase(quiet, {ip})
    /\ UNCHANGED <<dns, clock, clientVars, ended>>

ClearCache ==
    /\ Idle
    /\ Cache!clear
    /\ quiet' = EmptyMap
    /\ UNCHANGED <<dns, clock, clientVars, ended>>

PurgeCache ==
    /\ Idle
    /\ Cache!purgeExpired(clock)
    /\ UNCHANGED <<dns, clock, clientVars, historyVars>>

SetTtl(t) ==
    /\ Idle
    /\ Cache!setTtl(t)
    /\ UNCHANGED <<dns, clock, clientVars, historyVars>>

-----------------------------------------------------------------------------
Init ==
    /\ entries = EmptyMap
    /\ ttl \in Ttls
    /\ dns = [ip \in Ips |-> NoHost]
    /\ clock = 0
    /\ call = NoCall
    /\ answer = Result(NoCall, NoHost, "NONE", FALSE)
    /\ ended = [ip \in Ips |-> EmptyMap]
    /\ quiet = EmptyMap

World == Tick \/ \E ip \in Ips, h \in Hosts \cup {NoHost} : DnsChanges(ip, h)

Next ==
    \/ World
    \/ \E ip \in Ips \cup BadIps : \/ ResolveInvalid(ip) \/ ResolveForced(ip)
                                   \/ ResolveCached(ip) \/ ResolveMiss(ip)
    \/ \E o \in {"Success", "NotFound", "Failed", "Throws"} : LookupReturns(o)
    \/ \E ip \in Ips : refresh(ip)
    \/ ClearCache \/ PurgeCache
    \/ \E t \in Ttls : SetTtl(t)

Spec == Init /\ [][Next]_vars

-----------------------------------------------------------------------------
Entry == [hostname : Hosts \cup {NoHost}, storedAt : Nat, expiresAt : Nat]

\* Only valid addresses are looked up and stored.
TypeOK ==
    /\ DOMAIN entries \subseteq Ips
    /\ entries \in [DOMAIN entries -> Entry]
    /\ ttl \in Ttls
    /\ dns \in [Ips -> Hosts \cup {NoHost}]
    /\ clock \in Nat
    /\ call \in Ips \cup {NoCall}
    /\ answer.hostname \in Hosts \cup {NoHost}
    /\ DOMAIN quiet \subseteq Ips /\ quiet \in [DOMAIN quiet -> Nat]

Answering == answer' # answer

\* A host name that is answered is what DNS says now or said less than a
\* lifetime ago, whatever lifetimes were configured, purged and refreshed in
\* between (DnsCache::get, put, setTtl; DomainResolver::resolve).
StalenessBounded ==
    [][Answering /\ answer'.hostname # NoHost =>
         LET ip == answer'.ip
             h == answer'.hostname
         IN  \/ dns[ip] = h
             \/ h \in DOMAIN ended[ip] /\ clock - ended[ip][h] < Max(Ttls)]_vars

\* "Negative results may also be cached so repeated failures do not hammer the
\* DNS resolver" (DnsCache.h): after a lookup, successful or not, DNS is not
\* asked again before the lifetime the answer was stored with has passed,
\* unless a refresh is asked for.
LookupsSpaced ==
    [][Idle /\ call' # NoCall /\ call' \in DOMAIN quiet' => clock >= quiet[call']]_vars

\* A forced or refreshed address is next answered by DNS and not by the cache.
RefreshAsksDns ==
    [][Answering /\ answer'.cacheHit => answer'.ip \in DOMAIN quiet]_vars
=============================================================================
