------------------------------ MODULE DnsCache ------------------------------
(***************************************************************************)
(* network::DnsCache: reverse-DNS answers with an expiry time.  A negative *)
(* answer is an entry without a host name.  The module has no              *)
(* specification of its own; DomainResolver runs it.                       *)
(***************************************************************************)
EXTENDS Integers, Maps

VARIABLES entries,  \* address -> DnsCacheEntry
          ttl       \* applied to entries stored from now on

\* Fault: an entry still counts at the instant it expires.
ExpiredLate(entry, now) == now > entry.expiresAt

isExpired(entry, now) == now >= entry.expiresAt

\* get() finds an entry that has not expired.
Hit(ip, now) == ip \in DOMAIN entries /\ ~isExpired(entries[ip], now)

put(ip, hostname, now) ==
    /\ entries' = Put(entries, [i \in {ip} |->
          [hostname |-> hostname, storedAt |-> now, expiresAt |-> now + ttl]])
    /\ UNCHANGED ttl

\* Fault: the entry stays.
InvalidateKeeps(ip) == UNCHANGED <<entries, ttl>>

invalidate(ip) == entries' = Erase(entries, {ip}) /\ UNCHANGED ttl

clear == entries' = EmptyMap /\ UNCHANGED ttl

\* Fault: entries are purged by the lifetime configured now.
PurgedByTtl(now) ==
    /\ entries' = Erase(entries, {i \in DOMAIN entries : now >= entries[i].storedAt + ttl})
    /\ UNCHANGED ttl

purgeExpired(now) ==
    /\ entries' = Erase(entries, {i \in DOMAIN entries : isExpired(entries[i], now)})
    /\ UNCHANGED ttl

setTtl(t) == ttl' = t /\ UNCHANGED entries
=============================================================================
