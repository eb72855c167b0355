---------------------------- MODULE NamingProofs ----------------------------
(***************************************************************************)
(* The names the engine gives to what it observes.  Resolution: the        *)
(* resolver over its cache, for any addresses, host names, lifetimes and   *)
(* times: how old an answer can be, how often DNS is asked, and that a     *)
(* refresh is not answered from the cache.  Attribution: connections are   *)
(* named after the process that opened them, for any processes, PIDs and   *)
(* order of polls.                                                         *)
(***************************************************************************)
EXTENDS DomainResolver, AttributionPipeline, TLAPS

-----------------------------------------------------------------------------
(* Resolution: the inductive invariant.                                    *)

Names == Hosts \cup {NoHost}

\* The record of what DNS said before: all of it lies in the past.
EndedShape ==
    /\ ended = [ip \in Ips |-> ended[ip]]
    /\ \A ip \in Ips : \A h \in DOMAIN ended[ip] : ended[ip][h] \in Nat /\ ended[ip][h] <= clock

\* The lifetimes stored with entries are lifetimes that were configured.
LifetimesConfigured ==
    \A ip \in DOMAIN entries :
        /\ entries[ip].storedAt <= clock
        /\ entries[ip].expiresAt <= entries[ip].storedAt + Max(Ttls)

\* What the cache says was true when it was stored and still is, or ceased to
\* be true afterwards.
TrueWhenStored ==
    \A ip \in DOMAIN entries :
        LET h == entries[ip].hostname
        IN  \/ h = NoHost
            \/ dns[ip] = h
            \/ h \in DOMAIN ended[ip] /\ entries[ip].storedAt <= ended[ip][h]

\* DNS need not be asked as long as there is an entry, and an entry leaves the
\* cache only when it has expired or a refresh wants it.
EntriesKeepQuiet ==
    /\ \A ip \in DOMAIN entries : ip \in DOMAIN quiet /\ quiet[ip] = entries[ip].expiresAt
    /\ \A ip \in DOMAIN quiet \ DOMAIN entries : quiet[ip] <= clock

ResolverInv ==
    /\ TypeOK
    /\ EndedShape
    /\ LifetimesConfigured
    /\ TrueWhenStored
    /\ EntriesKeepQuiet

-----------------------------------------------------------------------------
(* Resolution: facts used throughout.                                      *)

\* There is a longest lifetime.
LEMMA LongestLifetime == Max(Ttls) \in Nat /\ \A t \in Ttls : t <= Max(Ttls)
<1>1. PICK t \in Ttls : \A u \in Ttls : u <= t
  BY ResolverAssumption
<1>2. \A u \in Ttls : t >= u
  BY <1>1, ResolverAssumption
<1>3. Max(Ttls) \in Ttls /\ \A u \in Ttls : Max(Ttls) >= u
  BY <1>2 DEF Max
<1> QED BY <1>3, ResolverAssumption

\* What an entry holds.
LEMMA EntryTyped ==
    ASSUME ResolverInv, NEW ip \in DOMAIN entries
    PROVE  /\ ip \in Ips
           /\ entries[ip].hostname \in Names
           /\ entries[ip].storedAt \in Nat
           /\ entries[ip].expiresAt \in Nat
  BY DEF ResolverInv, TypeOK, Entry, Names

\* Steps that leave cache, record and clock alone.
LEMMA KeptInv ==
    ASSUME ResolverInv, UNCHANGED <<entries, dns, clock, historyVars>>,
           ttl' \in Ttls, call' \in Ips \cup {NoCall}, answer'.hostname \in Names
    PROVE  ResolverInv'
<1>1. UNCHANGED <<entries, dns, clock, ended, quiet>>
  BY DEF historyVars
<1>2. TypeOK'
  BY <1>1 DEF ResolverInv, TypeOK, Names
<1>3. EndedShape' /\ LifetimesConfigured' /\ TrueWhenStored' /\ EntriesKeepQuiet'
  BY <1>1 DEF ResolverInv, EndedShape, LifetimesConfigured, TrueWhenStored, EntriesKeepQuiet
<1> QED BY <1>2, <1>3 DEF ResolverInv

\* Entries leave the cache: those that have expired silently, others together
\* with the promise to keep quiet.
LEMMA ErasedInv ==
    ASSUME ResolverInv, UNCHANGED <<ttl, dns, clock, answer, ended>>,
           call' \in Ips \cup {NoCall},
           NEW gone, entries' = [ip \in DOMAIN entries \ gone |-> entries[ip]],
           NEW asked, quiet' = [ip \in DOMAIN quiet \ asked |-> quiet[ip]],
           asked \cap DOMAIN entries \subseteq gone,
           \A ip \in gone \cap DOMAIN entries : ip \in asked \/ clock >= entries[ip].expiresAt
    PROVE  ResolverInv'
<1>1. TypeOK'
  BY DEF ResolverInv, TypeOK
<1>2. EndedShape'
  BY DEF ResolverInv, EndedShape
<1>3. LifetimesConfigured' /\ TrueWhenStored'
  BY DEF ResolverInv, LifetimesConfigured, TrueWhenStored
<1>4. EntriesKeepQuiet'
  <2>1. \A ip \in DOMAIN entries' : ip \in DOMAIN quiet' /\ quiet'[ip] = entries'[ip].expiresAt
    BY DEF ResolverInv, EntriesKeepQuiet
  <2>2. ASSUME NEW ip \in DOMAIN quiet' \ DOMAIN entries' PROVE quiet'[ip] <= clock
    <3>1. ip \in DOMAIN quiet \ asked /\ quiet'[ip] = quiet[ip]
      BY <2>2
    <3>2. CASE ip \in DOMAIN entries
      <4>1. ip \in gone /\ clock >= entries[ip].expiresAt /\ quiet[ip] = entries[ip].expiresAt
        BY <2>2, <3>1, <3>2 DEF ResolverInv, EntriesKeepQuiet
      <4> QED BY <3>1, <3>2, <4>1, EntryTyped DEF ResolverInv, TypeOK
    <3>3. CASE ip \notin DOMAIN entries
      BY <3>1, <3>3 DEF ResolverInv, EntriesKeepQuiet
    <3> QED BY <3>2, <3>3
  <2> QED BY <2>1, <2>2 DEF EntriesKeepQuiet
<1> QED BY <1>1, <1>2, <1>3, <1>4 DEF ResolverInv

-----------------------------------------------------------------------------
(* Resolution: the world.                                                  *)

\* Time passes.
LEMMA TickInv == ResolverInv /\ Tick => ResolverInv'
<1> SUFFICES ASSUME ResolverInv, Tick PROVE ResolverInv'
  OBVIOUS
<1>1. /\ clock \in Nat /\ clock' = clock + 1
      /\ UNCHANGED <<entries, ttl, dns, call, answer, ended, quiet>>
  BY DEF Tick, ResolverInv, TypeOK, clientVars, historyVars
<1>2. TypeOK' /\ TrueWhenStored'
  BY <1>1 DEF ResolverInv, TypeOK, TrueWhenStored
<1>3. EndedShape'
  BY <1>1 DEF ResolverInv, EndedShape
<1>4. LifetimesConfigured'
  BY <1>1, EntryTyped DEF ResolverInv, LifetimesConfigured
<1>5. EntriesKeepQuiet'
  BY <1>1 DEF ResolverInv, TypeOK, EntriesKeepQuiet
<1> QED BY <1>2, <1>3, <1>4, <1>5 DEF ResolverInv

\* A name ceases to be true now, which is not before it was stored.
LEMMA DnsChangesInv ==
    ASSUME ResolverInv, NEW ip \in Ips, NEW h \in Names, DnsChanges(ip, h)
    PROVE  ResolverInv'
<1>1. /\ dns' = [dns EXCEPT ![ip] = h]
      /\ ended' = [ended EXCEPT ![ip] = Put(ended[ip], [x \in {dns[ip]} |-> clock])]
      /\ UNCHANGED <<entries, ttl, clock, call, answer, quiet>>
  BY DEF DnsChanges, clientVars
<1>2. /\ dns \in [Ips -> Names] /\ clock \in Nat
      /\ ended = [j \in Ips |-> ended[j]]
  BY DEF ResolverInv, TypeOK, EndedShape, Names
<1>3. /\ DOMAIN ended'[ip] = DOMAIN ended[ip] \cup {dns[ip]}
      /\ ended'[ip][dns[ip]] = clock
      /\ \A x \in DOMAIN ended[ip] \ {dns[ip]} : ended'[ip][x] = ended[ip][x]
  BY <1>1, <1>2 DEF Put
<1>4. \A j \in Ips \ {ip} : ended'[j] = ended[j] /\ dns'[j] = dns[j]
  BY <1>1, <1>2
<1>5. TypeOK'
  BY <1>1, <1>2 DEF ResolverInv, TypeOK, Names
<1>6. EndedShape'
  <2>1. ended' = [j \in Ips |-> ended'[j]]
    BY <1>1, <1>2
  <2>2. ASSUME NEW j \in Ips, NEW x \in DOMAIN ended'[j]
        PROVE  ended'[j][x] \in Nat /\ ended'[j][x] <= clock'
    BY <1>1, <1>2, <1>3, <1>4 DEF ResolverInv, EndedShape
  <2> QED BY <2>1, <2>2 DEF EndedShape
<1>7. LifetimesConfigured' /\ EntriesKeepQuiet'
  BY <1>1 DEF ResolverInv, LifetimesConfigured, EntriesKeepQuiet
<1>8. TrueWhenStored'
  <2> SUFFICES ASSUME NEW j \in DOMAIN entries, entries[j].hostname # NoHost
               PROVE  \/ dns'[j] = entries[j].hostname
                      \/ /\ entries[j].hostname \in DOMAIN ended'[j]
                         /\ entries[j].storedAt <= ended'[j][entries[j].hostname]
    BY <1>1 DEF TrueWhenStored
  <2>1. /\ j \in Ips /\ entries[j].storedAt <= clock
        /\ \/ dns[j] = entries[j].hostname
           \/ /\ entries[j].hostname \in DOMAIN ended[j]
              /\ entries[j].storedAt <= ended[j][entries[j].hostname]
    BY EntryTyped DEF ResolverInv, TrueWhenStored, LifetimesConfigured
  <2>2. CASE j = ip
    <3>1. CASE entries[j].hostname = dns[ip]
      BY <1>3, <2>1, <2>2, <3>1
    <3>2. CASE entries[j].hostname # dns[ip]
      BY <1>3, <2>1, <2>2, <3>2
    <3> QED BY <3>1, <3>2
  <2>3. CASE j # ip
    BY <1>4, <2>1, <2>3
  <2> QED BY <2>2, <2>3
<1> QED BY <1>5, <1>6, <1>7, <1>8 DEF ResolverInv

-----------------------------------------------------------------------------
(* Resolution: the client.                                                 *)

\* The answer of a lookup is stored with the lifetime configured now.
LEMMA LookupReturnsInv ==
    ASSUME ResolverInv, NEW o, LookupReturns(o)
    PROVE  ResolverInv'
<1> DEFINE ip == call
           hostname == IF o = "Success" THEN dns[ip] ELSE NoHost
           entry == [hostname |-> hostname, storedAt |-> clock, expiresAt |-> clock + ttl]
<1>1. /\ entries' = Cache!Put(entries, [i \in {ip} |-> entry])
      /\ call' = NoCall
      /\ quiet' = Put(quiet, [i \in {ip} |-> clock + ttl])
      /\ UNCHANGED <<ttl, dns, clock, ended>>
  BY DEF LookupReturns, Cache!put
<1>2. ip \in Ips /\ ttl \in Ttls /\ ttl \in Nat /\ clock \in Nat /\ hostname \in Names
      /\ (hostname # NoHost => hostname = dns[ip])
  BY ResolverAssumption DEF LookupReturns, Idle, ResolverInv, TypeOK, Names
<1>3. answer'.hostname = hostname
  BY DEF LookupReturns, Result
<1> HIDE DEF ip, hostname
<1>4. /\ DOMAIN entries' = DOMAIN entries \cup {ip}
      /\ entries'[ip] = entry
      /\ \A i \in DOMAIN entries \ {ip} : entries'[i] = entries[i]
      /\ entries' = [i \in DOMAIN entries' |-> entries'[i]]
  BY <1>1 DEF Cache!Put
<1>5. /\ DOMAIN quiet' = DOMAIN quiet \cup {ip}
      /\ quiet'[ip] = clock + ttl
      /\ \A i \in DOMAIN quiet \ {ip} : quiet'[i] = quiet[i]
      /\ quiet' = [i \in DOMAIN quiet' |-> quiet'[i]]
  BY <1>1 DEF Put
<1>6. /\ entry.hostname = hostname /\ entry.storedAt = clock /\ entry.expiresAt = clock + ttl
      /\ entry \in Entry
  BY <1>2 DEF Entry, Names
<1> HIDE DEF entry
<1>7. TypeOK'
  <2>1. DOMAIN entries' \subseteq Ips /\ entries' \in [DOMAIN entries' -> Entry]
    BY <1>2, <1>4, <1>6 DEF ResolverInv, TypeOK
  <2>2. DOMAIN quiet' \subseteq Ips /\ quiet' \in [DOMAIN quiet' -> Nat]
    BY <1>2, <1>5 DEF ResolverInv, TypeOK
  <2> QED BY <1>1, <1>2, <1>3, <2>1, <2>2 DEF ResolverInv, TypeOK, Names
<1>8. EndedShape'
  BY <1>1 DEF ResolverInv, EndedShape
<1>9. LifetimesConfigured'
  <2>1. entry.storedAt <= clock /\ entry.expiresAt <= entry.storedAt + Max(Ttls)
    BY <1>2, <1>6, LongestLifetime
  <2> QED BY <1>1, <1>4, <2>1 DEF ResolverInv, LifetimesConfigured
<1>10. TrueWhenStored'
  <2>1. entry.hostname = NoHost \/ dns[ip] = entry.hostname
    BY <1>2, <1>6
  <2> QED BY <1>1, <1>4, <2>1 DEF ResolverInv, TrueWhenStored
<1>11. EntriesKeepQuiet'
  BY <1>1, <1>4, <1>5, <1>6 DEF ResolverInv, EntriesKeepQuiet
<1> QED BY <1>7, <1>8, <1>9, <1>10, <1>11 DEF ResolverInv

\* Asking for a valid address changes what is being looked up, or nothing but
\* the answer.
LEMMA ResolveInv ==
    ASSUME ResolverInv, NEW ip \in Ips \cup BadIps,
           ResolveInvalid(ip) \/ ResolveCached(ip) \/ ResolveMiss(ip)
    PROVE  ResolverInv'
<1>1. UNCHANGED <<entries, ttl, dns, clock, historyVars>> /\ ttl \in Ttls
  BY DEF ResolveInvalid, ResolveCached, ResolveMiss, ResolverInv, TypeOK
<1>2. call' \in Ips \cup {NoCall}
  BY DEF ResolveInvalid, ResolveCached, ResolveMiss, ResolverInv, TypeOK
<1>3. answer'.hostname \in Names
  <2>1. CASE ResolveInvalid(ip)
    BY <2>1 DEF ResolveInvalid, Result, Names
  <2>2. CASE ResolveCached(ip)
    <3>1. ip \in DOMAIN entries /\ answer'.hostname = entries[ip].hostname
      BY <2>2 DEF ResolveCached, Cache!Hit, Result
    <3> QED BY <3>1, EntryTyped
  <2>3. CASE ResolveMiss(ip)
    BY <2>3 DEF ResolveMiss, ResolverInv, TypeOK, Names
  <2> QED BY <2>1, <2>2, <2>3
<1> QED BY <1>1, <1>2, <1>3, KeptInv

\* A refresh, forced or asked for, forgets the entry and the promise.
LEMMA RefreshInv ==
    ASSUME ResolverInv, NEW ip \in Ips \cup BadIps, ResolveForced(ip) \/ refresh(ip)
    PROVE  ResolverInv'
<1>1. /\ entries' = [i \in DOMAIN entries \ {ip} |-> entries[i]]
      /\ quiet' = [i \in DOMAIN quiet \ {ip} |-> quiet[i]]
      /\ UNCHANGED <<ttl, dns, clock, answer, ended>>
      /\ call' \in Ips \cup {NoCall}
  BY DEF ResolveForced, refresh, Cache!invalidate, Cache!Erase, Erase, clientVars,
         ResolverInv, TypeOK
<1> QED BY <1>1, ErasedInv

\* Clearing forgets all entries and promises.
LEMMA ClearCacheInv == ResolverInv /\ ClearCache => ResolverInv'
<1> SUFFICES ASSUME ResolverInv, ClearCache PROVE ResolverInv'
  OBVIOUS
<1>1. /\ entries' = EmptyMap /\ quiet' = EmptyMap
      /\ UNCHANGED <<ttl, dns, clock, answer, ended, call>>
  BY DEF ClearCache, Cache!clear, Cache!EmptyMap, EmptyMap, clientVars
<1>2. TypeOK'
  BY <1>1 DEF ResolverInv, TypeOK, EmptyMap
<1>3. EndedShape' /\ LifetimesConfigured' /\ TrueWhenStored' /\ EntriesKeepQuiet'
  BY <1>1 DEF ResolverInv, EndedShape, LifetimesConfigured, TrueWhenStored, EntriesKeepQuiet,
              EmptyMap
<1> QED BY <1>2, <1>3 DEF ResolverInv

\* A purge forgets expired entries and keeps all promises.
LEMMA PurgeCacheInv == ResolverInv /\ PurgeCache => ResolverInv'
<1> SUFFICES ASSUME ResolverInv, PurgeCache PROVE ResolverInv'
  OBVIOUS
<1> DEFINE gone == {i \in DOMAIN entries : clock >= entries[i].expiresAt}
<1>1. /\ entries' = [i \in DOMAIN entries \ gone |-> entries[i]]
      /\ UNCHANGED <<ttl, dns, clock, call, answer, ended, quiet>>
  BY DEF PurgeCache, Cache!purgeExpired, Cache!isExpired, Cache!Erase, clientVars, historyVars
<1>2. quiet' = [i \in DOMAIN quiet |-> quiet[i]] /\ call' \in Ips \cup {NoCall}
  BY <1>1 DEF ResolverInv, TypeOK
<1>3. ASSUME NEW expired, expired = gone, NEW asked, asked = {} PROVE ResolverInv'
  <2>1. /\ entries' = [i \in DOMAIN entries \ expired |-> entries[i]]
        /\ quiet' = [i \in DOMAIN quiet \ asked |-> quiet[i]]
        /\ asked \cap DOMAIN entries \subseteq expired
        /\ \A i \in expired \cap DOMAIN entries : i \in asked \/ clock >= entries[i].expiresAt
    BY <1>1, <1>2, <1>3
  <2> QED BY <1>1, <1>2, <2>1, ErasedInv
<1> QED BY <1>3

\* A new lifetime concerns later entries only.
LEMMA SetTtlInv == ASSUME ResolverInv, NEW t \in Ttls, SetTtl(t) PROVE ResolverInv'
<1>1. /\ UNCHANGED <<entries, dns, clock, historyVars, call, answer>> /\ ttl' = t
  BY DEF SetTtl, Cache!setTtl, clientVars
<1> QED BY <1>1, KeptInv DEF ResolverInv, TypeOK, Names

-----------------------------------------------------------------------------
\* Nothing is cached initially.
LEMMA InitInv == Init => ResolverInv
  BY ResolverAssumption
     DEF Init, ResolverInv, TypeOK, EndedShape, LifetimesConfigured, TrueWhenStored,
         EntriesKeepQuiet, EmptyMap, Result

\* The invariant is preserved by every step.
LEMMA NextInv == ResolverInv /\ [Next]_vars => ResolverInv'
<1> SUFFICES ASSUME ResolverInv, [Next]_vars PROVE ResolverInv'
  OBVIOUS
<1>1. CASE UNCHANGED vars
  BY <1>1, KeptInv DEF vars, clientVars, ResolverInv, TypeOK, Names
<1>2. CASE World
  BY <1>2, TickInv, DnsChangesInv DEF World, Names
<1> QED BY <1>1, <1>2, ResolveInv, RefreshInv, LookupReturnsInv, ClearCacheInv, PurgeCacheInv,
           SetTtlInv DEF Next

\* The invariant holds in every behaviour.
LEMMA Invariance == Spec => []ResolverInv
  BY InitInv, NextInv, PTL DEF Spec

\* The steps that answer, and the steps that begin a lookup.
LEMMA WhoAnswers ==
    ASSUME ResolverInv, Next, Answering
    PROVE  \E ip \in Ips \cup BadIps : \/ ResolveInvalid(ip) \/ ResolveCached(ip)
                                       \/ \E o : LookupReturns(o) /\ ip = call
<1>1. ~World /\ ~ClearCache /\ ~PurgeCache /\ (\A t : ~SetTtl(t))
      /\ \A ip : ~ResolveForced(ip) /\ ~ResolveMiss(ip) /\ ~refresh(ip)
  BY DEF World, Tick, DnsChanges, ClearCache, PurgeCache, SetTtl, ResolveForced, ResolveMiss,
         refresh, clientVars, Answering
<1>2. ASSUME NEW o, LookupReturns(o) PROVE call \in Ips
  BY <1>2 DEF LookupReturns, Idle, ResolverInv, TypeOK
<1> QED BY <1>1, <1>2 DEF Next

-----------------------------------------------------------------------------
(* Resolution: the theorems.                                               *)

\* Whatever a client asks for, only valid addresses are looked up and stored.
THEOREM ResolverTypeCorrect == Spec => []TypeOK
<1>1. ResolverInv => TypeOK
  BY DEF ResolverInv
<1> QED BY <1>1, Invariance, PTL

\* No answer is older than the longest lifetime ever configured, however the
\* lifetime is changed while entries are stored.
THEOREM AnswersNotTooOld == Spec => StalenessBounded
<1> DEFINE Fresh == LET ip == answer'.ip
                        h == answer'.hostname
                    IN  \/ dns[ip] = h
                        \/ h \in DOMAIN ended[ip] /\ clock - ended[ip][h] < Max(Ttls)
<1>1. ASSUME ResolverInv, Next, Answering, answer'.hostname # NoHost PROVE Fresh
  <2>1. PICK ip \in Ips \cup BadIps : \/ ResolveInvalid(ip) \/ ResolveCached(ip)
                                      \/ \E o : LookupReturns(o) /\ ip = call
    BY <1>1, WhoAnswers
  <2>2. ~ResolveInvalid(ip)
    BY <1>1 DEF ResolveInvalid, Result
  <2>3. CASE ResolveCached(ip)
    <3>1. /\ ip \in DOMAIN entries /\ answer'.ip = ip
          /\ answer'.hostname = entries[ip].hostname
          /\ ~(clock >= entries[ip].expiresAt)
      BY <2>3 DEF ResolveCached, Cache!Hit, Cache!isExpired, Result
    <3>2. /\ ip \in Ips /\ entries[ip].storedAt \in Nat /\ entries[ip].expiresAt \in Nat
          /\ clock \in Nat /\ Max(Ttls) \in Nat
          /\ entries[ip].expiresAt <= entries[ip].storedAt + Max(Ttls)
      BY <1>1, <3>1, EntryTyped, LongestLifetime DEF ResolverInv, TypeOK, LifetimesConfigured
    <3>3. \/ dns[ip] = entries[ip].hostname
          \/ /\ entries[ip].hostname \in DOMAIN ended[ip]
             /\ entries[ip].storedAt <= ended[ip][entries[ip].hostname]
             /\ ended[ip][entries[ip].hostname] \in Nat
      BY <1>1, <3>1, <3>2 DEF ResolverInv, TrueWhenStored, EndedShape
    <3> QED BY <3>1, <3>2, <3>3
  <2>4. ASSUME NEW o, LookupReturns(o), ip = call PROVE Fresh
    BY <1>1, <2>4 DEF LookupReturns, Result
  <2> QED BY <2>1, <2>2, <2>3, <2>4
<1>2. ResolverInv /\ [Next]_vars => [Answering /\ answer'.hostname # NoHost => Fresh]_vars
  BY <1>1
<1> QED BY <1>2, Invariance, PTL DEF Spec, StalenessBounded

\* After a lookup DNS is left alone for the lifetime that applied then: no
\* purge, no change of the lifetime and no negative answer shortens that.
THEOREM DnsNotHammered == Spec => LookupsSpaced
<1>1. ASSUME ResolverInv, Next, Idle, call' # NoCall, call' \in DOMAIN quiet'
      PROVE  clock >= quiet[call']
  <2>1. call' # call
    BY <1>1 DEF Idle
  <2>2. ~World /\ ~ClearCache /\ ~PurgeCache /\ (\A t : ~SetTtl(t)) /\ (\A o : ~LookupReturns(o))
        /\ \A ip : ~ResolveInvalid(ip) /\ ~ResolveCached(ip) /\ ~refresh(ip)
    BY <1>1, <2>1 DEF World, Tick, DnsChanges, ClearCache, PurgeCache, SetTtl, ResolveInvalid,
                      ResolveCached, refresh, LookupReturns, clientVars
  <2>3. \A ip : ~ResolveForced(ip)
    BY <1>1 DEF ResolveForced, Erase
  <2>4. PICK ip \in Ips \cup BadIps : ResolveMiss(ip)
    BY <1>1, <2>2, <2>3 DEF Next
  <2>5. /\ call' = ip /\ ip \in DOMAIN quiet /\ quiet[ip] \in Nat /\ clock \in Nat
        /\ ip \in DOMAIN entries => clock >= entries[ip].expiresAt
    BY <1>1, <2>4 DEF ResolveMiss, Cache!Hit, Cache!isExpired, historyVars, ResolverInv, TypeOK
  <2>6. \/ ip \in DOMAIN entries /\ quiet[ip] = entries[ip].expiresAt
        \/ quiet[ip] <= clock
    BY <1>1, <2>5 DEF ResolverInv, EntriesKeepQuiet
  <2> QED BY <2>5, <2>6
<1>2. ResolverInv /\ [Next]_vars =>
        [Idle /\ call' # NoCall /\ call' \in DOMAIN quiet' => clock >= quiet[call']]_vars
  BY <1>1
<1> QED BY <1>2, Invariance, PTL DEF Spec, LookupsSpaced

\* After a refresh the cache does not answer for the address until DNS has.
THEOREM RefreshReachesDns == Spec => RefreshAsksDns
<1>1. ASSUME ResolverInv, Next, Answering, answer'.cacheHit PROVE answer'.ip \in DOMAIN quiet
  <2>1. PICK ip \in Ips \cup BadIps : \/ ResolveInvalid(ip) \/ ResolveCached(ip)
                                      \/ \E o : LookupReturns(o) /\ ip = call
    BY <1>1, WhoAnswers
  <2>2. ~ResolveInvalid(ip) /\ \A o : ~LookupReturns(o)
    BY <1>1 DEF ResolveInvalid, LookupReturns, Result
  <2>3. ip \in DOMAIN entries /\ answer'.ip = ip
    BY <2>1, <2>2 DEF ResolveCached, Cache!Hit, Result
  <2> QED BY <1>1, <2>3 DEF ResolverInv, EntriesKeepQuiet
<1>2. ResolverInv /\ [Next]_vars => [Answering /\ answer'.cacheHit => answer'.ip \in DOMAIN quiet]_vars
  BY <1>1
<1> QED BY <1>2, Invariance, PTL DEF Spec, RefreshAsksDns

-----------------------------------------------------------------------------
(* Attribution: the inductive invariant.                                   *)

\* What is known of a process.
ProcessKnown == [name : ProcNames \cup {NoName}, status : {"RUNNING", "TERMINATED"}]

AttributionTyped ==
    /\ running \in [Pids -> ProcNames \cup {NoName}]
    /\ trackedProcesses \in [DOMAIN trackedProcesses -> ProcessKnown]
    /\ \A p \in DOMAIN trackedProcesses : trackedProcesses[p].status = "RUNNING"
    /\ processCache \in [DOMAIN processCache -> ProcessKnown]

\* The first snapshot is compared with nothing, so it may safely go unreported.
UnseededIsEmpty == ~seeded => DOMAIN trackedProcesses = {}

\* The tracker holds what was listed last.  It has lost what a reset of its own
\* took, which is on record unless the attributor has been reset since.
ListedIsTracked ==
    /\ DOMAIN trackedProcesses \subseteq DOMAIN listed
    /\ (DOMAIN listed \cap DOMAIN lastOwner) \ forgotten \subseteq DOMAIN trackedProcesses

\* The cache knows every process listed since the attributor was reset, under
\* the name it was last listed with.
OwnersCached ==
    \A p \in DOMAIN lastOwner : p \in DOMAIN processCache /\ processCache[p].name = lastOwner[p].name

AttributionInv ==
    /\ AttributionTyped
    /\ UnseededIsEmpty
    /\ ListedIsTracked
    /\ OwnersCached
    /\ CacheFollowsTracker

-----------------------------------------------------------------------------
(* Attribution: a process poll.                                            *)

\* The events of an update tell, for every PID that was tracked or is listed,
\* whether it came or went, and there is one event at most for a PID.
LEMMA ChangesTold ==
    ASSUME AttributionInv, NEW snap,
           NEW e \in Tracker!Changes(snap)
    PROVE  \/ /\ e.pid \in DOMAIN snap \ DOMAIN trackedProcesses
              /\ e.info = snap[e.pid]
           \/ /\ e.pid \in DOMAIN trackedProcesses \ DOMAIN snap
              /\ e.info = [trackedProcesses[e.pid] EXCEPT !.status = "TERMINATED"]
  BY DEF Tracker!Changes, Tracker!Created, Tracker!Terminated, Tracker!Event

\* What the cache holds after a poll, PID by PID.
LEMMA SyncEffect ==
    ASSUME AttributionInv, NEW snap,
           Attributor!syncProcesses(snap, Tracker!Changes(snap))
    PROVE  /\ DOMAIN processCache \cup DOMAIN snap \subseteq DOMAIN processCache'
           /\ processCache' = [p \in DOMAIN processCache' |-> processCache'[p]]
           /\ \A p \in DOMAIN snap : processCache'[p] = snap[p]
           /\ \A p \in DOMAIN processCache' \ DOMAIN snap :
                 \/ /\ p \in DOMAIN trackedProcesses
                    /\ processCache'[p] = [trackedProcesses[p] EXCEPT !.status = "TERMINATED"]
                 \/ /\ p \notin DOMAIN trackedProcesses
                    /\ p \in DOMAIN processCache
                    /\ processCache'[p] = processCache[p]
<1> DEFINE events == Tracker!Changes(snap)
           told == {e.pid : e \in events}
           Chosen(p) == CHOOSE e \in events : e.pid = p
<1>1. processCache' = Attributor!Put(Attributor!Put(processCache, snap),
                                     [p \in told |-> Chosen(p).info])
  BY DEF Attributor!syncProcesses
<1>2. /\ DOMAIN processCache' = DOMAIN processCache \cup DOMAIN snap \cup told
      /\ processCache' = [p \in DOMAIN processCache' |-> processCache'[p]]
      /\ \A p \in told : processCache'[p] = Chosen(p).info
      /\ \A p \in DOMAIN snap \ told : processCache'[p] = snap[p]
      /\ \A p \in DOMAIN processCache \ (DOMAIN snap \cup told) : processCache'[p] = processCache[p]
  BY <1>1 DEF Attributor!Put
<1>3. ASSUME NEW p \in told
      PROVE  Chosen(p) \in events /\ Chosen(p).pid = p
  <2>1. \E e \in events : e.pid = p
    OBVIOUS
  <2> QED BY <2>1
<1>4. ASSUME NEW p \in told
      PROVE  \/ p \in DOMAIN snap \ DOMAIN trackedProcesses /\ processCache'[p] = snap[p]
             \/ /\ p \in DOMAIN trackedProcesses \ DOMAIN snap
                /\ processCache'[p] = [trackedProcesses[p] EXCEPT !.status = "TERMINATED"]
  <2>1. Chosen(p) \in Tracker!Changes(snap) /\ Chosen(p).pid = p /\ processCache'[p] = Chosen(p).info
    BY <1>2, <1>3
  <2> HIDE DEF Chosen
  <2> QED BY <2>1, ChangesTold
<1>5. ASSUME NEW p \in DOMAIN trackedProcesses \ DOMAIN snap PROVE p \in told
  <2>1. seeded
    BY DEF AttributionInv, UnseededIsEmpty
  <2>2. Tracker!Event("TERMINATED", p, [trackedProcesses[p] EXCEPT !.status = "TERMINATED"]) \in events
    BY <2>1 DEF Tracker!Changes, Tracker!Terminated
  <2>3. Tracker!Event("TERMINATED", p, [trackedProcesses[p] EXCEPT !.status = "TERMINATED"]).pid = p
    BY DEF Tracker!Event
  <2> QED BY <2>2, <2>3
<1> HIDE DEF told, Chosen, events
<1> QED BY <1>2, <1>4, <1>5

\* A process snapshot lists running processes, under the names they have.
LEMMA SnapshotRunning ==
    ASSUME AttributionTyped, NEW reached \in SUBSET Pids,
           NEW snap, snap = getActiveProcesses(reached)
    PROVE  /\ snap \in [DOMAIN snap -> ProcessKnown]
           /\ \A p \in DOMAIN snap : snap[p].status = "RUNNING" /\ snap[p].name = running[p]
  BY DEF AttributionTyped, getActiveProcesses, ProcessKnown

\* A poll brings cache and tracker together.
LEMMA PollProcessesInv ==
    ASSUME AttributionInv, NEW reached \in SUBSET Pids, PollProcesses(reached)
    PROVE  AttributionInv'
<1> DEFINE snap == getActiveProcesses(reached)
<1>1. /\ snap \in [DOMAIN snap -> ProcessKnown]
      /\ \A p \in DOMAIN snap : snap[p].status = "RUNNING" /\ snap[p].name = running[p]
  BY SnapshotRunning DEF AttributionInv
<1>2. /\ trackedProcesses' = snap /\ seeded' = TRUE
      /\ Attributor!syncProcesses(snap, Tracker!Changes(snap))
      /\ DOMAIN listed' = DOMAIN snap
      /\ DOMAIN lastOwner' = DOMAIN lastOwner \cup DOMAIN snap
      /\ \A p \in DOMAIN snap : lastOwner'[p].name = running[p]
      /\ \A p \in DOMAIN lastOwner \ DOMAIN snap : lastOwner'[p] = lastOwner[p]
      /\ forgotten' = forgotten \ DOMAIN snap
      /\ running' = running
  BY DEF PollProcesses, Tracker!update, Put, hostVars
<1> HIDE DEF snap
<1>3. /\ DOMAIN processCache \cup DOMAIN snap \subseteq DOMAIN processCache'
      /\ processCache' = [p \in DOMAIN processCache' |-> processCache'[p]]
      /\ \A p \in DOMAIN snap : processCache'[p] = snap[p]
      /\ \A p \in DOMAIN processCache' \ DOMAIN snap :
            \/ /\ p \in DOMAIN trackedProcesses
               /\ processCache'[p] = [trackedProcesses[p] EXCEPT !.status = "TERMINATED"]
            \/ /\ p \notin DOMAIN trackedProcesses
               /\ p \in DOMAIN processCache
               /\ processCache'[p] = processCache[p]
  BY <1>2, SyncEffect
<1>4. ASSUME NEW p \in DOMAIN trackedProcesses
      PROVE  LET gone == [trackedProcesses[p] EXCEPT !.status = "TERMINATED"]
             IN  gone \in ProcessKnown /\ gone.status = "TERMINATED"
                 /\ gone.name = trackedProcesses[p].name
  BY DEF AttributionInv, AttributionTyped, ProcessKnown
<1>5. AttributionTyped'
  <2>1. ASSUME NEW p \in DOMAIN processCache' PROVE processCache'[p] \in ProcessKnown
    BY <1>1, <1>3, <1>4 DEF AttributionInv, AttributionTyped
  <2>2. processCache' \in [DOMAIN processCache' -> ProcessKnown]
    BY <1>3, <2>1
  <2> QED BY <1>1, <1>2, <2>2 DEF AttributionInv, AttributionTyped
<1>6. UnseededIsEmpty' /\ ListedIsTracked'
  BY <1>2 DEF UnseededIsEmpty, ListedIsTracked
<1>7. OwnersCached'
  <2> SUFFICES ASSUME NEW p \in DOMAIN lastOwner'
               PROVE  p \in DOMAIN processCache' /\ processCache'[p].name = lastOwner'[p].name
    BY DEF OwnersCached
  <2>1. CASE p \in DOMAIN snap
    BY <2>1, <1>1, <1>2, <1>3
  <2>2. CASE p \notin DOMAIN snap
    <3>1. /\ p \in DOMAIN lastOwner /\ lastOwner'[p] = lastOwner[p]
          /\ p \in DOMAIN processCache /\ processCache[p].name = lastOwner[p].name
      BY <2>2, <1>2 DEF AttributionInv, OwnersCached
    <3>2. p \in DOMAIN trackedProcesses => trackedProcesses[p] = processCache[p]
      BY <3>1 DEF AttributionInv, CacheFollowsTracker
    <3> QED BY <2>2, <1>3, <1>4, <3>1, <3>2
  <2> QED BY <2>1, <2>2
<1>8. CacheFollowsTracker'
  <2>1. ASSUME NEW p \in DOMAIN processCache', processCache'[p].status = "RUNNING",
               p \notin forgotten'
        PROVE  p \in DOMAIN snap
    <3> SUFFICES ASSUME p \notin DOMAIN snap PROVE FALSE
      OBVIOUS
    <3>1. p \notin DOMAIN trackedProcesses /\ p \in DOMAIN processCache
          /\ processCache'[p] = processCache[p]
      BY <2>1, <1>3, <1>4
    <3>2. p \in CachedRunning \ forgotten
      BY <2>1, <1>2, <3>1 DEF CachedRunning
    <3> QED BY <3>1, <3>2 DEF AttributionInv, CacheFollowsTracker
  <2>2. \A p \in DOMAIN trackedProcesses' \cap DOMAIN lastOwner' :
            processCache'[p] = trackedProcesses'[p]
    BY <1>2, <1>3
  <2> QED BY <1>2, <2>1, <2>2 DEF CacheFollowsTracker, CachedRunning
<1> QED BY <1>5, <1>6, <1>7, <1>8 DEF AttributionInv

-----------------------------------------------------------------------------
(* Attribution: the other steps.                                           *)

\* Nothing but a poll or a reset touches what the invariant is about; the
\* processes the host runs keep their type.
LEMMA BystanderInv ==
    ASSUME AttributionInv, UNCHANGED <<trackerVars, processCache, listingVars>>,
           running' \in [Pids -> ProcNames \cup {NoName}]
    PROVE  AttributionInv'
<1>1. UNCHANGED <<trackedProcesses, seeded, processCache, listed, lastOwner, forgotten>>
  BY DEF trackerVars, listingVars
<1>2. AttributionTyped' /\ ListedIsTracked' /\ OwnersCached'
  BY <1>1 DEF AttributionInv, AttributionTyped, ListedIsTracked, OwnersCached
<1>3. UnseededIsEmpty'
  BY <1>1 DEF AttributionInv, UnseededIsEmpty
<1>4. CacheFollowsTracker'
  BY <1>1 DEF AttributionInv, CacheFollowsTracker, CachedRunning
<1> QED BY <1>2, <1>3, <1>4 DEF AttributionInv

\* The host moves on.
LEMMA EnvironmentInv == AttributionInv /\ Environment => AttributionInv'
<1> SUFFICES ASSUME AttributionInv, Environment PROVE AttributionInv'
  OBVIOUS
<1>1. running' \in [Pids -> ProcNames \cup {NoName}]
  BY DEF AttributionInv, AttributionTyped, Environment, Processes, HostStep, ExitProcess,
         StartProcess, Connect, Disconnect, hostVars
<1> QED BY <1>1, BystanderInv DEF Environment, Processes, Connect, Disconnect, attributorVars

\* Connections are attributed.
LEMMA PollConnectionsInv == AttributionInv /\ PollConnections => AttributionInv'
  BY BystanderInv DEF PollConnections, hostVars, AttributionInv, AttributionTyped

\* The tracker forgets; what it forgot is on record.
LEMMA ResetTrackerInv == AttributionInv /\ ResetTracker => AttributionInv'
<1> SUFFICES ASSUME AttributionInv, ResetTracker PROVE AttributionInv'
  OBVIOUS
<1>1. /\ DOMAIN trackedProcesses' = {} /\ trackedProcesses' = EmptyMap
      /\ forgotten' = forgotten \cup DOMAIN trackedProcesses
      /\ UNCHANGED <<running, processCache, listed, lastOwner>>
  BY DEF ResetTracker, Tracker!reset, Tracker!EmptyMap, EmptyMap, hostVars, attributorVars
<1>2. AttributionTyped'
  <2>1. trackedProcesses' \in [DOMAIN trackedProcesses' -> ProcessKnown]
    BY <1>1 DEF EmptyMap
  <2> QED BY <1>1, <2>1 DEF AttributionInv, AttributionTyped
<1>3. UnseededIsEmpty' /\ ListedIsTracked' /\ OwnersCached'
  BY <1>1 DEF AttributionInv, UnseededIsEmpty, ListedIsTracked, OwnersCached
<1>4. CacheFollowsTracker'
  BY <1>1 DEF AttributionInv, CacheFollowsTracker, CachedRunning
<1> QED BY <1>2, <1>3, <1>4 DEF AttributionInv

\* The attributor forgets everything.
LEMMA ResetAttributorInv == AttributionInv /\ ResetAttributor => AttributionInv'
<1> SUFFICES ASSUME AttributionInv, ResetAttributor PROVE AttributionInv'
  OBVIOUS
<1>1. /\ processCache' = EmptyMap /\ DOMAIN processCache' = {} /\ DOMAIN lastOwner' = {}
      /\ UNCHANGED <<running, trackedProcesses, seeded, listed>>
  BY DEF ResetAttributor, Attributor!reset, Attributor!EmptyMap, EmptyMap, hostVars, trackerVars
<1>2. AttributionTyped'
  <2>1. processCache' \in [DOMAIN processCache' -> ProcessKnown]
    BY <1>1 DEF EmptyMap
  <2> QED BY <1>1, <2>1 DEF AttributionInv, AttributionTyped
<1>3. ListedIsTracked' /\ OwnersCached'
  BY <1>1 DEF AttributionInv, ListedIsTracked, OwnersCached
<1>4. UnseededIsEmpty'
  BY <1>1 DEF AttributionInv, UnseededIsEmpty
<1>5. CacheFollowsTracker'
  BY <1>1 DEF CacheFollowsTracker, CachedRunning
<1> QED BY <1>2, <1>3, <1>4, <1>5 DEF AttributionInv

\* Initially nobody knows anything.
LEMMA AttributionStarts == AttributionInit => AttributionInv
<1> SUFFICES ASSUME AttributionInit PROVE AttributionInv
  OBVIOUS
<1> USE DEF AttributionInit, Tracker!Init, Attributor!Init, Tracker!EmptyMap,
            Attributor!EmptyMap, EmptyMap
<1>1. AttributionTyped
  BY DEF AttributionTyped, HostInit
<1>2. UnseededIsEmpty /\ ListedIsTracked /\ OwnersCached
  BY DEF UnseededIsEmpty, ListedIsTracked, OwnersCached
<1>3. CacheFollowsTracker
  BY DEF CacheFollowsTracker, CachedRunning
<1> QED BY <1>1, <1>2, <1>3 DEF AttributionInv

\* The invariant is preserved by every step and so holds in every behaviour.
LEMMA AttributionInvariance == AttributionSpec => []AttributionInv
<1>1. AttributionInv /\ [AttributionNext]_attributionVars => AttributionInv'
  <2> SUFFICES ASSUME AttributionInv, [AttributionNext]_attributionVars PROVE AttributionInv'
    OBVIOUS
  <2>1. CASE UNCHANGED attributionVars
    BY <2>1, BystanderInv DEF attributionVars, hostVars, attributorVars, AttributionInv, AttributionTyped
  <2> QED BY <2>1, EnvironmentInv, PollProcessesInv, PollConnectionsInv, ResetTrackerInv,
             ResetAttributorInv DEF AttributionNext
<1> QED BY <1>1, AttributionStarts, PTL DEF AttributionSpec

-----------------------------------------------------------------------------
(* Attribution: the theorems.                                              *)

\* The cache takes a process to run exactly when the tracker does, for every
\* history of starts, exits, failed snapshots and resets.
THEOREM CacheAgrees == AttributionSpec => []CacheFollowsTracker
<1>1. AttributionInv => CacheFollowsTracker
  BY DEF AttributionInv
<1> QED BY <1>1, AttributionInvariance, PTL

\* A connection is given the name and the state of the process that was last
\* listed under its PID, and so of its own when that one was listed.
THEOREM ConnectionsNamed == AttributionSpec => OwnersNamed
<1> DEFINE Named(c) ==
        LET a == attributedConnections'[c]
            p == PidOf[c]
        IN  PollConnections /\ p \in DOMAIN lastOwner /\ lastOwner[p].number = owner[c] =>
               /\ a.hasProcessInfo
               /\ a.name = lastOwner[p].name
               /\ p \notin forgotten => (a.processTerminated <=> p \notin DOMAIN listed)
<1>1. ASSUME AttributionInv, NEW c \in DOMAIN attributedConnections', PollConnections,
             PidOf[c] \in DOMAIN lastOwner
      PROVE  LET a == attributedConnections'[c]
                 p == PidOf[c]
             IN  /\ a.hasProcessInfo
                 /\ a.name = lastOwner[p].name
                 /\ p \notin forgotten => (a.processTerminated <=> p \notin DOMAIN listed)
  <2> DEFINE p == PidOf[c]
             a == attributedConnections'[c]
  <2>1. PICK read \in SUBSET OpenConns :
            attributedConnections' =
                [d \in read |-> Attributor!buildAttributedConnection(PidOf[d])]
    BY <1>1 DEF PollConnections, Attributor!attribute
  <2>2. p \in DOMAIN processCache /\ processCache[p].name = lastOwner[p].name
        /\ processCache[p].status \in {"RUNNING", "TERMINATED"}
    BY <1>1 DEF AttributionInv, OwnersCached, AttributionTyped, ProcessKnown
  <2>3. a = [pid |-> p, hasProcessInfo |-> TRUE, name |-> processCache[p].name,
             processTerminated |-> processCache[p].status = "TERMINATED"]
    BY <1>1, <2>1, <2>2 DEF Attributor!buildAttributedConnection
  <2>4. /\ a.hasProcessInfo
        /\ a.name = lastOwner[p].name
        /\ a.processTerminated <=> processCache[p].status = "TERMINATED"
    <3> HIDE DEF a
    <3>1. /\ a.hasProcessInfo = TRUE
          /\ a.name = processCache[p].name
          /\ a.processTerminated = (processCache[p].status = "TERMINATED")
      BY <2>3, Zenon
    <3> QED BY <2>2, <3>1
  <2>5. ASSUME p \notin forgotten, p \in DOMAIN listed
        PROVE  processCache[p].status = "RUNNING"
    BY <1>1, <2>5 DEF AttributionInv, ListedIsTracked, CacheFollowsTracker, AttributionTyped
  <2>6. ASSUME p \notin forgotten, p \notin DOMAIN listed
        PROVE  processCache[p].status = "TERMINATED"
    BY <1>1, <2>2, <2>6 DEF AttributionInv, ListedIsTracked, CacheFollowsTracker, CachedRunning
  <2> QED BY <2>4, <2>5, <2>6
<1>2. AttributionInv => [\A c \in DOMAIN attributedConnections' : Named(c)]_attributionVars
  BY <1>1
<1> QED BY <1>2, AttributionInvariance, PTL DEF OwnersNamed
=============================================================================
