----------------------------- MODULE PiGateway -----------------------------
(***************************************************************************)
(* The read cache between the browsers and the Pi (app/pi_gateway.py).     *)
(* Reads are answered from the cache while it is young, refreshed in the   *)
(* background and otherwise asked of the Pi, one read per key at a time.   *)
(* Commands are sent once; the answer to one empties the cache and starts  *)
(* a new generation.  One event loop runs everything, so an action is the  *)
(* code between two awaits.                                                *)
(***************************************************************************)
EXTENDS Naturals, Sequences, FiniteSets

CONSTANTS
  Keys,         \* method, target and credentials of a read
  NoKey,        \* not a key
  Tabs,         \* requests that browsers may have open at once
  Sizes,        \* lengths of bodies, in units
  MaxCache,     \* MAX_CACHE in the same units
  MaxEntries,   \* 64 in the code
  MaxCommands,  \* bound: commands the Pi executes
  MaxAgings     \* bound: steps of age, over all entries

ASSUME GatewayAssumption ==
  /\ NoKey \notin Keys /\ IsFiniteSet(Tabs) /\ Sizes \subseteq Nat
  /\ MaxCache \in Nat /\ MaxEntries \in Nat \ {0}
  /\ MaxCommands \in Nat /\ MaxAgings \in Nat

VARIABLES
  pi,          \* how many commands the Pi has executed: what a read shows
  confirmed,   \* the latest of them whose answer has reached the gateway
  cache,       \* the remembered reads, oldest first
  cacheBytes,  \* cache_bytes
  generation,
  refreshing,  \* the background read of each key
  locks,       \* the lock object of each key, 0 for none
  tab,         \* the request of each tab
  lapses

gatewayVars == <<pi, confirmed, cache, cacheBytes, generation, refreshing, locks, tab, lapses>>

Young == 0      \* younger than READ_TTL
Ageing == 1     \* shown, and refreshed in the background
Expired == 2    \* 24 hours or more
NoVersion == MaxCommands + 1     \* no version

Entry == [key : Keys, version : 0..MaxCommands, size : Sizes, generation : Nat, age : Young..Expired]
NoRefresh == [stage |-> "none", generation |-> 0, version |-> NoVersion]
Idle == [stage |-> "idle", key |-> NoKey, lock |-> 0, generation |-> 0, version |-> NoVersion,
         fallback |-> NoVersion, since |-> 0]

\* Stages in which a tab has registered itself with its key's lock (lock_users).
Queued == {"waiting", "sent", "answered"}

TabRequest == [stage : {"idle", "command", "executed", "shown"} \cup Queued,
               key : Keys \cup {NoKey}, lock : 0..Cardinality(Tabs), generation : Nat,
               version : 0..NoVersion, fallback : 0..NoVersion, since : 0..MaxCommands]
BackgroundRead == [stage : {"none", "scheduled", "sent", "answered"}, generation : Nat,
                   version : 0..NoVersion]

GatewayTypeOK ==
  /\ pi \in 0..MaxCommands /\ confirmed \in 0..pi
  /\ cache \in Seq(Entry) /\ cacheBytes \in 0..MaxCache
  /\ generation \in Nat /\ lapses \in 0..MaxAgings
  /\ refreshing \in [Keys -> BackgroundRead]
  /\ locks \in [Keys -> 0..Cardinality(Tabs)]
  /\ tab \in [Tabs -> TabRequest]

GatewayInit ==
  /\ pi = 0 /\ confirmed = 0 /\ cache = <<>> /\ cacheBytes = 0
  /\ generation = 0 /\ lapses = 0
  /\ refreshing = [k \in Keys |-> NoRefresh]
  /\ locks = [k \in Keys |-> 0]
  /\ tab = [t \in Tabs |-> Idle]

-----------------------------------------------------------------------------
(* The cache *)

\* The bodies of some entries together.
Bytes(s) ==
  LET total[n \in 0..Len(s)] == IF n = 0 THEN 0 ELSE total[n - 1] + s[n].size
  IN total[Len(s)]

\* A key has one entry: a dictionary that keeps the order of insertion.
Cached(k) == \E n \in DOMAIN cache : cache[n].key = k
Position(k) == CHOOSE n \in DOMAIN cache : cache[n].key = k
Lookup(k) == cache[Position(k)]
Others(k) ==
  IF Cached(k) THEN SubSeq(cache, 1, Position(k) - 1) \o SubSeq(cache, Position(k) + 1, Len(cache))
  ELSE cache
AgeOf(k) == IF Cached(k) THEN Lookup(k).age ELSE Expired

\* The eviction loop: the oldest entries go until the count of bytes and the number of entries keep
\* the limits.  There would be nothing left to take if the count were wrong.
Fits(bytes, entries) == bytes <= MaxCache /\ entries <= MaxEntries
Oldest(s, n) == SubSeq(s, 1, n)
Newest(s, n) == SubSeq(s, n + 1, Len(s))
Evicted(s, bytes) ==
  LET fits(n) == Fits(bytes - Bytes(Oldest(s, n)), Len(s) - n)
  IN CHOOSE n \in 0..Len(s) : fits(n) /\ \A m \in 0..Len(s) : m < n => ~fits(m)

Current_Always(g) == TRUE
Current(g) == g = generation

Freed(k) == IF Cached(k) THEN Lookup(k).size ELSE 0

\* remember: a body read in an earlier generation is dropped.
Remember(k, version, size, g) ==
  IF Current(g)
  THEN LET s == Append(Others(k), [key |-> k, version |-> version, size |-> size,
                                   generation |-> g, age |-> Young])
           bytes == cacheBytes - Freed(k) + size
           n == Evicted(s, bytes)
       IN cache' = Newest(s, n) /\ cacheBytes' = bytes - Bytes(Oldest(s, n))
  ELSE UNCHANGED <<cache, cacheBytes>>

Forget(k) == cache' = Others(k) /\ cacheBytes' = cacheBytes - Freed(k)

-----------------------------------------------------------------------------
(* Reads *)

Starts(t) == tab[t].stage \in {"idle", "shown"}
Unlocked(t) == \A u \in Tabs : tab[u].lock = tab[t].lock => tab[u].stage \notin {"sent", "answered"}
NewLock == CHOOSE n \in 1..Cardinality(Tabs) : \A u \in Tabs : tab[u].lock # n

Show(t, version) ==
  tab' = [tab EXCEPT ![t].stage = "shown", ![t].version = version, ![t].lock = 0,
                     ![t].fallback = NoVersion, ![t].generation = 0]

\* proxy's first look: an entry that has not expired is shown at once, and an ageing one refreshed.
ShowCached(t, k) ==
  /\ Starts(t) /\ AgeOf(k) < Expired
  /\ tab' = [tab EXCEPT ![t] = [Idle EXCEPT !.stage = "shown", !.key = k, !.since = confirmed,
                                            !.version = Lookup(k).version]]
  /\ refreshing' = IF AgeOf(k) # Young /\ refreshing[k].stage = "none"
                   THEN [refreshing EXCEPT ![k].stage = "scheduled"] ELSE refreshing
  /\ UNCHANGED <<pi, confirmed, cache, cacheBytes, generation, locks, lapses>>

\* Otherwise the tab registers with the key's lock, which the first one creates.
WaitTurn(t, k) ==
  LET lock == IF locks[k] = 0 THEN NewLock ELSE locks[k] IN
  /\ Starts(t) /\ AgeOf(k) = Expired
  /\ locks' = [locks EXCEPT ![k] = lock]
  /\ tab' = [tab EXCEPT ![t] = [Idle EXCEPT !.stage = "waiting", !.key = k, !.lock = lock,
                                            !.since = confirmed]]
  /\ UNCHANGED <<pi, confirmed, cache, cacheBytes, generation, refreshing, lapses>>

\* The last user takes the lock out of the table.
Left_Alone(t) == {}
Left(t) == {u \in Tabs \ {t} : tab[u].key = tab[t].key /\ tab[u].stage \in Queued}
Unregister(t) ==
  locks' = IF Left(t) = {} THEN [locks EXCEPT ![tab[t].key] = 0] ELSE locks

\* Under the lock a fresh entry, read by the tab before, is shared.
ShowShared(t) ==
  LET k == tab[t].key IN
  /\ tab[t].stage = "waiting" /\ Unlocked(t) /\ AgeOf(k) = Young
  /\ Show(t, Lookup(k).version) /\ Unregister(t)
  /\ UNCHANGED <<pi, confirmed, cache, cacheBytes, generation, refreshing, lapses>>

Send(t) ==
  LET k == tab[t].key IN
  /\ tab[t].stage = "waiting" /\ Unlocked(t) /\ AgeOf(k) # Young
  /\ tab' = [tab EXCEPT ![t].stage = "sent", ![t].generation = generation,
               ![t].fallback = IF AgeOf(k) = Expired THEN NoVersion ELSE Lookup(k).version]
  /\ UNCHANGED <<pi, confirmed, cache, cacheBytes, generation, refreshing, locks, lapses>>

PiAnswers(t) ==
  /\ tab[t].stage = "sent"
  /\ tab' = [tab EXCEPT ![t].stage = "answered", ![t].version = pi]
  /\ UNCHANGED <<pi, confirmed, cache, cacheBytes, generation, refreshing, locks, lapses>>

\* A complete answer with status 200 is remembered; another status or a film is passed on.
Receive(t) ==
  /\ tab[t].stage = "answered"
  /\ \/ \E size \in Sizes : Remember(tab[t].key, tab[t].version, size, tab[t].generation)
     \/ UNCHANGED <<cache, cacheBytes>>
  /\ Show(t, tab[t].version) /\ Unregister(t)
  /\ UNCHANGED <<pi, confirmed, generation, refreshing, lapses>>

\* The Pi cannot be reached or its body is too long: an older entry is shown, or a 503.
ReadFails(t) ==
  /\ tab[t].stage \in {"sent", "answered"}
  /\ IF tab[t].fallback # NoVersion THEN Show(t, tab[t].fallback)
     ELSE tab' = [tab EXCEPT ![t] = Idle]
  /\ Unregister(t)
  /\ UNCHANGED <<pi, confirmed, cache, cacheBytes, generation, refreshing, lapses>>

-----------------------------------------------------------------------------
(* Background refresh *)

RefreshSend(k) ==
  /\ refreshing[k].stage = "scheduled"
  /\ refreshing' = [refreshing EXCEPT ![k].stage = "sent", ![k].generation = generation]
  /\ UNCHANGED <<pi, confirmed, cache, cacheBytes, generation, locks, tab, lapses>>

RefreshAnswer(k) ==
  /\ refreshing[k].stage = "sent"
  /\ refreshing' = [refreshing EXCEPT ![k].stage = "answered", ![k].version = pi]
  /\ UNCHANGED <<pi, confirmed, cache, cacheBytes, generation, locks, tab, lapses>>

RefreshStore(k) ==
  /\ refreshing[k].stage = "answered"
  /\ \E size \in Sizes : Remember(k, refreshing[k].version, size, refreshing[k].generation)
  /\ refreshing' = [refreshing EXCEPT ![k] = NoRefresh]
  /\ UNCHANGED <<pi, confirmed, generation, locks, tab, lapses>>

\* Another status than 200 takes the entry out of the cache.
RefreshRefused(k) ==
  /\ refreshing[k].stage = "answered"
  /\ Forget(k)
  /\ refreshing' = [refreshing EXCEPT ![k] = NoRefresh]
  /\ UNCHANGED <<pi, confirmed, generation, locks, tab, lapses>>

RefreshFails(k) ==
  /\ refreshing[k].stage \in {"sent", "answered"}
  /\ refreshing' = [refreshing EXCEPT ![k] = NoRefresh]
  /\ UNCHANGED <<pi, confirmed, cache, cacheBytes, generation, locks, tab, lapses>>

-----------------------------------------------------------------------------
(* Commands *)

Command(t) ==
  /\ Starts(t)
  /\ tab' = [tab EXCEPT ![t] = [Idle EXCEPT !.stage = "command"]]
  /\ UNCHANGED <<pi, confirmed, cache, cacheBytes, generation, refreshing, locks, lapses>>

PiExecutes(t) ==
  /\ tab[t].stage = "command" /\ pi < MaxCommands
  /\ pi' = pi + 1
  /\ tab' = [tab EXCEPT ![t].stage = "executed", ![t].version = pi + 1]
  /\ UNCHANGED <<confirmed, cache, cacheBytes, generation, refreshing, locks, lapses>>

\* The answer has arrived: invalidate.
Confirm(t) ==
  /\ tab[t].stage = "executed"
  /\ generation' = generation + 1 /\ cache' = <<>> /\ cacheBytes' = 0
  /\ confirmed' = IF tab[t].version > confirmed THEN tab[t].version ELSE confirmed
  /\ tab' = [tab EXCEPT ![t] = Idle]
  /\ UNCHANGED <<pi, refreshing, locks, lapses>>

\* "The Pi did not confirm this command": it may have executed it, the cache stays.
Unconfirmed(t) ==
  /\ tab[t].stage \in {"command", "executed"}
  /\ tab' = [tab EXCEPT ![t] = Idle]
  /\ UNCHANGED <<pi, confirmed, cache, cacheBytes, generation, refreshing, locks, lapses>>

Age(n) ==
  /\ lapses < MaxAgings /\ cache[n].age < Expired
  /\ cache' = [cache EXCEPT ![n].age = @ + 1] /\ lapses' = lapses + 1
  /\ UNCHANGED <<pi, confirmed, cacheBytes, generation, refreshing, locks, tab>>

GatewayNext ==
  \/ \E t \in Tabs, k \in Keys : ShowCached(t, k) \/ WaitTurn(t, k)
  \/ \E t \in Tabs :
       \/ ShowShared(t) \/ Send(t) \/ PiAnswers(t) \/ Receive(t) \/ ReadFails(t)
       \/ Command(t) \/ PiExecutes(t) \/ Confirm(t) \/ Unconfirmed(t)
  \/ \E k \in Keys :
       RefreshSend(k) \/ RefreshAnswer(k) \/ RefreshStore(k) \/ RefreshRefused(k) \/ RefreshFails(k)
  \/ \E n \in DOMAIN cache : Age(n)

GatewaySpec == GatewayInit /\ [][GatewayNext]_gatewayVars

-----------------------------------------------------------------------------
(* Properties *)

\* A read that begins after a command was confirmed never shows the Pi as it was before that
\* command, whichever cached, shared, refreshed or fallback answer it gets (generation in
\* remember and refresh).
ReadsSeeCommands ==
  \A t \in Tabs : tab[t].stage = "shown" => tab[t].version >= tab[t].since

\* "One upstream read serves concurrent tabs. Waiters keep this lock alive": two tabs never ask
\* the Pi for the same key at once (locks and lock_users).
OneReadPerKey ==
  \A t, u \in Tabs :
    tab[t].stage \in {"sent", "answered"} /\ tab[u].stage \in {"sent", "answered"}
      /\ tab[t].key = tab[u].key => t = u

\* cache_bytes is the length of what the cache holds, and both limits hold between two steps: the
\* loop of remember stops on that count, and with one that is too high it would go on to take
\* entries out of an empty cache.
CacheIsCounted == cacheBytes = Bytes(cache) /\ Fits(cacheBytes, Len(cache))
=============================================================================
