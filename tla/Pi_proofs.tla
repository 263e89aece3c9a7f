------------------------------ MODULE Pi_proofs ------------------------------
(***************************************************************************)
(* Theorems of the two parts that stand between the processor and the Pi:  *)
(* the read cache (PiGateway) and the copy of its upload metadata          *)
(* (ProcessingSync).                                                       *)
(***************************************************************************)
EXTENDS PiGateway, ProcessingSync, FiniteSetTheorems, SequenceTheorems,
  WellFoundedInduction, TLAPS

Reading == {"sent", "answered"}

(***************************************************************************)
(* PiGateway, its locks: a lock that tabs have registered with stays that  *)
(* of their key, no two keys have the same one, and one tab holds it.      *)
(***************************************************************************)

\* Whoever waits for a lock or holds it has that of its key; the others have none.
HasItsLock(r) ==
  IF r.stage \in Queued THEN r.key \in Keys /\ r.lock = locks[r.key] /\ r.lock # 0
  ELSE r.lock = 0

LockUsed(k) == locks[k] # 0 => \E t \in Tabs : tab[t].stage \in Queued /\ tab[t].key = k

LocksInv ==
  /\ locks \in [Keys -> 0..Cardinality(Tabs)] /\ tab \in [Tabs -> TabRequest]
  /\ \A t \in Tabs : HasItsLock(tab[t])
  /\ \A k \in Keys : LockUsed(k)
  /\ \A k, l \in Keys : locks[k] = locks[l] /\ locks[k] # 0 => k = l
  /\ \A t, u \in Tabs :
       tab[t].stage \in Reading /\ tab[u].stage \in Reading /\ tab[t].lock = tab[u].lock => t = u

LEMMA IdleType == Cardinality(Tabs) \in Nat /\ Idle \in TabRequest
<1>1. Cardinality(Tabs) \in Nat
  BY GatewayAssumption, FS_CardinalityType DEF GatewayAssumption
<1>2. QED
  BY <1>1, GatewayAssumption DEF GatewayAssumption, Idle, TabRequest, NoVersion, Queued

LEMMA LocksInvInit == GatewayInit => LocksInv
<1> SUFFICES ASSUME GatewayInit PROVE LocksInv
  OBVIOUS
<1>1. QED
  BY IdleType
     DEF GatewayInit, LocksInv, HasItsLock, LockUsed, Queued, Reading, Idle

\* Two tabs that have a turn at the same key would have the same lock.
LEMMA OneHolderOfKey == LocksInv => OneReadPerKey
  BY DEF LocksInv, HasItsLock, Reading, Queued, OneReadPerKey

\* A tab goes on with the lock it has, and asks the Pi only when it is its turn.
LEMMA SamePlace ==
  ASSUME LocksInv, NEW t \in Tabs, NEW m \in TabRequest,
         tab' = [tab EXCEPT ![t] = m], locks' = locks,
         m.lock = tab[t].lock, m.key = tab[t].key,
         m.stage \in Queued <=> tab[t].stage \in Queued,
         m.stage \in Reading => tab[t].stage \in Reading \/ Unlocked(t)
  PROVE  LocksInv'
  BY DEF LocksInv, HasItsLock, LockUsed, Unlocked, Reading, Queued

\* A tab that has no lock starts something else that needs none.
LEMMA NoPlace ==
  ASSUME LocksInv, NEW t \in Tabs, NEW m \in TabRequest,
         tab' = [tab EXCEPT ![t] = m], locks' = locks,
         tab[t].stage \notin Queued, m.stage \notin Queued, m.lock = 0
  PROVE  LocksInv'
  BY DEF LocksInv, HasItsLock, LockUsed, Reading, Queued

\* A tab is done with its lock; the last one takes the lock away.
LEMMA PlaceLeft ==
  ASSUME LocksInv, NEW t \in Tabs, NEW m \in TabRequest,
         tab' = [tab EXCEPT ![t] = m], Unregister(t),
         tab[t].stage \in Queued, m.stage \notin Queued, m.lock = 0
  PROVE  LocksInv'
<1> DEFINE k == tab[t].key
<1>1. k \in Keys /\ locks[k] = tab[t].lock
  BY DEF LocksInv, HasItsLock
<1>2. CASE Left(t) = {}
  <2>1. locks' = [locks EXCEPT ![k] = 0]
    BY <1>2 DEF Unregister
  <2>2. \A u \in Tabs \ {t} : tab[u].stage \in Queued => tab[u].key # k
    BY <1>2 DEF Left
  <2>3. locks' \in [Keys -> 0..Cardinality(Tabs)] /\ tab' \in [Tabs -> TabRequest]
    BY <2>1, <1>1, GatewayAssumption, FS_CardinalityType DEF LocksInv, GatewayAssumption
  <2> HIDE DEF k
  <2>4. \A u \in Tabs : HasItsLock(tab[u])'
    BY <2>1, <2>2, <1>1 DEF LocksInv, HasItsLock, Queued
  <2>5. \A l \in Keys : LockUsed(l)'
    BY <2>1, <2>2, <1>1 DEF LocksInv, LockUsed, Queued, k
  <2>6. \A l, n \in Keys : locks'[l] = locks'[n] /\ locks'[l] # 0 => l = n
    BY <2>1, <1>1 DEF LocksInv
  <2>7. \A u, v \in Tabs : tab'[u].stage \in Reading /\ tab'[v].stage \in Reading
                           /\ tab'[u].lock = tab'[v].lock => u = v
    BY DEF LocksInv, Reading, Queued
  <2>8. QED
    BY <2>3, <2>4, <2>5, <2>6, <2>7 DEF LocksInv
<1>3. CASE Left(t) # {}
  <2>1. locks' = locks
    BY <1>3 DEF Unregister
  <2>2. PICK u \in Tabs \ {t} : tab[u].key = k /\ tab[u].stage \in Queued
    BY <1>3 DEF Left
  <2>3. QED
    BY <2>1, <2>2 DEF LocksInv, HasItsLock, LockUsed, Reading, Queued
<1>4. QED
  BY <1>2, <1>3

\* There are as many locks as tabs, and one tab has none.
LEMMA FreeLock ==
  ASSUME LocksInv, NEW t \in Tabs, tab[t].lock = 0
  PROVE  NewLock \in 1..Cardinality(Tabs) /\ \A u \in Tabs : tab[u].lock # NewLock
<1> DEFINE N == Cardinality(Tabs)
           others == Tabs \ {t}
           user == [n \in 1..N |-> CHOOSE u \in others : tab[u].lock = n]
<1>1. N \in Nat /\ IsFiniteSet(others) /\ Cardinality(others) = N - 1
  BY GatewayAssumption, FS_CardinalityType, FS_RemoveElement DEF GatewayAssumption
<1>2. IsFiniteSet(1..N) /\ Cardinality(1..N) = N
  BY <1>1, FS_Interval
<1>3. SUFFICES ASSUME \A n \in 1..N : \E u \in Tabs : tab[u].lock = n PROVE FALSE
  BY DEF NewLock
<1>4. \A n \in 1..N : \E u \in others : tab[u].lock = n
  BY <1>3
<1>5. \A n \in 1..N : user[n] \in others /\ tab[user[n]].lock = n
  BY <1>4
<1>6. user \in [1..N -> others]
  BY <1>5
<1> HIDE DEF others, user
<1>7. Cardinality(others) < Cardinality(1..N)
  BY <1>1, <1>2
<1>8. \E x, y \in 1..N : x # y /\ user[x] = user[y]
  BY <1>1, <1>2, <1>6, <1>7, FS_PigeonHole
<1>9. QED
  BY <1>5, <1>8

\* A tab registers with the lock of its key, which the first one makes.
LEMMA PlaceTaken ==
  ASSUME LocksInv, NEW t \in Tabs, NEW k \in Keys, WaitTurn(t, k),
         confirmed \in 0..MaxCommands
  PROVE  LocksInv'
<1> DEFINE lock == IF locks[k] = 0 THEN NewLock ELSE locks[k]
           m == [Idle EXCEPT !.stage = "waiting", !.key = k, !.lock = lock, !.since = confirmed]
<1>1. tab[t].stage \notin Queued /\ tab[t].lock = 0
  BY DEF WaitTurn, Starts, LocksInv, HasItsLock, Queued
<1>2. /\ lock \in 1..Cardinality(Tabs)
      /\ locks[k] = 0 => \A u \in Tabs : tab[u].lock # lock
      /\ locks[k] # 0 => lock = locks[k]
  <2>1. Cardinality(Tabs) \in Nat
    BY GatewayAssumption, FS_CardinalityType DEF GatewayAssumption
  <2>2. CASE locks[k] = 0
    BY <2>2, <1>1, FreeLock
  <2>3. CASE locks[k] # 0
    BY <2>1, <2>3 DEF LocksInv
  <2>4. QED
    BY <2>2, <2>3
<1>3. locks' = [locks EXCEPT ![k] = lock] /\ tab' = [tab EXCEPT ![t] = m]
  BY DEF WaitTurn
<1>4. m.stage = "waiting" /\ m.key = k /\ m.lock = lock
  BY DEF Idle
<1>5. m \in TabRequest
  <2> HIDE DEF lock
  <2>1. lock \in 0..Cardinality(Tabs)
    BY <1>2, IdleType
  <2>2. QED
    BY <2>1, IdleType DEF TabRequest, Queued
<1>6. tab'[t] = m /\ \A u \in Tabs \ {t} : tab'[u] = tab[u]
  BY <1>3 DEF LocksInv
<1> HIDE DEF lock, m
<1>7. locks'[k] = lock /\ \A l \in Keys \ {k} : locks'[l] = locks[l]
  BY <1>3 DEF LocksInv
<1>8. \A l \in Keys \ {k} : locks[l] # lock
  BY <1>2 DEF LocksInv, LockUsed, HasItsLock
<1>9. \A u \in Tabs : HasItsLock(tab[u])'
  <2>1. \A u \in Tabs \ {t} : tab[u].stage \in Queued /\ tab[u].key = k => lock = locks[k]
    BY <1>2 DEF LocksInv, HasItsLock
  <2>2. QED
    BY <2>1, <1>2, <1>4, <1>6, <1>7 DEF LocksInv, HasItsLock, Queued
<1>10. \A l \in Keys : LockUsed(l)'
  BY <1>1, <1>4, <1>6, <1>7 DEF LocksInv, LockUsed, Queued
<1>11. locks' \in [Keys -> 0..Cardinality(Tabs)] /\ tab' \in [Tabs -> TabRequest]
  BY <1>2, <1>3, <1>5, IdleType DEF LocksInv
<1>12. \A l, n \in Keys : locks'[l] = locks'[n] /\ locks'[l] # 0 => l = n
  BY <1>7, <1>8 DEF LocksInv
<1>13. \A u, v \in Tabs : tab'[u].stage \in Reading /\ tab'[v].stage \in Reading
                          /\ tab'[u].lock = tab'[v].lock => u = v
  BY <1>4, <1>6 DEF LocksInv, Reading
<1>14. QED
  BY <1>9, <1>10, <1>11, <1>12, <1>13 DEF LocksInv

(***************************************************************************)
(* PiGateway, its count: what the loop of remember takes away is what the  *)
(* count of bytes says is too much, so the two must agree.                 *)
(***************************************************************************)

LEMMA LeastNumber ==
  ASSUME NEW T, T \subseteq Nat, T # {}
  PROVE  \E n \in T : \A m \in T : ~(m < n)
<1>1. PICK n \in T : \A m \in T : ~(<<m, n>> \in OpToRel(<, Nat))
  BY WFMin, NatLessThanWellFounded, Zenon
<1>2. ASSUME NEW m \in T PROVE ~(m < n)
  <2>1. ~(<<m, n>> \in {ss \in Nat \X Nat : ss[1] < ss[2]})
    BY <1>1, Zenon DEF OpToRel
  <2>2. QED
    BY <2>1
<1>3. QED
  BY <1>2

LEMMA SizesAreNumbers == \A e \in Entry : e.size \in Nat
  BY GatewayAssumption DEF GatewayAssumption, Entry

\* The bytes of the first entries, one entry after the other.
IsTally(s, tally) ==
  /\ tally \in [0..Len(s) -> Nat] /\ tally[0] = 0
  /\ \A n \in 1..Len(s) : tally[n] = tally[n - 1] + s[n].size

\* There is a tally: one that is right up to some entry can be put right for the next.
LEMMA TallyIsThere ==
  ASSUME NEW s \in Seq(Entry)
  PROVE  \E tally : IsTally(s, tally)
<1> DEFINE RightUpTo(tally, m) ==
             tally[0] = 0 /\ \A n \in 1..Len(s) : n <= m => tally[n] = tally[n - 1] + s[n].size
           bad == {m \in Nat : ~\E tally \in [0..Len(s) -> Nat] : RightUpTo(tally, m)}
<1>1. SUFFICES ASSUME bad # {} PROVE FALSE
  <2>1. PICK tally \in [0..Len(s) -> Nat] : RightUpTo(tally, Len(s))
    <3>1. Len(s) \in Nat /\ Len(s) \notin bad
      <4>1. Len(s) \in Nat
        OBVIOUS
      <4> HIDE DEF bad
      <4>2. QED
        BY <1>1, <4>1
    <3> HIDE DEF RightUpTo
    <3>2. QED
      BY <3>1
  <2>2. QED
    BY <2>1 DEF IsTally
<1>2. PICK m \in bad : \A n \in bad : ~(n < m)
  <2>1. bad \subseteq Nat
    OBVIOUS
  <2> HIDE DEF bad
  <2>2. QED
    BY <1>1, <2>1, LeastNumber
<1>3. CASE m = 0
  <2>1. RightUpTo([n \in 0..Len(s) |-> 0], 0)
    OBVIOUS
  <2>2. QED
    BY <1>3, <2>1
<1>4. CASE m # 0
  <2>1. m - 1 \in Nat /\ m - 1 \notin bad
    <3>1. m \in Nat
      OBVIOUS
    <3> HIDE DEF bad
    <3>2. QED
      BY <1>2, <1>4, <3>1
  <2>2. PICK tally \in [0..Len(s) -> Nat] : RightUpTo(tally, m - 1)
    BY <2>1
  <2>3. CASE m \in 1..Len(s)
    <3> DEFINE next == [tally EXCEPT ![m] = tally[m - 1] + s[m].size]
    <3>1. s[m].size \in Nat
      BY <2>3, SizesAreNumbers
    <3>2. next \in [0..Len(s) -> Nat]
      BY <2>3, <3>1
    <3>3. next[m] = tally[m - 1] + s[m].size /\ \A n \in 0..Len(s) : n # m => next[n] = tally[n]
      BY <2>3
    <3> HIDE DEF next
    <3>4. next[0] = 0
      BY <2>2, <2>3, <3>3
    <3>5. \A n \in 1..Len(s) : n <= m => next[n] = next[n - 1] + s[n].size
      <4> TAKE n \in 1..Len(s)
      <4>1. n - 1 \in 0..Len(s) /\ n \in 0..Len(s) /\ (n <= m => n - 1 # m)
        OBVIOUS
      <4>2. CASE n = m
        BY <3>3, <4>1, <4>2
      <4>3. CASE n # m
        <5>1. n <= m => n <= m - 1
          BY <4>3
        <5>2. QED
          BY <2>2, <3>3, <4>1, <4>3, <5>1
      <4>4. QED
        BY <4>2, <4>3
    <3>6. QED
      BY <1>2, <3>2, <3>4, <3>5
  <2>4. CASE m \notin 1..Len(s)
    <3>1. RightUpTo(tally, m)
      BY <1>4, <2>2, <2>4
    <3>2. QED
      BY <1>2, <3>1
  <2>5. QED
    BY <2>3, <2>4
<1>5. QED
  BY <1>3, <1>4

\* And it is the one by which Bytes is defined.
LEMMA BytesAreTallied ==
  ASSUME NEW s \in Seq(Entry), NEW tally, IsTally(s, tally)
  PROVE  Bytes(s) = tally[Len(s)]
<1> DEFINE Solves(f) == f = [n \in 0..Len(s) |-> IF n = 0 THEN 0 ELSE f[n - 1] + s[n].size]
           solution == CHOOSE f : Solves(f)
           bad == {n \in 0..Len(s) : solution[n] # tally[n]}
<1>1. Solves(tally)
  BY DEF IsTally
<1>2. Solves(solution)
  BY <1>1
<1>3. Bytes(s) = solution[Len(s)]
  BY DEF Bytes
<1> HIDE DEF solution
<1>4. solution[0] = 0 /\ \A n \in 1..Len(s) : solution[n] = solution[n - 1] + s[n].size
  <2>1. \A n \in 0..Len(s) : solution[n] = IF n = 0 THEN 0 ELSE solution[n - 1] + s[n].size
    BY <1>2
  <2>2. QED
    BY <2>1
<1>5. SUFFICES ASSUME bad # {} PROVE FALSE
  BY <1>3
<1>6. PICK n \in bad : \A m \in bad : ~(m < n)
  <2>1. bad \subseteq Nat
    OBVIOUS
  <2> HIDE DEF bad
  <2>2. QED
    BY <1>5, <2>1, LeastNumber
<1>7. n # 0
  BY <1>4, <1>6 DEF IsTally
<1>8. n - 1 \in 0..Len(s) /\ n - 1 \notin bad
  BY <1>6, <1>7
<1>9. QED
  BY <1>4, <1>6, <1>7, <1>8 DEF IsTally

LEMMA BytesType == ASSUME NEW s \in Seq(Entry) PROVE Bytes(s) \in Nat
<1>1. PICK tally : IsTally(s, tally)
  BY TallyIsThere
<1>2. QED
  BY <1>1, BytesAreTallied DEF IsTally

LEMMA BytesOfNone == Bytes(<<>>) = 0
<1>1. IsTally(<<>>, [n \in 0..0 |-> 0])
  BY DEF IsTally
<1>2. QED
  BY <1>1, BytesAreTallied

LEMMA BytesOfOne == ASSUME NEW e \in Entry PROVE Bytes(<<e>>) = e.size
<1> DEFINE tally == [n \in 0..1 |-> IF n = 0 THEN 0 ELSE e.size]
<1>1. Len(<<e>>) = 1 /\ <<e>>[1] = e /\ <<e>> \in Seq(Entry) /\ e.size \in Nat
  BY SizesAreNumbers
<1>2. IsTally(<<e>>, tally)
  BY <1>1 DEF IsTally
<1>3. Bytes(<<e>>) = tally[1]
  BY <1>1, <1>2, BytesAreTallied
<1>4. QED
  BY <1>3

LEMMA BytesTogether ==
  ASSUME NEW s \in Seq(Entry), NEW r \in Seq(Entry)
  PROVE  Bytes(s \o r) = Bytes(s) + Bytes(r)
<1>1. PICK first : IsTally(s, first)
  BY TallyIsThere
<1>2. PICK second : IsTally(r, second)
  BY TallyIsThere
<1> DEFINE both == [n \in 0..Len(s) + Len(r) |->
                      IF n <= Len(s) THEN first[n] ELSE first[Len(s)] + second[n - Len(s)]]
<1>3. /\ s \o r \in Seq(Entry) /\ Len(s \o r) = Len(s) + Len(r)
      /\ \A n \in 1..Len(s) : (s \o r)[n] = s[n]
      /\ \A n \in Len(s) + 1..Len(s) + Len(r) : (s \o r)[n] = r[n - Len(s)]
  BY ConcatProperties
<1>4. /\ both \in [0..Len(s) + Len(r) -> Nat]
      /\ \A n \in 0..Len(s) : both[n] = first[n]
      /\ \A n \in 0..Len(r) : both[Len(s) + n] = first[Len(s)] + second[n]
  <2>1. /\ Len(s) \in Nat /\ Len(r) \in Nat
        /\ first \in [0..Len(s) -> Nat] /\ second \in [0..Len(r) -> Nat] /\ second[0] = 0
    BY <1>1, <1>2 DEF IsTally
  <2>2. \A n \in 0..Len(s) + Len(r) :
          (IF n <= Len(s) THEN first[n] ELSE first[Len(s)] + second[n - Len(s)]) \in Nat
    <3> TAKE n \in 0..Len(s) + Len(r)
    <3>1. first[Len(s)] \in Nat
      BY <2>1
    <3>2. n <= Len(s) => n \in 0..Len(s)
      BY <2>1
    <3>3. ~(n <= Len(s)) => n - Len(s) \in 0..Len(r)
      BY <2>1
    <3>4. n <= Len(s) => first[n] \in Nat
      BY <2>1, <3>2
    <3>5. ~(n <= Len(s)) => second[n - Len(s)] \in Nat
      BY <2>1, <3>3
    <3>6. QED
      BY <3>1, <3>4, <3>5
  <2>3. \A n \in 0..Len(r) : both[Len(s) + n] = first[Len(s)] + second[n]
    <3> TAKE n \in 0..Len(r)
    <3> DEFINE m == Len(s) + n
    <3>1. /\ m \in 0..Len(s) + Len(r) /\ m - Len(s) = n /\ first[Len(s)] \in Nat
          /\ second[n] \in Nat /\ (m <= Len(s) => n = 0 /\ m = Len(s))
      BY <2>1
    <3> HIDE DEF m
    <3>2. both[m] = IF m <= Len(s) THEN first[m] ELSE first[Len(s)] + second[n]
      BY <3>1
    <3>3. both[m] = first[Len(s)] + second[n]
      BY <2>1, <3>1, <3>2
    <3>4. QED
      BY <3>3 DEF m
  <2>4. QED
    BY <2>1, <2>2, <2>3
<1> HIDE DEF both
<1>5. \A n \in 1..Len(s) : both[n] = both[n - 1] + (s \o r)[n].size
  <2> TAKE n \in 1..Len(s)
  <2>1. first[n] = first[n - 1] + s[n].size
    BY <1>1 DEF IsTally
  <2>2. n \in 0..Len(s) /\ n - 1 \in 0..Len(s)
    OBVIOUS
  <2>3. QED
    BY <1>3, <1>4, <2>1, <2>2
<1>6. \A n \in Len(s) + 1..Len(s) + Len(r) : both[n] = both[n - 1] + (s \o r)[n].size
  <2> TAKE n \in Len(s) + 1..Len(s) + Len(r)
  <2> DEFINE m == n - Len(s)
  <2>1. m \in 1..Len(r) /\ m - 1 \in 0..Len(r) /\ n = Len(s) + m /\ n - 1 = Len(s) + (m - 1)
    OBVIOUS
  <2>4. (s \o r)[n] = r[m]
    BY <1>3
  <2> HIDE DEF m
  <2>2. second[m] = second[m - 1] + r[m].size
    BY <1>2, <2>1 DEF IsTally
  <2>3. both[n] = first[Len(s)] + second[m] /\ both[n - 1] = first[Len(s)] + second[m - 1]
    <3>1. m \in 0..Len(r)
      BY <2>1
    <3>2. QED
      BY <1>4, <2>1, <3>1
  <2>5. first[Len(s)] \in Nat /\ second[m - 1] \in Nat /\ r[m].size \in Nat
    <3>1. r[m] \in Entry
      BY <2>1
    <3>2. Len(s) \in 0..Len(s)
      OBVIOUS
    <3>3. QED
      BY <1>1, <1>2, <2>1, <3>1, <3>2, SizesAreNumbers DEF IsTally
  <2>6. QED
    BY <2>2, <2>3, <2>4, <2>5
<1>7. IsTally(s \o r, both)
  <2>1. both[0] = 0
    BY <1>1, <1>4 DEF IsTally
  <2>2. \A n \in 1..Len(s) + Len(r) : n \in 1..Len(s) \/ n \in Len(s) + 1..Len(s) + Len(r)
    OBVIOUS
  <2>3. QED
    BY <1>3, <1>4, <1>5, <1>6, <2>1, <2>2 DEF IsTally
<1>8. Bytes(s \o r) = both[Len(s) + Len(r)]
  BY <1>3, <1>7, BytesAreTallied
<1>9. both[Len(s) + Len(r)] = first[Len(s)] + second[Len(r)]
  BY <1>4
<1>10. QED
  BY <1>1, <1>2, <1>8, <1>9, BytesAreTallied

\* Bytes looks at nothing but sizes.
LEMMA BytesOfSizes ==
  ASSUME NEW s \in Seq(Entry), NEW r \in Seq(Entry), Len(r) = Len(s),
         \A n \in 1..Len(s) : r[n].size = s[n].size
  PROVE  Bytes(r) = Bytes(s)
<1>1. PICK tally : IsTally(s, tally)
  BY TallyIsThere
<1>2. IsTally(r, tally)
  BY <1>1 DEF IsTally
<1>3. QED
  BY <1>1, <1>2, BytesAreTallied

\* A part of a sequence and the rest of it.
LEMMA BytesDivided ==
  ASSUME NEW s \in Seq(Entry), NEW n \in 0..Len(s)
  PROVE  /\ Oldest(s, n) \in Seq(Entry) /\ Newest(s, n) \in Seq(Entry)
         /\ Len(Newest(s, n)) = Len(s) - n
         /\ Bytes(s) = Bytes(Oldest(s, n)) + Bytes(Newest(s, n))
<1>1. Oldest(s, n) \in Seq(Entry) /\ Newest(s, n) \in Seq(Entry) /\ Len(Newest(s, n)) = Len(s) - n
  BY SubSeqProperties DEF Oldest, Newest
<1>2. Oldest(s, n) \o Newest(s, n) = s
  <2>1. 1 \in 1..Len(s) + 1 /\ n \in 1 - 1..Len(s) /\ Len(s) \in n..Len(s)
    OBVIOUS
  <2>2. SubSeq(s, 1, n) \o SubSeq(s, n + 1, Len(s)) = SubSeq(s, 1, Len(s))
    BY <2>1, ConcatAdjacentSubSeq, Zenon
  <2>3. QED
    BY <2>2, SubSeqFull DEF Oldest, Newest
<1>3. QED
  BY <1>1, <1>2, BytesTogether

\* What is left when the entry of a key is taken out.
LEMMA BytesWithout ==
  ASSUME cache \in Seq(Entry), NEW k \in Keys
  PROVE  /\ Others(k) \in Seq(Entry) /\ Len(Others(k)) <= Len(cache)
         /\ Freed(k) \in Nat /\ Bytes(cache) = Bytes(Others(k)) + Freed(k)
         /\ Cached(k) => Len(Others(k)) = Len(cache) - 1
<1>1. CASE ~Cached(k)
  BY <1>1, BytesType DEF Others, Freed
<1>2. CASE Cached(k)
  <2> DEFINE n == Position(k)
             older == SubSeq(cache, 1, n - 1)
             newer == SubSeq(cache, n + 1, Len(cache))
  <2>1. n \in 1..Len(cache)
    BY <1>2 DEF Cached, Position
  <2>2. /\ Others(k) = older \o newer /\ Freed(k) = cache[n].size /\ cache[n] \in Entry
    BY <1>2, <2>1 DEF Others, Freed, Lookup
  <2> HIDE DEF n
  <2>3. /\ older \in Seq(Entry) /\ newer \in Seq(Entry)
        /\ Len(older) = n - 1 /\ Len(newer) = Len(cache) - n
    BY <2>1, SubSeqProperties
  <2>4. /\ SubSeq(cache, 1, n) = older \o <<cache[n]>>
        /\ SubSeq(cache, 1, n) \o newer = cache
    <3>1. 1 \in 1..Len(cache) + 1 /\ n \in 1 - 1..Len(cache) /\ Len(cache) \in n..Len(cache)
          /\ 1 \in 1..Len(cache) /\ n \in 1..Len(cache)
      BY <2>1
    <3>2. SubSeq(cache, 1, n) \o newer = SubSeq(cache, 1, Len(cache))
      BY <3>1, ConcatAdjacentSubSeq, Zenon
    <3>3. SubSeq(cache, 1, n) = older \o <<cache[n]>>
      BY <3>1, SubSeqRecursiveSecond, Zenon
    <3>4. QED
      BY <3>2, <3>3, SubSeqFull
  <2> HIDE DEF older, newer
  <2>5. Bytes(older \o <<cache[n]>>) = Bytes(older) + Freed(k)
    <3>1. <<cache[n]>> \in Seq(Entry)
      BY <2>2
    <3>2. QED
      BY <2>2, <2>3, <3>1, BytesTogether, BytesOfOne
  <2>6. Bytes(cache) = Bytes(older \o <<cache[n]>>) + Bytes(newer)
    <3>1. older \o <<cache[n]>> \in Seq(Entry)
      BY <2>2, <2>3
    <3>2. QED
      BY <2>3, <2>4, <3>1, BytesTogether
  <2>7. Bytes(Others(k)) = Bytes(older) + Bytes(newer)
    BY <2>2, <2>3, BytesTogether
  <2>8. Freed(k) \in Nat /\ Bytes(older) \in Nat /\ Bytes(newer) \in Nat
    BY <2>2, <2>3, SizesAreNumbers, BytesType
  <2>9. Others(k) \in Seq(Entry) /\ Len(Others(k)) = Len(cache) - 1
    BY <2>1, <2>2, <2>3
  <2>10. QED
    BY <2>5, <2>6, <2>7, <2>8, <2>9
<1>3. QED
  BY <1>1, <1>2

\* When the count is right the loop of remember ends: an empty cache keeps the limits.
LEMMA EvictionEnds ==
  ASSUME NEW s \in Seq(Entry), NEW bytes, bytes = Bytes(s)
  PROVE  /\ Evicted(s, bytes) \in 0..Len(s)
         /\ Fits(bytes - Bytes(Oldest(s, Evicted(s, bytes))), Len(s) - Evicted(s, bytes))
<1> DEFINE Enough(n) == Fits(bytes - Bytes(Oldest(s, n)), Len(s) - n)
           enough == {n \in 0..Len(s) : Enough(n)}
<1>1. Enough(Len(s))
  <2>1. Oldest(s, Len(s)) = s
    BY SubSeqFull DEF Oldest
  <2>2. Bytes(s) \in Nat
    BY BytesType
  <2>3. QED
    BY <2>1, <2>2, GatewayAssumption DEF GatewayAssumption, Fits
<1> HIDE DEF Enough
<1>2. enough # {} /\ enough \subseteq Nat
  BY <1>1
<1>3. PICK n \in enough : \A m \in enough : ~(m < n)
  <2> HIDE DEF enough
  <2>1. QED
    BY <1>2, LeastNumber
<1>4. n \in 0..Len(s) /\ Enough(n) /\ \A m \in 0..Len(s) : m < n => ~Enough(m)
  BY <1>3
<1>5. Evicted(s, bytes) = CHOOSE l \in 0..Len(s) : Enough(l) /\ \A m \in 0..Len(s) : m < l => ~Enough(m)
  BY DEF Evicted, Enough
<1>6. Evicted(s, bytes) \in 0..Len(s) /\ Enough(Evicted(s, bytes))
  BY <1>4, <1>5
<1>7. QED
  BY <1>6 DEF Enough

(***************************************************************************)
(* PiGateway, its versions: what the cache holds, and what a read of the   *)
(* present generation brings, is no older than the last command that was   *)
(* confirmed.                                                              *)
(***************************************************************************)

CurrentReads == {e \in Entry : /\ e.generation = generation
                               /\ confirmed <= e.version /\ e.version <= pi}

\* The answer of a read that was sent in the present generation.
AnswerIsNew(r) ==
  /\ r.generation <= generation
  /\ r.stage = "answered" => r.version <= pi /\ (r.generation = generation => confirmed <= r.version)

SeesCommands(r) ==
  /\ r.since <= confirmed
  /\ r.stage \in {"answered", "shown"} => r.since <= r.version
  /\ r.fallback # NoVersion => r.since <= r.fallback
  /\ r.stage = "executed" => r.version <= pi

ReadsInv ==
  /\ pi \in 0..MaxCommands /\ confirmed \in 0..pi /\ generation \in Nat
  /\ cache \in Seq(CurrentReads)
  /\ refreshing \in [Keys -> BackgroundRead] /\ tab \in [Tabs -> TabRequest]
  /\ \A k \in Keys : AnswerIsNew(refreshing[k])
  /\ \A t \in Tabs : AnswerIsNew(tab[t]) /\ SeesCommands(tab[t])

GatewayInv == LocksInv /\ ReadsInv

LEMMA OthersAreRest ==
  ASSUME NEW S, NEW k \in Keys, cache \in Seq(S)
  PROVE  Others(k) \in Seq(S)
<1>1. CASE Cached(k)
  <2>1. Position(k) \in 1..Len(cache)
    BY <1>1 DEF Cached, Position
  <2>2. /\ SubSeq(cache, 1, Position(k) - 1) \in Seq(S)
        /\ SubSeq(cache, Position(k) + 1, Len(cache)) \in Seq(S)
    BY <2>1, SubSeqProperties
  <2>3. QED
    BY <1>1, <2>2 DEF Others
<1>2. CASE ~Cached(k)
  BY <1>2 DEF Others
<1>3. QED
  BY <1>1, <1>2

LEMMA LookupIsCached ==
  ASSUME NEW S, NEW k \in Keys, cache \in Seq(S), AgeOf(k) # Expired
  PROVE  Lookup(k) \in S
<1>1. Cached(k)
  BY DEF AgeOf
<1>2. Position(k) \in 1..Len(cache)
  BY <1>1 DEF Cached, Position
<1>3. QED
  BY <1>2 DEF Lookup

LEMMA ReadsInvInit == GatewayInit => ReadsInv
<1> SUFFICES ASSUME GatewayInit PROVE ReadsInv
  OBVIOUS
<1>1. NoRefresh \in BackgroundRead
  BY GatewayAssumption DEF GatewayAssumption, NoRefresh, BackgroundRead, NoVersion
<1>2. QED
  BY <1>1, IdleType, GatewayAssumption
     DEF GatewayAssumption, GatewayInit, ReadsInv, AnswerIsNew, SeesCommands, Idle, NoRefresh, NoVersion

\* Only what was read in the present generation is remembered.
LEMMA EntryRemembered ==
  ASSUME ReadsInv, NEW k \in Keys, NEW version \in 0..pi, NEW size \in Sizes, NEW g \in Nat,
         g = generation => confirmed <= version,
         Remember(k, version, size, g), CacheIsCounted
  PROVE  cache' \in Seq(CurrentReads) /\ CacheIsCounted'
<1> DEFINE new == [key |-> k, version |-> version, size |-> size, generation |-> g, age |-> Young]
           s == Append(Others(k), new)
           bytes == cacheBytes - Freed(k) + size
           n == Evicted(s, bytes)
<1>1. CASE Current(g)
  <2>1. new \in CurrentReads /\ new \in Entry /\ new.size = size
    BY <1>1, GatewayAssumption
       DEF GatewayAssumption, CurrentReads, Entry, Current, ReadsInv, Young, Expired
  <2>2. cache' = Newest(s, n) /\ cacheBytes' = bytes - Bytes(Oldest(s, n))
    BY <1>1 DEF Remember
  <2> HIDE DEF new
  <2>3. s \in Seq(CurrentReads) /\ s \in Seq(Entry) /\ cache \in Seq(Entry)
    BY <2>1, OthersAreRest DEF ReadsInv, CurrentReads
  <2>4. bytes = Bytes(s)
    <3>1. Bytes(cache) = Bytes(Others(k)) + Freed(k) /\ Others(k) \in Seq(Entry) /\ Freed(k) \in Nat
      BY <2>3, BytesWithout
    <3>2. <<new>> \in Seq(Entry) /\ s = Others(k) \o <<new>>
      BY <2>1, <3>1, AppendIsConcat
    <3>3. Bytes(s) = Bytes(Others(k)) + size
      BY <2>1, <3>1, <3>2, BytesTogether, BytesOfOne
    <3>4. Bytes(Others(k)) \in Nat /\ size \in Nat /\ cacheBytes = Bytes(cache)
      BY <3>1, BytesType, GatewayAssumption DEF GatewayAssumption, CacheIsCounted
    <3> HIDE DEF s
    <3>5. QED
      BY <3>1, <3>3, <3>4
  <2> HIDE DEF s, bytes
  <2>5. n \in 0..Len(s) /\ Fits(bytes - Bytes(Oldest(s, n)), Len(s) - n)
    BY <2>3, <2>4, EvictionEnds
  <2> HIDE DEF n
  <2>6. cache' \in Seq(CurrentReads)
    BY <2>2, <2>3, <2>5, SubSeqProperties DEF Newest
  <2>7. CacheIsCounted'
    <3>1. Len(cache') = Len(s) - n /\ Bytes(s) = Bytes(Oldest(s, n)) + Bytes(cache')
          /\ Oldest(s, n) \in Seq(Entry) /\ cache' \in Seq(Entry)
      BY <2>2, <2>3, <2>5, BytesDivided
    <3>2. Bytes(Oldest(s, n)) \in Nat /\ Bytes(cache') \in Nat
      BY <3>1, BytesType
    <3>3. cacheBytes' = Bytes(cache')
      BY <2>2, <2>4, <3>1, <3>2
    <3>4. Fits(cacheBytes', Len(cache'))
      BY <2>2, <2>5, <3>1
    <3>5. QED
      BY <3>3, <3>4 DEF CacheIsCounted, Bytes
  <2>8. QED
    BY <2>6, <2>7
<1>2. CASE ~Current(g)
  BY <1>2 DEF Remember, ReadsInv, CacheIsCounted
<1>3. QED
  BY <1>1, <1>2

\* Nothing becomes older when a command is executed that was not confirmed yet.
LEMMA CacheStays ==
  ASSUME ReadsInv, cache' \in Seq(CurrentReads), UNCHANGED <<confirmed, generation>>,
         pi' \in Nat, pi <= pi'
  PROVE  cache' \in Seq(CurrentReads')
<1>1. CurrentReads \subseteq CurrentReads'
  BY GatewayAssumption DEF GatewayAssumption, CurrentReads, Entry, ReadsInv
<1> HIDE DEF CurrentReads
<1>2. QED
  BY <1>1

\* One tab goes on with what it knows.
LEMMA OneTab ==
  ASSUME ReadsInv, NEW t \in Tabs, NEW m \in TabRequest, tab' = [tab EXCEPT ![t] = m],
         AnswerIsNew(m), SeesCommands(m), cache' \in Seq(CurrentReads),
         UNCHANGED <<pi, confirmed, generation, refreshing>>
  PROVE  ReadsInv'
  BY DEF ReadsInv, AnswerIsNew, SeesCommands, CurrentReads

\* One key is refreshed.
LEMMA OneRefresh ==
  ASSUME ReadsInv, NEW k \in Keys, NEW m \in BackgroundRead,
         refreshing' = [refreshing EXCEPT ![k] = m],
         AnswerIsNew(m), cache' \in Seq(CurrentReads),
         UNCHANGED <<pi, confirmed, generation, tab>>
  PROVE  ReadsInv'
  BY DEF ReadsInv, AnswerIsNew, SeesCommands, CurrentReads

\* What a tab is when it has shown a version.
LEMMA TabShows ==
  ASSUME GatewayInv, NEW t \in Tabs, NEW version \in 0..MaxCommands, tab[t].since <= version,
         Show(t, version), cache' \in Seq(CurrentReads), tab[t].stage \in Queued, Unregister(t),
         UNCHANGED <<pi, confirmed, generation, refreshing>>
  PROVE  GatewayInv'
<1> DEFINE m == [tab[t] EXCEPT !.stage = "shown", !.version = version, !.lock = 0,
                               !.fallback = NoVersion, !.generation = 0]
<1>1. tab[t] \in TabRequest /\ version \in 0..NoVersion /\ NoVersion \in 0..NoVersion
      /\ 0 \in 0..Cardinality(Tabs)
  BY GatewayAssumption, IdleType DEF GatewayAssumption, NoVersion, GatewayInv, ReadsInv
<1>2. /\ m \in TabRequest
      /\ m.stage = "shown" /\ m.version = version /\ m.lock = 0 /\ m.fallback = NoVersion
      /\ m.generation = 0 /\ m.since = tab[t].since
  BY <1>1 DEF TabRequest
<1>3. tab' = [tab EXCEPT ![t] = m]
  BY <1>1 DEF Show, GatewayInv, ReadsInv
<1> HIDE DEF m
<1>4. LocksInv'
  BY <1>2, <1>3, PlaceLeft DEF GatewayInv, Queued
<1>5. AnswerIsNew(m) /\ SeesCommands(m)
  BY <1>2 DEF AnswerIsNew, SeesCommands, GatewayInv, ReadsInv
<1>6. QED
  BY <1>2, <1>3, <1>4, <1>5, OneTab DEF GatewayInv

\* What a tab is when it has nothing to do.
LEMMA TabRests ==
  ASSUME GatewayInv
  PROVE  Idle \in TabRequest /\ AnswerIsNew(Idle) /\ SeesCommands(Idle)
  BY IdleType DEF GatewayInv, ReadsInv, AnswerIsNew, SeesCommands, Idle

\* A request is sent with the generation of the moment, an entry that may be shown instead is kept.
LEMMA TabSends ==
  ASSUME GatewayInv, NEW t \in Tabs, Send(t)
  PROVE  GatewayInv'
<1> DEFINE k == tab[t].key
           version == IF AgeOf(k) = Expired THEN NoVersion ELSE Lookup(k).version
           m == [tab[t] EXCEPT !.stage = "sent", !.generation = generation, !.fallback = version]
<1>1. tab[t] \in TabRequest /\ k \in Keys
  BY DEF GatewayInv, ReadsInv, LocksInv, HasItsLock, Send, Queued
<1>2. version \in 0..NoVersion /\ (version # NoVersion => tab[t].since <= version)
  <2>1. CASE AgeOf(k) = Expired
    BY <2>1, GatewayAssumption DEF GatewayAssumption, NoVersion
  <2>2. CASE AgeOf(k) # Expired
    <3>1. Lookup(k) \in CurrentReads
      BY <1>1, <2>2, LookupIsCached DEF GatewayInv, ReadsInv
    <3>2. Lookup(k).version \in 0..MaxCommands /\ confirmed <= Lookup(k).version
      BY <3>1 DEF CurrentReads, Entry
    <3> HIDE DEF k
    <3>3. tab[t].since \in Nat /\ tab[t].since <= confirmed /\ confirmed \in Nat
      BY <1>1, GatewayAssumption
         DEF GatewayAssumption, TabRequest, GatewayInv, ReadsInv, SeesCommands
    <3>4. QED
      BY <2>2, <3>2, <3>3, GatewayAssumption DEF GatewayAssumption, NoVersion
  <2>3. QED
    BY <2>1, <2>2
<1>3. tab' = [tab EXCEPT ![t] = m]
  BY <1>1 DEF Send, GatewayInv, ReadsInv
<1> HIDE DEF version
<1>4. /\ m \in TabRequest
      /\ m.stage = "sent" /\ m.generation = generation /\ m.fallback = version
      /\ m.lock = tab[t].lock /\ m.key = tab[t].key /\ m.since = tab[t].since
  BY <1>1, <1>2 DEF TabRequest, Queued, GatewayInv, ReadsInv
<1> HIDE DEF m, k
<1>5. LocksInv'
  BY <1>3, <1>4, SamePlace DEF GatewayInv, Queued, Reading, Send
<1>6. AnswerIsNew(m) /\ SeesCommands(m)
  BY <1>2, <1>4 DEF AnswerIsNew, SeesCommands, GatewayInv, ReadsInv
<1>7. QED
  BY <1>3, <1>4, <1>5, <1>6, OneTab DEF GatewayInv, Send, ReadsInv

LEMMA TabIsAnswered ==
  ASSUME GatewayInv, NEW t \in Tabs, PiAnswers(t)
  PROVE  GatewayInv'
<1> DEFINE m == [tab[t] EXCEPT !.stage = "answered", !.version = pi]
<1>1. tab[t] \in TabRequest /\ pi \in 0..MaxCommands /\ confirmed \in 0..pi /\ tab[t].since \in Nat
      /\ pi \in 0..NoVersion
  BY GatewayAssumption DEF GatewayAssumption, GatewayInv, ReadsInv, TabRequest, NoVersion
<1>2. tab' = [tab EXCEPT ![t] = m]
  BY <1>1 DEF PiAnswers, GatewayInv, ReadsInv
<1>3. /\ m \in TabRequest
      /\ m.stage = "answered" /\ m.version = pi /\ m.generation = tab[t].generation
      /\ m.fallback = tab[t].fallback
      /\ m.lock = tab[t].lock /\ m.key = tab[t].key /\ m.since = tab[t].since
  BY <1>1 DEF TabRequest, Queued
<1> HIDE DEF m
<1>4. LocksInv'
  BY <1>2, <1>3, SamePlace DEF GatewayInv, Queued, Reading, PiAnswers
<1>5. AnswerIsNew(m) /\ SeesCommands(m)
  BY <1>1, <1>3, GatewayAssumption
     DEF GatewayAssumption, AnswerIsNew, SeesCommands, GatewayInv, ReadsInv
<1>6. QED
  BY <1>2, <1>3, <1>4, <1>5, OneTab DEF GatewayInv, PiAnswers, ReadsInv

\* A command is executed: the Pi is further than any answer that is on its way.
LEMMA CommandRuns ==
  ASSUME GatewayInv, NEW t \in Tabs, PiExecutes(t)
  PROVE  GatewayInv'
<1> DEFINE m == [tab[t] EXCEPT !.stage = "executed", !.version = pi + 1]
<1>1. /\ tab[t] \in TabRequest /\ pi \in Nat /\ pi' = pi + 1 /\ pi' \in 0..MaxCommands
      /\ pi + 1 \in 0..NoVersion /\ confirmed \in 0..pi'
  BY GatewayAssumption DEF GatewayAssumption, GatewayInv, ReadsInv, PiExecutes, NoVersion
<1>2. tab' = [tab EXCEPT ![t] = m]
  BY <1>1 DEF PiExecutes, GatewayInv, ReadsInv
<1>3. /\ m \in TabRequest
      /\ m.stage = "executed" /\ m.version = pi' /\ m.generation = tab[t].generation
      /\ m.fallback = tab[t].fallback
      /\ m.lock = tab[t].lock /\ m.key = tab[t].key /\ m.since = tab[t].since
  BY <1>1 DEF TabRequest, Queued
<1> HIDE DEF m
<1>4. LocksInv'
  BY <1>2, <1>3, SamePlace DEF GatewayInv, Queued, Reading, PiExecutes
<1>5. UNCHANGED <<confirmed, cache, generation, refreshing>>
  BY DEF PiExecutes
<1>6. cache' \in Seq(CurrentReads')
  BY <1>1, <1>5, CacheStays DEF GatewayInv, ReadsInv
<1>7. \A k \in Keys : AnswerIsNew(refreshing[k])'
  <2>1. \A k \in Keys : refreshing[k].version \in Nat
    BY GatewayAssumption DEF GatewayAssumption, GatewayInv, ReadsInv, BackgroundRead, NoVersion
  <2>2. QED
    BY <1>1, <1>5, <2>1 DEF GatewayInv, ReadsInv, AnswerIsNew
<1>8. \A u \in Tabs : AnswerIsNew(tab[u])' /\ SeesCommands(tab[u])'
  <2>1. \A u \in Tabs : tab[u].version \in Nat
    BY GatewayAssumption DEF GatewayAssumption, GatewayInv, ReadsInv, TabRequest, NoVersion
  <2>2. tab'[t] = m /\ \A u \in Tabs \ {t} : tab'[u] = tab[u]
    BY <1>2 DEF GatewayInv, ReadsInv
  <2>3. \A u \in Tabs \ {t} : AnswerIsNew(tab[u])' /\ SeesCommands(tab[u])'
    BY <1>1, <1>5, <2>1, <2>2 DEF GatewayInv, ReadsInv, AnswerIsNew, SeesCommands
  <2>4. AnswerIsNew(tab[t])' /\ SeesCommands(tab[t])'
    BY <1>1, <1>3, <1>5, <2>2 DEF GatewayInv, ReadsInv, AnswerIsNew, SeesCommands
  <2>5. QED
    BY <2>3, <2>4
<1>9. QED
  BY <1>1, <1>2, <1>3, <1>4, <1>5, <1>6, <1>7, <1>8 DEF GatewayInv, ReadsInv

\* A confirmed command empties the cache; what was asked before belongs to an earlier generation.
LEMMA CommandConfirmed ==
  ASSUME GatewayInv, NEW t \in Tabs, Confirm(t)
  PROVE  GatewayInv'
<1>1. /\ tab' = [tab EXCEPT ![t] = Idle] /\ UNCHANGED <<pi, refreshing, locks>>
      /\ generation' = generation + 1 /\ cache' = <<>>
  BY DEF Confirm
<1>2. LocksInv'
  BY <1>1, IdleType, NoPlace DEF GatewayInv, Confirm, Queued, Idle
<1>3. /\ tab[t].version \in Nat /\ tab[t].version <= pi /\ pi \in 0..MaxCommands
      /\ confirmed \in 0..pi /\ generation \in Nat
  BY GatewayAssumption
     DEF GatewayAssumption, GatewayInv, ReadsInv, SeesCommands, TabRequest, Confirm, NoVersion
<1>4. confirmed' \in 0..pi' /\ confirmed <= confirmed' /\ confirmed' \in Nat /\ confirmed \in Nat
  BY <1>1, <1>3, GatewayAssumption DEF GatewayAssumption, Confirm
<1>5. \A k \in Keys : AnswerIsNew(refreshing[k])'
  <2>1. \A k \in Keys : refreshing[k].generation \in Nat
    BY DEF GatewayInv, ReadsInv, BackgroundRead
  <2>2. QED
    BY <1>1, <1>3, <2>1 DEF GatewayInv, ReadsInv, AnswerIsNew
<1>6. \A u \in Tabs : AnswerIsNew(tab[u])' /\ SeesCommands(tab[u])'
  <2>1. \A u \in Tabs : tab[u].generation \in Nat /\ tab[u].since \in Nat
    BY GatewayAssumption DEF GatewayAssumption, GatewayInv, ReadsInv, TabRequest
  <2>2. tab'[t] = Idle /\ \A u \in Tabs \ {t} : tab'[u] = tab[u]
    BY <1>1 DEF GatewayInv, ReadsInv
  <2>3. \A u \in Tabs \ {t} : AnswerIsNew(tab[u])' /\ SeesCommands(tab[u])'
    BY <1>1, <1>3, <1>4, <2>1, <2>2 DEF GatewayInv, ReadsInv, AnswerIsNew, SeesCommands
  <2>4. AnswerIsNew(tab[t])' /\ SeesCommands(tab[t])'
    BY <1>1, <1>3, <1>4, <2>2 DEF AnswerIsNew, SeesCommands, Idle
  <2>5. QED
    BY <2>3, <2>4
<1>7. QED
  BY <1>1, <1>2, <1>3, <1>4, <1>5, <1>6, IdleType DEF GatewayInv, ReadsInv

\* Age changes no version.
LEMMA EntryAges ==
  ASSUME GatewayInv, NEW n \in DOMAIN cache, Age(n)
  PROVE  GatewayInv'
<1> DEFINE e == [cache[n] EXCEPT !.age = @ + 1]
<1>1. cache \in Seq(CurrentReads) /\ n \in 1..Len(cache) /\ cache[n] \in CurrentReads
  BY DEF GatewayInv, ReadsInv
<1>2. cache[n].age + 1 \in Young..Expired
  BY <1>1 DEF Age, CurrentReads, Entry, Young, Expired
<1>3. e \in CurrentReads
  BY <1>1, <1>2 DEF CurrentReads, Entry
<1>4. cache' = [cache EXCEPT ![n] = e]
  BY <1>1 DEF Age
<1> HIDE DEF e
<1>5. cache' \in Seq(CurrentReads)
  BY <1>1, <1>3, <1>4
<1>6. UNCHANGED <<pi, confirmed, generation, refreshing, locks, tab>>
  BY DEF Age
<1>7. QED
  BY <1>5, <1>6, CacheStays
     DEF GatewayInv, LocksInv, HasItsLock, LockUsed, ReadsInv, AnswerIsNew, SeesCommands, CurrentReads

LEMMA ReadIsShown ==
  ASSUME GatewayInv, NEW t \in Tabs, NEW k \in Keys, ShowCached(t, k)
  PROVE  GatewayInv'
<1> DEFINE m == [Idle EXCEPT !.stage = "shown", !.key = k, !.since = confirmed,
                             !.version = Lookup(k).version]
           r == [refreshing[k] EXCEPT !.stage = "scheduled"]
<1>1. Lookup(k) \in CurrentReads
  BY LookupIsCached DEF ShowCached, Expired, GatewayInv, ReadsInv
<1>2. /\ Lookup(k).version \in 0..NoVersion /\ confirmed <= Lookup(k).version
      /\ confirmed \in 0..MaxCommands
  BY <1>1, GatewayAssumption
     DEF GatewayAssumption, CurrentReads, Entry, NoVersion, GatewayInv, ReadsInv
<1>3. /\ m \in TabRequest /\ m.stage = "shown" /\ m.version = Lookup(k).version /\ m.lock = 0
      /\ m.since = confirmed /\ m.fallback = NoVersion /\ m.generation = 0
  BY <1>2, IdleType DEF TabRequest, Idle
<1>4. tab' = [tab EXCEPT ![t] = m] /\ UNCHANGED <<pi, confirmed, cache, generation, locks>>
  BY DEF ShowCached
<1>5. refreshing' = refreshing \/ (refreshing' = [refreshing EXCEPT ![k] = r] /\ refreshing[k].stage = "none")
  BY DEF ShowCached, GatewayInv, ReadsInv
<1>6. r \in BackgroundRead /\ r.stage = "scheduled" /\ r.generation = refreshing[k].generation
  BY DEF GatewayInv, ReadsInv, BackgroundRead
<1> HIDE DEF m, r
<1>7. LocksInv'
  BY <1>3, <1>4, NoPlace DEF GatewayInv, ShowCached, Starts, Queued
<1>8. AnswerIsNew(m) /\ SeesCommands(m)
  BY <1>2, <1>3 DEF AnswerIsNew, SeesCommands, GatewayInv, ReadsInv
<1>9. refreshing' \in [Keys -> BackgroundRead] /\ \A l \in Keys : AnswerIsNew(refreshing[l])'
  BY <1>4, <1>5, <1>6 DEF GatewayInv, ReadsInv, AnswerIsNew
<1>10. \A u \in Tabs : AnswerIsNew(tab[u])' /\ SeesCommands(tab[u])'
  BY <1>4, <1>8 DEF GatewayInv, ReadsInv, AnswerIsNew, SeesCommands
<1>11. QED
  BY <1>3, <1>4, <1>7, <1>9, <1>10 DEF GatewayInv, ReadsInv, CurrentReads

\* A tab that comes to nothing.
LEMMA TabGivesUp ==
  ASSUME GatewayInv, NEW t \in Tabs, tab' = [tab EXCEPT ![t] = Idle],
         \/ tab[t].stage \in Queued /\ Unregister(t)
         \/ tab[t].stage \notin Queued /\ locks' = locks,
         UNCHANGED <<pi, confirmed, cache, generation, refreshing>>
  PROVE  GatewayInv'
<1>1. Idle.stage = "idle" /\ Idle.lock = 0
  BY DEF Idle
<1>2. LocksInv'
  BY <1>1, IdleType, PlaceLeft, NoPlace DEF GatewayInv, Queued
<1>3. QED
  BY <1>2, TabRests, OneTab DEF GatewayInv, ReadsInv

\* A background read goes on.
LEMMA RefreshGoesOn ==
  ASSUME GatewayInv, NEW k \in Keys, NEW m \in BackgroundRead,
         refreshing' = [refreshing EXCEPT ![k] = m],
         AnswerIsNew(m), cache' \in Seq(CurrentReads),
         UNCHANGED <<pi, confirmed, generation, locks, tab>>
  PROVE  GatewayInv'
<1>1. ReadsInv'
  BY OneRefresh DEF GatewayInv
<1>2. QED
  BY <1>1 DEF GatewayInv, LocksInv, HasItsLock, LockUsed

LEMMA NoRefreshType ==
  ASSUME GatewayInv
  PROVE  NoRefresh \in BackgroundRead /\ AnswerIsNew(NoRefresh)
  BY GatewayAssumption
     DEF GatewayAssumption, NoRefresh, BackgroundRead, NoVersion, AnswerIsNew, GatewayInv, ReadsInv

LEMMA GatewayInvStep == GatewayInv /\ CacheIsCounted /\ [GatewayNext]_gatewayVars => GatewayInv'
<1> SUFFICES ASSUME GatewayInv, CacheIsCounted, [GatewayNext]_gatewayVars PROVE GatewayInv'
  OBVIOUS
<1>1. ASSUME NEW t \in Tabs, NEW k \in Keys, ShowCached(t, k) PROVE GatewayInv'
  BY <1>1, ReadIsShown
<1>2. ASSUME NEW t \in Tabs, NEW k \in Keys, WaitTurn(t, k) PROVE GatewayInv'
  <2> DEFINE lock == IF locks[k] = 0 THEN NewLock ELSE locks[k]
             m == [Idle EXCEPT !.stage = "waiting", !.key = k, !.lock = lock, !.since = confirmed]
  <2>1. confirmed \in 0..MaxCommands
    BY GatewayAssumption DEF GatewayAssumption, GatewayInv, ReadsInv
  <2>2. LocksInv'
    BY <1>2, <2>1, PlaceTaken DEF GatewayInv
  <2>3. tab' = [tab EXCEPT ![t] = m] /\ UNCHANGED <<pi, confirmed, cache, generation, refreshing>>
    BY <1>2 DEF WaitTurn
  <2> HIDE DEF lock
  <2>4. /\ m.stage = "waiting" /\ m.since = confirmed /\ m.fallback = NoVersion
        /\ m.generation = 0
    BY DEF Idle
  <2>5. AnswerIsNew(m) /\ SeesCommands(m)
    BY <2>1, <2>4 DEF AnswerIsNew, SeesCommands, GatewayInv, ReadsInv
  <2> HIDE DEF m
  <2>6. m \in TabRequest
    BY <2>2, <2>3 DEF GatewayInv, LocksInv
  <2>7. QED
    BY <2>2, <2>3, <2>5, <2>6, OneTab DEF GatewayInv, ReadsInv
<1>3. ASSUME NEW t \in Tabs, ShowShared(t) PROVE GatewayInv'
  <2> DEFINE k == tab[t].key
  <2>1. tab[t].stage \in Queued /\ k \in Keys
    BY <1>3 DEF ShowShared, GatewayInv, LocksInv, HasItsLock, Queued
  <2>2. Lookup(k) \in CurrentReads
    BY <1>3, <2>1, LookupIsCached DEF ShowShared, Young, Expired, GatewayInv, ReadsInv
  <2>3. Lookup(k).version \in 0..MaxCommands /\ tab[t].since <= Lookup(k).version
    <3>1. confirmed <= Lookup(k).version /\ Lookup(k).version \in 0..MaxCommands
      BY <2>2 DEF CurrentReads, Entry
    <3> HIDE DEF k
    <3>2. tab[t].since \in Nat /\ tab[t].since <= confirmed /\ confirmed \in Nat
      BY GatewayAssumption DEF GatewayAssumption, GatewayInv, ReadsInv, SeesCommands, TabRequest
    <3>3. QED
      BY <3>1, <3>2, GatewayAssumption DEF GatewayAssumption
  <2>4. QED
    BY <1>3, <2>1, <2>3, TabShows DEF ShowShared, GatewayInv, ReadsInv
<1>4. ASSUME NEW t \in Tabs, Send(t) PROVE GatewayInv'
  BY <1>4, TabSends
<1>5. ASSUME NEW t \in Tabs, PiAnswers(t) PROVE GatewayInv'
  BY <1>5, TabIsAnswered
<1>6. ASSUME NEW t \in Tabs, Receive(t) PROVE GatewayInv'
  <2> DEFINE k == tab[t].key
  <2>1. tab[t].stage = "answered" /\ tab[t].stage \in Queued /\ k \in Keys
    BY <1>6 DEF Receive, GatewayInv, LocksInv, HasItsLock, Queued
  <2>2. /\ tab[t].version \in 0..pi /\ tab[t].generation \in Nat
        /\ tab[t].generation = generation => confirmed <= tab[t].version
        /\ tab[t].since <= tab[t].version /\ tab[t].version \in 0..MaxCommands
    BY <2>1, GatewayAssumption
       DEF GatewayAssumption, GatewayInv, ReadsInv, TabRequest, AnswerIsNew, SeesCommands, NoVersion
  <2>3. cache' \in Seq(CurrentReads)
    BY <1>6, <2>1, <2>2, EntryRemembered DEF Receive, GatewayInv, ReadsInv
  <2>4. QED
    BY <1>6, <2>1, <2>2, <2>3, TabShows DEF Receive
<1>7. ASSUME NEW t \in Tabs, ReadFails(t) PROVE GatewayInv'
  <2>1. tab[t].stage \in Queued
    BY <1>7 DEF ReadFails, Queued
  <2>2. CASE tab[t].fallback # NoVersion
    <3>1. tab[t].fallback \in 0..MaxCommands /\ tab[t].since <= tab[t].fallback
      BY <2>2, GatewayAssumption
         DEF GatewayAssumption, GatewayInv, ReadsInv, TabRequest, SeesCommands, NoVersion
    <3>2. QED
      BY <1>7, <2>1, <2>2, <3>1, TabShows DEF ReadFails, GatewayInv, ReadsInv
  <2>3. CASE tab[t].fallback = NoVersion
    BY <1>7, <2>1, <2>3, TabGivesUp DEF ReadFails
  <2>4. QED
    BY <2>2, <2>3
<1>8. ASSUME NEW t \in Tabs, Command(t) PROVE GatewayInv'
  <2> DEFINE m == [Idle EXCEPT !.stage = "command"]
  <2>1. /\ m \in TabRequest /\ m.stage = "command" /\ m.lock = 0 /\ m.since = 0
        /\ m.fallback = NoVersion /\ m.generation = 0
    BY IdleType DEF TabRequest, Idle
  <2>2. tab' = [tab EXCEPT ![t] = m]
    BY <1>8 DEF Command
  <2> HIDE DEF m
  <2>3. LocksInv'
    BY <1>8, <2>1, <2>2, NoPlace DEF Command, Starts, Queued, GatewayInv
  <2>4. AnswerIsNew(m) /\ SeesCommands(m)
    BY <2>1 DEF AnswerIsNew, SeesCommands, GatewayInv, ReadsInv
  <2>5. QED
    BY <1>8, <2>1, <2>2, <2>3, <2>4, OneTab DEF Command, GatewayInv, ReadsInv
<1>9. ASSUME NEW t \in Tabs, PiExecutes(t) PROVE GatewayInv'
  BY <1>9, CommandRuns
<1>10. ASSUME NEW t \in Tabs, Confirm(t) PROVE GatewayInv'
  BY <1>10, CommandConfirmed
<1>11. ASSUME NEW t \in Tabs, Unconfirmed(t) PROVE GatewayInv'
  BY <1>11, TabGivesUp DEF Unconfirmed, Queued
<1>12. ASSUME NEW k \in Keys, RefreshSend(k) PROVE GatewayInv'
  <2> DEFINE m == [refreshing[k] EXCEPT !.stage = "sent", !.generation = generation]
  <2>1. m \in BackgroundRead /\ m.stage = "sent" /\ m.generation = generation
    BY DEF GatewayInv, ReadsInv, BackgroundRead
  <2>2. refreshing' = [refreshing EXCEPT ![k] = m]
    BY <1>12 DEF RefreshSend, GatewayInv, ReadsInv
  <2> HIDE DEF m
  <2>3. AnswerIsNew(m)
    BY <2>1 DEF AnswerIsNew, GatewayInv, ReadsInv
  <2>4. QED
    BY <1>12, <2>1, <2>2, <2>3, RefreshGoesOn DEF RefreshSend, GatewayInv, ReadsInv
<1>13. ASSUME NEW k \in Keys, RefreshAnswer(k) PROVE GatewayInv'
  <2> DEFINE m == [refreshing[k] EXCEPT !.stage = "answered", !.version = pi]
  <2>1. pi \in 0..NoVersion /\ confirmed <= pi
    BY GatewayAssumption DEF GatewayAssumption, GatewayInv, ReadsInv, NoVersion
  <2>2. /\ m \in BackgroundRead /\ m.stage = "answered" /\ m.version = pi
        /\ m.generation = refreshing[k].generation
    BY <2>1 DEF GatewayInv, ReadsInv, BackgroundRead
  <2>3. refreshing' = [refreshing EXCEPT ![k] = m]
    BY <1>13 DEF RefreshAnswer, GatewayInv, ReadsInv
  <2> HIDE DEF m
  <2>4. AnswerIsNew(m)
    BY <2>1, <2>2 DEF AnswerIsNew, GatewayInv, ReadsInv
  <2>5. QED
    BY <1>13, <2>2, <2>3, <2>4, RefreshGoesOn DEF RefreshAnswer, GatewayInv, ReadsInv
<1>14. ASSUME NEW k \in Keys, RefreshStore(k) PROVE GatewayInv'
  <2>1. /\ refreshing[k].version \in 0..pi /\ refreshing[k].generation \in Nat
        /\ refreshing[k].generation = generation => confirmed <= refreshing[k].version
    BY <1>14, GatewayAssumption
       DEF GatewayAssumption, RefreshStore, GatewayInv, ReadsInv, BackgroundRead, AnswerIsNew, NoVersion
  <2>2. cache' \in Seq(CurrentReads)
    BY <1>14, <2>1, EntryRemembered DEF RefreshStore, GatewayInv
  <2>3. QED
    BY <1>14, <2>2, NoRefreshType, RefreshGoesOn DEF RefreshStore
<1>15. ASSUME NEW k \in Keys, RefreshRefused(k) PROVE GatewayInv'
  <2>1. cache' \in Seq(CurrentReads)
    BY <1>15, OthersAreRest DEF RefreshRefused, Forget, GatewayInv, ReadsInv
  <2>2. QED
    BY <1>15, <2>1, NoRefreshType, RefreshGoesOn DEF RefreshRefused
<1>16. ASSUME NEW k \in Keys, RefreshFails(k) PROVE GatewayInv'
  BY <1>16, NoRefreshType, RefreshGoesOn DEF RefreshFails, GatewayInv, ReadsInv
<1>17. ASSUME NEW n \in DOMAIN cache, Age(n) PROVE GatewayInv'
  BY <1>17, EntryAges
<1>18. CASE UNCHANGED gatewayVars
  BY <1>18
     DEF gatewayVars, GatewayInv, LocksInv, HasItsLock, LockUsed, ReadsInv, AnswerIsNew,
         SeesCommands, CurrentReads
<1>19. QED
  BY <1>1, <1>2, <1>3, <1>4, <1>5, <1>6, <1>7, <1>8, <1>9, <1>10, <1>11, <1>12, <1>13, <1>14,
     <1>15, <1>16, <1>17, <1>18 DEF GatewayNext

\* A count is right or not by the entries and their sizes.
LEMMA CountStays ==
  ASSUME CacheIsCounted, UNCHANGED <<cache, cacheBytes>>
  PROVE  CacheIsCounted'
  BY DEF CacheIsCounted, Bytes

LEMMA CountStep == GatewayInv /\ CacheIsCounted /\ [GatewayNext]_gatewayVars => CacheIsCounted'
<1> SUFFICES ASSUME GatewayInv, CacheIsCounted, [GatewayNext]_gatewayVars PROVE CacheIsCounted'
  OBVIOUS
<1>1. cache \in Seq(CurrentReads) /\ cache \in Seq(Entry)
  BY DEF GatewayInv, ReadsInv, CurrentReads
<1>2. ASSUME NEW t \in Tabs, Receive(t) PROVE CacheIsCounted'
  <2>1. tab[t].stage = "answered" /\ tab[t].key \in Keys
    BY <1>2 DEF Receive, GatewayInv, LocksInv, HasItsLock, Queued
  <2>2. /\ tab[t].version \in 0..pi /\ tab[t].generation \in Nat
        /\ tab[t].generation = generation => confirmed <= tab[t].version
    BY <2>1, GatewayAssumption
       DEF GatewayAssumption, GatewayInv, ReadsInv, TabRequest, AnswerIsNew, SeesCommands, NoVersion
  <2>3. CASE UNCHANGED <<cache, cacheBytes>>
    BY <2>3, CountStays
  <2>4. CASE \E size \in Sizes : Remember(tab[t].key, tab[t].version, size, tab[t].generation)
    BY <2>1, <2>2, <2>4, EntryRemembered DEF GatewayInv
  <2>5. QED
    BY <1>2, <2>3, <2>4 DEF Receive
<1>3. ASSUME NEW k \in Keys, RefreshStore(k) PROVE CacheIsCounted'
  <2>1. /\ refreshing[k].version \in 0..pi /\ refreshing[k].generation \in Nat
        /\ refreshing[k].generation = generation => confirmed <= refreshing[k].version
    BY <1>3, GatewayAssumption
       DEF GatewayAssumption, RefreshStore, GatewayInv, ReadsInv, BackgroundRead, AnswerIsNew, NoVersion
  <2>2. QED
    BY <1>3, <2>1, EntryRemembered DEF RefreshStore, GatewayInv
<1>4. ASSUME NEW k \in Keys, RefreshRefused(k) PROVE CacheIsCounted'
  <2>1. /\ Others(k) \in Seq(Entry) /\ Len(Others(k)) <= Len(cache)
        /\ Freed(k) \in Nat /\ Bytes(cache) = Bytes(Others(k)) + Freed(k)
    BY <1>1, BytesWithout
  <2>2. Bytes(Others(k)) \in Nat /\ Len(Others(k)) \in Nat /\ Len(cache) \in Nat
    BY <1>1, <2>1, BytesType
  <2>3. cache' = Others(k) /\ cacheBytes' = cacheBytes - Freed(k)
    BY <1>4 DEF RefreshRefused, Forget
  <2>4. cacheBytes = Bytes(cache) /\ cacheBytes <= MaxCache /\ Len(cache) <= MaxEntries
    BY DEF CacheIsCounted, Fits
  <2>5. /\ cacheBytes' = Bytes(Others(k)) /\ cacheBytes' <= MaxCache
        /\ Len(Others(k)) <= MaxEntries
    BY <2>1, <2>2, <2>3, <2>4, GatewayAssumption DEF GatewayAssumption
  <2>6. cacheBytes' = Bytes(cache') /\ Fits(cacheBytes', Len(cache'))
    BY <2>3, <2>5 DEF Fits
  <2>7. QED
    BY <2>6 DEF CacheIsCounted, Bytes
<1>5. ASSUME NEW t \in Tabs, Confirm(t) PROVE CacheIsCounted'
  <2>1. cache' = <<>> /\ cacheBytes' = 0
    BY <1>5 DEF Confirm
  <2>2. cacheBytes' = Bytes(cache') /\ Fits(cacheBytes', Len(cache'))
    BY <2>1, BytesOfNone, GatewayAssumption DEF GatewayAssumption, Fits
  <2>3. QED
    BY <2>2 DEF CacheIsCounted, Bytes
<1>6. ASSUME NEW n \in DOMAIN cache, Age(n) PROVE CacheIsCounted'
  <2>1. cache' = [cache EXCEPT ![n].age = @ + 1] /\ cacheBytes' = cacheBytes
    BY <1>6 DEF Age
  <2>2. cache' \in Seq(Entry) /\ Len(cache') = Len(cache)
    <3>1. cache[n] \in Entry /\ cache[n].age + 1 \in Young..Expired
      <4>1. cache[n] \in Entry /\ cache[n].age < Expired
        BY <1>1, <1>6 DEF Age
      <4>2. QED
        BY <4>1 DEF Entry, Young, Expired
    <3>2. [cache[n] EXCEPT !.age = @ + 1] \in Entry
      BY <3>1 DEF Entry
    <3>3. cache' = [cache EXCEPT ![n] = [cache[n] EXCEPT !.age = @ + 1]]
      BY <1>1, <2>1
    <3>4. QED
      BY <1>1, <3>2, <3>3
  <2>3. \A m \in 1..Len(cache) : cache'[m].size = cache[m].size
    BY <1>1, <2>1 DEF Entry
  <2>4. Bytes(cache') = Bytes(cache)
    BY <1>1, <2>2, <2>3, BytesOfSizes
  <2>5. cacheBytes' = Bytes(cache') /\ Fits(cacheBytes', Len(cache'))
    BY <2>1, <2>2, <2>4 DEF CacheIsCounted
  <2>6. QED
    BY <2>5 DEF CacheIsCounted, Bytes
<1>7. CASE UNCHANGED <<cache, cacheBytes>>
  BY <1>7, CountStays
<1>8. QED
  BY <1>2, <1>3, <1>4, <1>5, <1>6, <1>7
     DEF GatewayNext, gatewayVars, ShowCached, WaitTurn, ShowShared, Send, PiAnswers, ReadFails,
         Command, PiExecutes, Unconfirmed, RefreshSend, RefreshAnswer, RefreshFails

CountedInv == GatewayInv /\ CacheIsCounted

LapsesType == lapses \in 0..MaxAgings

LEMMA GatewayInvHolds == GatewaySpec => []CountedInv
<1>1. GatewayInit => CountedInv
  <2>1. GatewayInit => CacheIsCounted
    BY BytesOfNone, GatewayAssumption DEF GatewayAssumption, GatewayInit, CacheIsCounted, Fits
  <2>2. QED
    BY <2>1, LocksInvInit, ReadsInvInit DEF GatewayInv, CountedInv
<1>2. CountedInv /\ [GatewayNext]_gatewayVars => CountedInv'
  BY GatewayInvStep, CountStep DEF CountedInv
<1>3. QED
  BY <1>1, <1>2, PTL DEF GatewaySpec

\* For any sizes and limits, cache_bytes is what the cache holds and neither limit is exceeded
\* between two steps, whichever of remember, refresh and invalidate changed it: the eviction loop
\* never runs out of entries.
THEOREM CountIsRight == GatewaySpec => []CacheIsCounted
<1>1. CountedInv => CacheIsCounted
  BY DEF CountedInv
<1>2. QED
  BY <1>1, GatewayInvHolds, PTL

\* The variables keep their types, the count of bytes its limits.
THEOREM GatewayTypes == GatewaySpec => []GatewayTypeOK
<1>1. GatewayInit => LapsesType
  BY GatewayAssumption DEF GatewayAssumption, GatewayInit, LapsesType
<1>2. LapsesType /\ [GatewayNext]_gatewayVars => LapsesType'
  <2> SUFFICES ASSUME LapsesType, [GatewayNext]_gatewayVars PROVE LapsesType'
    OBVIOUS
  <2>1. ASSUME NEW n \in DOMAIN cache, Age(n) PROVE LapsesType'
    BY <2>1, GatewayAssumption DEF GatewayAssumption, Age, LapsesType
  <2>2. CASE lapses' = lapses
    BY <2>2 DEF LapsesType
  <2>3. QED
    BY <2>1, <2>2, Zenon
       DEF GatewayNext, gatewayVars, ShowCached, WaitTurn, ShowShared, Send,
           PiAnswers, Receive, ReadFails, Command, PiExecutes, Confirm, Unconfirmed, RefreshSend,
           RefreshAnswer, RefreshStore, RefreshRefused, RefreshFails
<1>3. CountedInv /\ LapsesType => GatewayTypeOK
  <2> SUFFICES ASSUME CountedInv, LapsesType PROVE GatewayTypeOK
    OBVIOUS
  <2>1. cache \in Seq(Entry)
    BY DEF CountedInv, GatewayInv, ReadsInv, CurrentReads
  <2>2. cacheBytes \in 0..MaxCache
    <3>1. Bytes(cache) \in Nat
      BY <2>1, BytesType
    <3>2. QED
      BY <3>1, GatewayAssumption DEF GatewayAssumption, CountedInv, CacheIsCounted, Fits
  <2>3. QED
    BY <2>1, <2>2 DEF CountedInv, GatewayInv, ReadsInv, LocksInv, LapsesType, GatewayTypeOK
<1>4. QED
  BY <1>1, <1>2, <1>3, GatewayInvHolds, PTL DEF GatewaySpec

\* For any tabs and keys, "one upstream read serves concurrent tabs": the table of locks and their
\* users never lets two tabs ask the Pi for one key at once.
THEOREM OneReadAtATime == GatewaySpec => []OneReadPerKey
<1>1. CountedInv => OneReadPerKey
  BY OneHolderOfKey DEF CountedInv, GatewayInv
<1>2. QED
  BY <1>1, GatewayInvHolds, PTL

\* For any cache, any limits and any number of commands, a read that begins after a command was
\* confirmed shows the Pi as it was after that command or later.
THEOREM CommandsAreSeen == GatewaySpec => []ReadsSeeCommands
<1>1. CountedInv => ReadsSeeCommands
  BY GatewayAssumption
     DEF GatewayAssumption, CountedInv, GatewayInv, ReadsInv, SeesCommands, ReadsSeeCommands, TabRequest, NoVersion
<1>2. QED
  BY <1>1, GatewayInvHolds, PTL

(***************************************************************************)
(* ProcessingSync: nothing the Pi sends is signed by the processor, so a   *)
(* row that is replaced is replaced together with its copy.                *)
(***************************************************************************)

FromPi(rows) ==
  \A r \in Recs : rows.date[r].by # "processor" /\ rows.copy[r].by # "processor"

SyncInv ==
  /\ SyncTypeOK
  /\ FromPi(source) /\ \A rows \in fetch.rows : FromPi(rows)
  /\ CorrectionsStayWhole

LEMMA SyncInvInit == SyncInit => SyncInv
  BY SyncAssumption
     DEF SyncAssumption, SyncInit, SyncInv, SyncTypeOK, FromPi, CorrectionsStayWhole, Rows, Date,
         NoRow, Camera, Unsynced, NoFetch

LEMMA DateTypes == NoRow.by = "none" /\ NoRow.rev = 0 /\ Camera \in Date /\ NoRow \notin Date
  BY SyncAssumption DEF SyncAssumption, NoRow, Camera, Date

\* The Pi changes rows, none of them to one of the processor.
LEMMA PiEditsKeep ==
  ASSUME SyncInv, NEW rows \in Rows, FromPi(rows), PiEdits(rows)
  PROVE  SyncInv'
<1>1. source' = rows /\ UNCHANGED <<central, sync, fetch, outages>> /\ edits' \in 0..MaxEdits
  BY SyncAssumption DEF SyncAssumption, PiEdits, SyncInv, SyncTypeOK
<1>2. QED
  BY <1>1 DEF SyncInv, SyncTypeOK, FromPi, CorrectionsStayWhole

\* The request is at another stage, or forgotten.
LEMMA FetchGoesOn ==
  ASSUME SyncInv, UNCHANGED <<source, central, edits>>, outages' \in 0..MaxOutages,
         sync' = sync,
         fetch'.stage \in {"idle", "asked", "answered", "unchanged"},
         fetch'.tag \subseteq Rows, fetch'.rows \subseteq {source} \cup fetch.rows
  PROVE  SyncInv'
  BY DEF SyncInv, SyncTypeOK, FromPi, CorrectionsStayWhole

\* An answer is imported: a row of the processor either stays with its copy or goes with it.
LEMMA ImportKeeps ==
  ASSUME SyncInv, Import
  PROVE  SyncInv'
<1>1. PICK rows \in fetch.rows :
        /\ central' =
             [date |-> [r \in Recs |->
                          IF r \in Protected(rows) THEN central.date[r] ELSE rows.date[r]],
              copy |-> CopyRows(rows),
              present |-> [f \in Files |-> CASE f \in rows.files -> "present"
                                             [] f \in Retired(rows) -> "retired"
                                             [] OTHER -> central.present[f]],
              days |-> IF ~sync.seeded /\ central.days = "none" THEN "seeded" ELSE central.days]
        /\ sync' = [digest |-> fetch.rows, ids |-> rows.files, seeded |-> TRUE]
  BY DEF Import
<1>2. rows \in Rows /\ FromPi(rows)
  BY DEF SyncInv, SyncTypeOK
<1>3. /\ central'.date = [r \in Recs |->
                            IF r \in Protected(rows) THEN central.date[r] ELSE rows.date[r]]
      /\ central'.copy = CopyRows(rows)
      /\ central'.days = IF ~sync.seeded /\ central.days = "none" THEN "seeded" ELSE central.days
  BY <1>1
<1>4. central'.present \in [Files -> {"absent", "present", "retired"}]
  BY <1>1 DEF SyncInv, SyncTypeOK
<1>5. /\ central'.date \in [Recs -> Date \cup {NoRow}]
      /\ central'.copy \in [Recs -> Date \cup {NoRow}]
  BY <1>2, <1>3 DEF SyncInv, SyncTypeOK, Rows, CopyRows
<1>6. /\ sync'.digest \subseteq Rows /\ sync'.ids \subseteq Files /\ sync'.seeded \in BOOLEAN
      /\ central'.days \in {"none", "seeded", "own"}
  BY <1>1, <1>2, <1>3 DEF SyncInv, SyncTypeOK, Rows
<1>7. fetch' = NoFetch /\ UNCHANGED <<source, edits, outages>>
  BY DEF Import
<1>8. ASSUME NEW r \in Recs, central'.date[r].by = "processor"
      PROVE  central'.copy[r] = central'.date[r]
  <2>1. r \in Protected(rows)
    BY <1>2, <1>3, <1>8 DEF FromPi
  <2>2. central'.date[r] = central.date[r] /\ central'.copy[r] = central.copy[r]
    BY <1>3, <2>1 DEF CopyRows
  <2>3. QED
    BY <1>8, <2>2 DEF SyncInv, CorrectionsStayWhole
<1>9. QED
  BY <1>4, <1>5, <1>6, <1>7, <1>8 DEF SyncInv, SyncTypeOK, FromPi, CorrectionsStayWhole, NoFetch

LEMMA SyncInvStep == SyncInv /\ [SyncNext]_syncVars => SyncInv'
<1> SUFFICES ASSUME SyncInv, [SyncNext]_syncVars PROVE SyncInv'
  OBVIOUS
<1>1. ASSUME NEW r \in Recs, PiCopies(r) PROVE SyncInv'
  <2> DEFINE rows == [source EXCEPT !.copy[r] = [rev |-> source.date[r].rev + 1, by |-> "pi"]]
  <2>1. source.date[r] \in Date /\ source.date[r].rev + 1 \in 0..MaxRev
    BY <1>1, SyncAssumption DEF SyncAssumption, PiCopies, SyncInv, SyncTypeOK, Rows, Date
  <2>2. rows \in Rows /\ FromPi(rows)
    BY <2>1 DEF SyncInv, SyncTypeOK, Rows, Date, FromPi
  <2> HIDE DEF rows
  <2>3. PiEdits(rows)
    BY <1>1 DEF PiCopies, rows
  <2>4. QED
    BY <2>2, <2>3, PiEditsKeep
<1>2. ASSUME NEW r \in Recs, PiConfirms(r) PROVE SyncInv'
  <2> DEFINE rows == [source EXCEPT !.date[r] = source.copy[r]]
  <2>1. source.date[r].rev \in Nat /\ source.copy[r].rev # 0
    BY <1>2, SyncAssumption DEF SyncAssumption, PiConfirms, SyncInv, SyncTypeOK, Rows, Date
  <2>2. source.copy[r] \in Date
    BY <2>1, DateTypes DEF SyncInv, SyncTypeOK, Rows
  <2>3. rows \in Rows /\ FromPi(rows)
    BY <2>2 DEF SyncInv, SyncTypeOK, Rows, FromPi
  <2> HIDE DEF rows
  <2>4. PiEdits(rows)
    BY <1>2 DEF PiConfirms, rows
  <2>5. QED
    BY <2>3, <2>4, PiEditsKeep
<1>3. ASSUME NEW r \in Recs, Corrects(r) PROVE SyncInv'
  <2> DEFINE row == [rev |-> central.date[r].rev + 1, by |-> "processor"]
  <2>1. central.date[r] \in Date /\ row \in Date /\ edits' \in 0..MaxEdits
    BY <1>3, SyncAssumption DEF SyncAssumption, Corrects, SyncInv, SyncTypeOK, Date
  <2>2. central' = [central EXCEPT !.date[r] = row, !.copy[r] = row]
        /\ UNCHANGED <<source, sync, fetch, outages>>
    BY <1>3 DEF Corrects
  <2> HIDE DEF row
  <2>3. QED
    BY <2>1, <2>2 DEF SyncInv, SyncTypeOK, FromPi, CorrectionsStayWhole
<1>4. ASSUME NEW f \in Files, PiFiles(f) PROVE SyncInv'
  <2> DEFINE more == [source EXCEPT !.files = @ \cup {f}]
             less == [source EXCEPT !.files = @ \ {f}]
  <2>1. more \in Rows /\ FromPi(more) /\ less \in Rows /\ FromPi(less)
    BY DEF SyncInv, SyncTypeOK, Rows, FromPi
  <2> HIDE DEF more, less
  <2>2. PiEdits(more) \/ PiEdits(less)
    BY <1>4 DEF PiFiles, more, less
  <2>3. QED
    BY <2>1, <2>2, PiEditsKeep
<1>5. CASE OwnDays
  <2>1. central' = [central EXCEPT !.days = "own"] /\ UNCHANGED <<source, sync, fetch, edits, outages>>
    BY <1>5 DEF OwnDays
  <2>2. QED
    BY <2>1 DEF SyncInv, SyncTypeOK, FromPi, CorrectionsStayWhole
<1>6. CASE Ask
  BY <1>6, FetchGoesOn DEF Ask, NoFetch, SyncInv, SyncTypeOK
<1>7. CASE Answer
  BY <1>7, FetchGoesOn DEF Answer, NoFetch, SyncInv, SyncTypeOK
<1>8. CASE Import
  BY <1>8, ImportKeeps
<1>9. CASE NotModified
  BY <1>9, FetchGoesOn DEF NotModified, NoFetch, SyncInv, SyncTypeOK
<1>10. CASE FetchFails
  BY <1>10, FetchGoesOn, SyncAssumption DEF SyncAssumption, FetchFails, NoFetch, SyncInv, SyncTypeOK
<1>11. CASE UNCHANGED syncVars
  BY <1>11 DEF syncVars, SyncInv, SyncTypeOK, FromPi, CorrectionsStayWhole
<1>12. QED
  BY <1>1, <1>2, <1>3, <1>4, <1>5, <1>6, <1>7, <1>8, <1>9, <1>10, <1>11 DEF SyncNext, SyncStep

LEMMA SyncInvHolds == SyncSpec => []SyncInv
  BY SyncInvInit, SyncInvStep, PTL DEF SyncSpec

\* For any recordings and files, and however often either side edits and the request fails: a
\* correction of the processor and its corrected copy stay together (protected_dates).
THEOREM CorrectionsAreWhole == SyncSpec => []CorrectionsStayWhole
<1>1. SyncInv => CorrectionsStayWhole
  BY DEF SyncInv
<1>2. QED
  BY <1>1, SyncInvHolds, PTL

\* No synchronisation takes a recording back to an earlier revision or replaces the GPS days the
\* processor imported itself.
THEOREM DecisionsAreFinal == SyncSpec => DecisionsStand
<1> DEFINE Stands == /\ \A r \in Recs : central.date[r] # NoRow =>
                                          central'.date[r].rev >= central.date[r].rev
                     /\ central.days = "own" => central'.days = "own"
<1>1. ASSUME SyncInv, [SyncNext]_syncVars PROVE Stands
  <2>1. \A r \in Recs : central.date[r].rev \in Nat
    BY <1>1, SyncAssumption DEF SyncAssumption, SyncInv, SyncTypeOK, Date, NoRow
  <2>2. CASE central' = central
    BY <2>1, <2>2
  <2>3. CASE Import
    <3>1. PICK rows \in fetch.rows :
            /\ central'.date = [r \in Recs |->
                                  IF r \in Protected(rows) THEN central.date[r] ELSE rows.date[r]]
            /\ central'.days = IF ~sync.seeded /\ central.days = "none" THEN "seeded" ELSE central.days
      BY <2>3 DEF Import
    <3>2. \A r \in Recs : rows.date[r].rev \in Nat
      BY <1>1, SyncAssumption DEF SyncAssumption, SyncInv, SyncTypeOK, Rows, Date
    <3>3. \A r \in Recs : central.date[r] # NoRow => central'.date[r].rev >= central.date[r].rev
      BY <2>1, <3>1, <3>2 DEF Protected, Older
    <3>4. QED
      BY <3>1, <3>3
  <2>4. ASSUME NEW r \in Recs, Corrects(r) PROVE Stands
    BY <1>1, <2>1, <2>4 DEF Corrects, SyncInv, SyncTypeOK
  <2>5. CASE OwnDays
    BY <2>1, <2>5 DEF OwnDays
  <2>6. QED
    BY <1>1, <2>2, <2>3, <2>4, <2>5
       DEF SyncNext, SyncStep, syncVars, PiCopies, PiConfirms, PiEdits, PiFiles, Ask, Answer,
           NotModified, FetchFails
<1>2. SyncInv /\ [SyncNext]_syncVars => [Stands]_syncVars
  BY <1>1
<1>3. SyncSpec => [][Stands]_syncVars
  BY <1>2, SyncInvHolds, PTL DEF SyncSpec
<1>4. QED
  BY <1>3 DEF DecisionsStand
=============================================================================
