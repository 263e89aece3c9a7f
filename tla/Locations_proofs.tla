--------------------------- MODULE Locations_proofs ---------------------------
(***************************************************************************)
(* Theorems of the location history: what cleaning keeps (LocationDays),   *)
(* and that neither the automatic refresh (HaRefresh) nor an import by     *)
(* hand (LocationImport) loses fixes that are saved.                       *)
(***************************************************************************)
EXTENDS HaRefresh, LocationImport, FiniteSetTheorems, SequenceTheorems,
        WellFoundedInduction, TLAPS

(***************************************************************************)
(* Cleaned is written by recursion over the fixes.  It is the one subset   *)
(* in which a fix is kept exactly if what is kept before it does not       *)
(* reject it; everything below rests on that equation.                     *)
(***************************************************************************)

Earlier(fixes, f) == {g \in fixes : g < f}
Rejected(fixes, f) ==
  \/ f \in Poor
  \/ Earlier(fixes, f) # {} /\ <<LatestFix(Earlier(fixes, f)), f>> \in Impossible

\* What the recursion says of one fix.
KeptAt(fixes, kept, f) ==
  /\ f \in Usable(fixes)
  /\ LET before == {g \in fixes : g < f /\ kept[g]}
     IN before = {} \/ <<LatestFix(before), f>> \notin Impossible

LEMMA LeastOfNumbers ==
  ASSUME NEW T, T \subseteq Nat, T # {}
  PROVE  \E n \in T : \A m \in T : ~(m < n)
<1>1. PICK n \in T : \A m \in T : ~(<<m, n>> \in OpToRel(<, Nat))
  BY WFMin, NatLessThanWellFounded, Zenon
<1>2. ASSUME NEW m \in T PROVE ~(m < n)
  <2>1. ~(<<m, n>> \in {ss \in Nat \X Nat : ss[1] < ss[2]})
    BY <1>1, Zenon DEF OpToRel
  <2>2. QED
    BY <2>1
<1>3. QED
  BY <1>2

LEMMA FixesAreNumbers == \A f \in Fixes : f \in Nat
  BY LocationDaysAssumption

\* The fixes end somewhere.
LEMMA FixesEnd == \E n \in Nat : \A f \in Fixes : f < n
<1>1. PICK m \in Nat : \E all \in [1..m -> Fixes] : \A f \in Fixes : \E i \in 1..m : all[i] = f
  BY LocationDaysAssumption, FS_NatSurjection DEF ExistsSurjection, Surjection
<1>6. PICK list \in [1..m -> Fixes] : \A f \in Fixes : \E i \in 1..m : list[i] = f
  BY <1>1
<1> DEFINE Ends(i) == \E n \in Nat : \A k \in 1..i : list[k] < n
           endless == {i \in 0..m : ~Ends(i)}
<1>2. ASSUME NEW i \in endless, \A k \in endless : ~(k < i) PROVE FALSE
  <2>1. i # 0
    <3>1. Ends(0)
      OBVIOUS
    <3>2. QED
      BY <3>1, <1>2
  <2>2. i - 1 \in 0..m /\ i - 1 \notin endless
    <3>1. i \in Nat /\ i <= m
      OBVIOUS
    <3>2. i - 1 \in Nat /\ i - 1 <= m /\ i - 1 < i
      BY <2>1, <3>1
    <3> HIDE DEF endless
    <3>3. QED
      BY <1>2, <3>2
  <2>3. PICK n \in Nat : \A k \in 1..i-1 : list[k] < n
    BY <2>2
  <2>4. list[i] \in Nat
    BY <2>1, FixesAreNumbers
  <2>5. PICK larger \in Nat : n <= larger /\ list[i] < larger
    <3>1. \A x, y \in Nat : x <= x + y + 1 /\ y < x + y + 1 /\ x + y + 1 \in Nat
      OBVIOUS
    <3>2. QED
      BY <2>4, <3>1
  <2>6. \A k \in 1..i : list[k] \in Nat /\ list[k] < larger
    BY <2>3, <2>5, FixesAreNumbers
  <2>7. QED
    BY <2>6
<1>3. endless = {}
  <2> HIDE DEF endless
  <2>1. endless \subseteq Nat
    BY DEF endless
  <2>2. QED
    BY <1>2, <2>1, LeastOfNumbers
<1>4. Ends(m)
  <2>1. m \notin endless
    BY <1>3
  <2>2. QED
    BY <2>1
<1>5. QED
  BY <1>6, <1>4

\* For every number there is a function that the recursion describes below it: the next value is
\* a matter of the earlier ones.
LEMMA Describable ==
  ASSUME NEW fixes \in SUBSET Fixes, NEW n \in Nat
  PROVE  \E kept \in [Fixes -> BOOLEAN] : \A f \in Fixes : f < n => kept[f] = KeptAt(fixes, kept, f)
<1> DEFINE Good(kept, k) == \A f \in Fixes : f < k => kept[f] = KeptAt(fixes, kept, f)
           bad == {k \in Nat : \A kept \in [Fixes -> BOOLEAN] : ~Good(kept, k)}
<1>1. ASSUME NEW k \in bad, \A l \in bad : ~(l < k) PROVE FALSE
  <2>1. k # 0
    <3>1. Good([f \in Fixes |-> FALSE], 0)
      BY FixesAreNumbers
    <3>2. QED
      BY <3>1
  <2>2. k - 1 \in Nat /\ k - 1 \notin bad
    BY <2>1, <1>1
  <2>3. PICK kept \in [Fixes -> BOOLEAN] : Good(kept, k - 1)
    BY <2>2
  <2> DEFINE next == [f \in Fixes |-> IF f = k - 1 THEN KeptAt(fixes, kept, f) ELSE kept[f]]
  <2>4. next \in [Fixes -> BOOLEAN]
    BY DEF KeptAt
  <2>5. ASSUME NEW f \in Fixes, f < k PROVE next[f] = KeptAt(fixes, next, f)
    <3>1. {g \in fixes : g < f /\ next[g]} = {g \in fixes : g < f /\ kept[g]}
      <4>1. \A g \in fixes : g < f => g # k - 1
        BY <2>5, FixesAreNumbers
      <4>2. \A g \in fixes : g < f => next[g] = kept[g]
        BY <4>1
      <4>3. QED
        BY <4>2
    <3>2. KeptAt(fixes, next, f) = KeptAt(fixes, kept, f)
      BY <3>1 DEF KeptAt
    <3>3. QED
      BY <2>3, <2>5, <3>2, FixesAreNumbers
  <2>6. Good(next, k)
    BY <2>5
  <2>7. QED
    BY <2>4, <2>6
<1>2. bad = {}
  <2> HIDE DEF bad
  <2>1. bad \subseteq Nat
    BY DEF bad
  <2>2. QED
    BY <1>1, <2>1, LeastOfNumbers
<1>3. QED
  BY <1>2

\* So the recursion has a solution, and Cleaned is what it keeps.
LEMMA CleanedByRecursion ==
  ASSUME NEW fixes \in SUBSET Fixes
  PROVE  \E kept \in [Fixes -> BOOLEAN] :
           /\ \A f \in Fixes : kept[f] = KeptAt(fixes, kept, f)
           /\ Cleaned(fixes) = {f \in fixes : kept[f]}
<1> DEFINE Solves(kept) == kept = [f \in Fixes |->
             /\ f \in Usable(fixes)
             /\ LET before == {g \in fixes : g < f /\ kept[g]}
                IN before = {} \/ <<LatestFix(before), f>> \notin Impossible]
           solution == CHOOSE kept : Solves(kept)
<1>1. PICK n \in Nat : \A f \in Fixes : f < n
  BY FixesEnd
<1>2. PICK kept \in [Fixes -> BOOLEAN] : \A f \in Fixes : f < n => kept[f] = KeptAt(fixes, kept, f)
  BY Describable
<1>3. Solves(kept)
  BY <1>1, <1>2 DEF KeptAt
<1>4. Solves(solution)
  BY <1>3
<1>5. Cleaned(fixes) = {f \in fixes : solution[f]}
  BY DEF Cleaned
<1>6. solution \in [Fixes -> BOOLEAN] /\ \A f \in Fixes : solution[f] = KeptAt(fixes, solution, f)
  BY <1>4 DEF KeptAt
<1>7. QED
  BY <1>5, <1>6

LEMMA CleanedEquation ==
  ASSUME NEW fixes \in SUBSET Fixes
  PROVE  /\ Cleaned(fixes) \subseteq fixes
         /\ \A f \in fixes : f \in Cleaned(fixes) <=> ~Rejected(Cleaned(fixes), f)
<1>1. PICK kept \in [Fixes -> BOOLEAN] :
           /\ \A f \in Fixes : kept[f] = KeptAt(fixes, kept, f)
           /\ Cleaned(fixes) = {f \in fixes : kept[f]}
  BY CleanedByRecursion
<1>2. ASSUME NEW f \in fixes PROVE f \in Cleaned(fixes) <=> ~Rejected(Cleaned(fixes), f)
  <2>1. Earlier(Cleaned(fixes), f) = {g \in fixes : g < f /\ kept[g]}
    BY <1>1 DEF Earlier
  <2>2. f \in Cleaned(fixes) <=> KeptAt(fixes, kept, f)
    BY <1>1
  <2>3. QED
    BY <2>1, <2>2 DEF KeptAt, Rejected, Usable
<1>3. QED
  BY <1>1, <1>2

\* What rejects a fix is what is kept before it.
LEMMA SameEarlier ==
  ASSUME NEW A, NEW B, NEW f, Earlier(A, f) = Earlier(B, f)
  PROVE  Rejected(A, f) <=> Rejected(B, f)
  BY DEF Rejected

\* Of some fixes there is a first one.
LEMMA FirstOf ==
  ASSUME NEW fixes \in SUBSET Fixes, fixes # {}
  PROVE  \E f \in fixes : \A g \in fixes : ~(g < f)
  BY FixesAreNumbers, LeastOfNumbers

\* And a last one.
LEMMA LatestIsThere ==
  ASSUME NEW fixes \in SUBSET Fixes, fixes # {}
  PROVE  LatestFix(fixes) \in fixes /\ \A g \in fixes : g <= LatestFix(fixes)
<1>1. PICK n \in Nat : \A f \in Fixes : f < n
  BY FixesEnd
<1> DEFINE left == {n - f : f \in fixes}
<1>2. left \subseteq Nat /\ left # {}
  BY <1>1, FixesAreNumbers
<1>3. PICK m \in left : \A k \in left : ~(k < m)
  <2> HIDE DEF left
  <2>1. QED
    BY <1>2, LeastOfNumbers
<1>4. PICK f \in fixes : m = n - f
  BY <1>3
<1>5. \A g \in fixes : g <= f
  <2> TAKE g \in fixes
  <2>1. n - g \in left /\ n - g \in Nat /\ n - f \in Nat
    BY <1>2
  <2>2. ~(n - g < n - f)
    BY <1>3, <1>4, <2>1
  <2>3. QED
    BY <2>2, FixesAreNumbers
<1>6. QED
  BY <1>5 DEF LatestFix

(***************************************************************************)
(* Merging.  A chain is what cleaning would leave as it is.  It dominates  *)
(* other fixes that it rejects or that come after all of its own: merging  *)
(* these loses none of the chain.                                          *)
(***************************************************************************)

Chain(fixes) == \A f \in fixes : ~Rejected(fixes, f)
LaterThan(f, fixes) == \A g \in fixes : g < f
Dominates(fixes, others) ==
  \A f \in others : f \in fixes \/ Rejected(fixes, f) \/ LaterThan(f, fixes)

\* Cleaned fixes are a chain that dominates what they were cleaned of.
LEMMA CleanedIsChain ==
  ASSUME NEW fixes \in SUBSET Fixes
  PROVE  Chain(Cleaned(fixes)) /\ Dominates(Cleaned(fixes), fixes)
  BY CleanedEquation DEF Chain, Dominates

LEMMA MergeKeeps ==
  ASSUME NEW known \in SUBSET Fixes, NEW new \in SUBSET Fixes, Chain(known), Dominates(known, new)
  PROVE  known \subseteq Merge(known, new)
<1> DEFINE all == known \cup new
           merged == Cleaned(all)
           differ == {f \in all : ~LaterThan(f, known) /\ ~(f \in merged <=> f \in known)}
<1>1. merged \subseteq all /\ \A f \in all : f \in merged <=> ~Rejected(merged, f)
  BY CleanedEquation
<1>2. ASSUME NEW f \in differ, \A g \in differ : ~(g < f) PROVE FALSE
  <2>1. ASSUME NEW g \in all, g < f PROVE g \in merged <=> g \in known
    <3>1. ~LaterThan(g, known)
      BY <2>1, FixesAreNumbers DEF LaterThan
    <3>2. g \notin differ
      BY <1>2, <2>1
    <3>3. QED
      BY <3>1, <3>2
  <2>2. Earlier(merged, f) = Earlier(known, f)
    BY <1>1, <2>1 DEF Earlier
  <2>3. f \in merged <=> ~Rejected(known, f)
    BY <1>1, <2>2, SameEarlier
  <2>4. f \in known <=> ~Rejected(known, f)
    BY DEF Chain, Dominates
  <2>5. QED
    BY <2>3, <2>4
<1>3. differ = {}
  <2>1. differ \in SUBSET Fixes
    OBVIOUS
  <2> HIDE DEF differ
  <2>2. QED
    BY <1>2, <2>1, FirstOf
<1>4. \A f \in known : ~LaterThan(f, known)
  BY FixesAreNumbers DEF LaterThan
<1>5. QED
  BY <1>3, <1>4 DEF Merge

\* A fix that is recorded after the others changes nothing for these.
LEMMA LaterFixOnlyAdds ==
  ASSUME NEW fixes \in SUBSET Fixes, NEW n \in Fixes, LaterThan(n, fixes)
  PROVE  Cleaned(fixes \cup {n}) \subseteq Cleaned(fixes) \cup {n}
<1> DEFINE more == fixes \cup {n}
           differ == {f \in fixes : ~(f \in Cleaned(more) <=> f \in Cleaned(fixes))}
<1>1. /\ Cleaned(more) \subseteq more /\ \A f \in more : f \in Cleaned(more) <=> ~Rejected(Cleaned(more), f)
      /\ Cleaned(fixes) \subseteq fixes
      /\ \A f \in fixes : f \in Cleaned(fixes) <=> ~Rejected(Cleaned(fixes), f)
  BY CleanedEquation
<1>2. ASSUME NEW f \in differ, \A g \in differ : ~(g < f) PROVE FALSE
  <2>1. ~(n < f)
    BY FixesAreNumbers DEF LaterThan
  <2>2. Earlier(Cleaned(more), f) = Earlier(Cleaned(fixes), f)
    BY <1>1, <1>2, <2>1 DEF Earlier
  <2>3. QED
    BY <1>1, <2>2, SameEarlier
<1>3. differ = {}
  <2>1. differ \in SUBSET Fixes
    OBVIOUS
  <2> HIDE DEF differ
  <2>2. QED
    BY <1>2, <2>1, FirstOf
<1>4. QED
  BY <1>1, <1>3

\* A fix that is good enough gives way only to an earlier one from which it cannot be reached.
LEMMA GivesWay ==
  ASSUME NEW fixes \in SUBSET Fixes, NEW f \in fixes, f \notin Poor, f \notin Cleaned(fixes)
  PROVE  \E g \in Cleaned(fixes) : g < f /\ <<g, f>> \in Impossible
<1>1. Rejected(Cleaned(fixes), f) /\ Cleaned(fixes) \subseteq fixes
  BY CleanedEquation
<1>2. Earlier(Cleaned(fixes), f) \in SUBSET Fixes
  BY <1>1 DEF Earlier
<1>3. LatestFix(Earlier(Cleaned(fixes), f)) \in Earlier(Cleaned(fixes), f)
  BY <1>1, <1>2, LatestIsThere DEF Rejected
<1>4. QED
  BY <1>1, <1>3 DEF Rejected, Earlier

(***************************************************************************)
(* HaRefresh, its types.                                                   *)
(***************************************************************************)

HaTask == [pc : {"idle", "home", "days", "answered"}, wanted : Seq(Days),
           changed : SUBSET Months, answer : SUBSET Fixes]

LEMMA NoTaskType == NoTask \in HaTask
  BY DEF NoTask, HaTask

LEMMA OutingsType == ASSUME NEW fixes \in SUBSET Fixes PROVE Outings(fixes) \in SUBSET SUBSET Fixes
  BY DEF Outings

LEMMA MonthOfDays == \A d \in Days : MonthOf[d] \in Months
  BY DEF Months

LEMMA JourneysType ==
  ASSUME HaTypeOK, NEW m \in Months
  PROVE  JourneysOf(m) \in SUBSET SUBSET Fixes
<1> DEFINE all == UNION {saved[d].fixes : d \in {e \in Days : MonthOf[e] = m}}
<1>1. all \in SUBSET Fixes
  BY DEF HaTypeOK
<1>2. Cleaned(all) \in SUBSET Fixes
  BY <1>1, CleanedEquation
<1>3. Outings(Cleaned(all)) \in SUBSET SUBSET Fixes
  BY <1>2, OutingsType
<1>4. QED
  BY <1>3 DEF JourneysOf

LEMMA MergedType ==
  ASSUME HaTypeOK, NEW d \in Days
  PROVE  Merged(d) \in SUBSET Fixes /\ Merged(d) \subseteq saved[d].fixes \cup task.answer
<1>1. saved[d].fixes \cup task.answer \in SUBSET Fixes
  BY DEF HaTypeOK
<1>2. QED
  BY <1>1, CleanedEquation DEF Merged, Merge

\* Of the three counters one may grow by one.
Strain == [fixes : 0..MaxFixes, lapses : 0..MaxLapses, troubles : 0..MaxHaTroubles]

LEMMA CounterGrows ==
  ASSUME NEW N \in Nat, NEW n \in 0..N, n < N
  PROVE  n + 1 \in 0..N
  OBVIOUS

LEMMA StrainedType ==
  ASSUME HaTypeOK, Strained
  PROVE  strain' \in Strain /\ strain'.fixes = strain.fixes
<1>1. strain \in Strain /\ strain.troubles < MaxHaTroubles
  BY DEF HaTypeOK, Strained, Strain
<1>2. strain.troubles \in 0..MaxHaTroubles /\ MaxHaTroubles \in Nat
  BY <1>1, HaRefreshAssumption DEF Strain
<1>3. strain.troubles + 1 \in 0..MaxHaTroubles
  BY <1>1, <1>2, CounterGrows
<1>4. strain' = [strain EXCEPT !.troubles = strain.troubles + 1]
  BY DEF Strained
<1>5. QED
  BY <1>1, <1>3, <1>4 DEF Strain

\* A day that is answered is still to be saved.
DayInHand == task.pc = "answered" => task.wanted # <<>>

LEMMA HaTypeInit == HaInit => HaTypeOK
<1> SUFFICES ASSUME HaInit PROVE HaTypeOK
  OBVIOUS
<1>1. task \in HaTask
  BY NoTaskType DEF HaInit
<1>2. strain \in [fixes : 0..MaxFixes, lapses : 0..MaxLapses, troubles : 0..MaxHaTroubles]
  BY HaRefreshAssumption DEF HaInit
<1>3. QED
  BY <1>1, <1>2 DEF HaInit, HaTypeOK, Results, HaTask

LEMMA HaTypeStep == HaTypeOK /\ DayInHand /\ [HaNext]_haVars => HaTypeOK'
<1> SUFFICES ASSUME HaTypeOK, DayInHand, [HaNext]_haVars PROVE HaTypeOK'
  OBVIOUS
<1>t. task \in HaTask
  BY DEF HaTypeOK, HaTask
<1>1. ASSUME Plan PROVE HaTypeOK'
  <2>1. PICK days \in Selections :
          task' = [pc |-> IF home THEN "days" ELSE "home", wanted |-> days,
                   changed |-> Remembered, answer |-> {}]
    BY <1>1 DEF Plan
  <2>2. days \in Seq(Days)
    <3>1. PICK n \in 0..MaxDays : days \in [1..n -> Wanted]
      BY DEF Selections
    <3>2. Wanted \subseteq Days
      BY DEF Wanted, Primary, Neighbours, HaTypeOK
    <3>3. n \in Nat
      BY HaRefreshAssumption
    <3>4. days \in [1..n -> Days]
      BY <3>1, <3>2
    <3>5. QED
      BY <3>3, <3>4, SeqDef
  <2>3. Remembered \subseteq Months
    BY DEF Remembered, Pending, Months
  <2>4. task' \in HaTask
    BY <2>1, <2>2, <2>3 DEF HaTask
  <2>5. QED
    BY <1>1, <2>4 DEF Plan, HaTypeOK, HaTask, world, store
<1>2. ASSUME FetchHome PROVE HaTypeOK'
  <2>1. task' \in HaTask
    BY <1>2, <1>t DEF FetchHome, HaTask
  <2>2. QED
    BY <1>2, <2>1 DEF FetchHome, HaTypeOK, HaTask, world
<1>3. ASSUME FetchDay PROVE HaTypeOK'
  <2>1. Head(task.wanted) \in Days
    BY <1>3, <1>t DEF FetchDay, HaTask
  <2>2. Cleaned(recorded[Head(task.wanted)]) \in SUBSET Fixes
    BY <2>1, CleanedEquation DEF HaTypeOK
  <2>3. task' \in HaTask
    BY <1>3, <1>t, <2>2 DEF FetchDay, HaTask
  <2>4. QED
    BY <1>3, <2>3 DEF FetchDay, HaTypeOK, HaTask, world, store
<1>4. ASSUME DayFails PROVE HaTypeOK'
  <2>1. Tail(task.wanted) \in Seq(Days)
    BY <1>4, <1>t DEF DayFails, HaTask
  <2>2. task' \in HaTask
    BY <1>4, <1>t, <2>1 DEF DayFails, HaTask
  <2>3. QED
    BY <1>4, <2>2, StrainedType DEF DayFails, HaTypeOK, HaTask, world, store, Strain
<1>5. ASSUME SaveDay PROVE HaTypeOK'
  <2>1. PICK d \in Days : d = Head(task.wanted) /\ Tail(task.wanted) \in Seq(Days)
    BY <1>5, <1>t DEF SaveDay, DayInHand, HaTask
  <2>2. /\ saved' = IF Result(d) \in {"rebuild_pending", "empty"}
                    THEN [saved EXCEPT ![d] = [row |-> TRUE, fixes |-> Merged(d)]] ELSE saved
        /\ checks' = [checks EXCEPT ![d] = Result(d)] /\ due' = due \ Checked(d)
        /\ task' = [task EXCEPT !.pc = "days", !.wanted = Tail(@), !.answer = {},
                !.changed = IF Result(d) = "rebuild_pending" THEN @ \cup {MonthOf[d]} ELSE @]
        /\ UNCHANGED <<world, journeys, home, strain>>
    BY <1>5, <2>1 DEF SaveDay
  <2>3. Result(d) \in Results
    BY DEF Result, Results
  <2>4. saved' \in [Days -> [row : BOOLEAN, fixes : SUBSET Fixes]]
    BY <2>2, MergedType DEF HaTypeOK
  <2>5. task' \in HaTask
    BY <1>t, <2>1, <2>2, MonthOfDays DEF HaTask
  <2>6. QED
    BY <2>2, <2>3, <2>4, <2>5 DEF HaTypeOK, HaTask, world
<1>6. ASSUME Report \/ Stop PROVE HaTypeOK'
  <2>1. task' \in HaTask
    BY <1>6, NoTaskType DEF Report, Stop
  <2>2. strain' \in Strain
    BY <1>6, StrainedType DEF Report, Stop, HaTypeOK, Strain
  <2>3. QED
    BY <1>6, <2>1, <2>2 DEF Report, Stop, HaTypeOK, HaTask, Strain, world, store
<1>7. ASSUME NEW m \in Months, Rebuild(m) PROVE HaTypeOK'
  <2>1. task' \in HaTask
    BY <1>7, <1>t DEF Rebuild, HaTask
  <2>2. journeys' \in [Months -> SUBSET SUBSET Fixes]
    BY <1>7, JourneysType DEF Rebuild, HaTypeOK
  <2>3. checks' \in [Days -> Results]
    BY <1>7 DEF Rebuild, HaTypeOK, Results
  <2>4. QED
    BY <1>7, <2>1, <2>2, <2>3 DEF Rebuild, HaTypeOK, HaTask, world
<1>8. ASSUME NEW m \in Months, RebuildFails(m) PROVE HaTypeOK'
  <2>1. task' \in HaTask
    BY <1>8, <1>t DEF RebuildFails, HaTask
  <2>2. QED
    BY <1>8, <2>1, StrainedType DEF RebuildFails, HaTypeOK, HaTask, Strain, world, store
<1>9. ASSUME RecordFix PROVE HaTypeOK'
  <2>1. strain \in Strain /\ strain.fixes < MaxFixes /\ strain.fixes \in 0..MaxFixes /\ MaxFixes \in Nat
    BY <1>9, HaRefreshAssumption DEF RecordFix, HaTypeOK, Strain
  <2>2. strain.fixes + 1 \in 0..MaxFixes /\ strain.fixes + 1 \in 1..MaxFixes
    BY <2>1
  <2>3. strain.fixes + 1 \in Fixes
    BY <2>2, HaRefreshAssumption
  <2>4. strain' \in Strain
    BY <1>9, <2>1, <2>2 DEF RecordFix, Strain
  <2>5. recorded' \in [Days -> SUBSET Fixes]
    BY <1>9, <2>3 DEF RecordFix, HaTypeOK
  <2>6. QED
    BY <1>9, <2>4, <2>5 DEF RecordFix, HaTypeOK, Strain, store
<1>10. ASSUME NEW d \in Days, Purge(d) PROVE HaTypeOK'
  BY <1>10, StrainedType DEF Purge, HaTypeOK, Strain, store
<1>11. ASSUME NEW d \in Days, ClipArrives(d) PROVE HaTypeOK'
  BY <1>11 DEF ClipArrives, HaTypeOK
<1>12. ASSUME HalfHour PROVE HaTypeOK'
  <2>1. strain \in Strain /\ strain.lapses < MaxLapses /\ strain.lapses \in 0..MaxLapses /\ MaxLapses \in Nat
    BY <1>12, HaRefreshAssumption DEF HalfHour, HaTypeOK, Strain
  <2>2. strain.lapses + 1 \in 0..MaxLapses
    BY <2>1, CounterGrows
  <2>3. strain' \in Strain
    BY <1>12, <2>1, <2>2 DEF HalfHour, Strain
  <2>4. QED
    BY <1>12, <2>3 DEF HalfHour, HaTypeOK, Strain, world
<1>13. ASSUME Midnight PROVE HaTypeOK'
  BY <1>13 DEF Midnight, HaTypeOK, store
<1>14. ASSUME UNCHANGED haVars PROVE HaTypeOK'
  BY <1>14 DEF haVars, HaTypeOK
<1>15. QED
  BY <1>1, <1>2, <1>3, <1>4, <1>5, <1>6, <1>7, <1>8, <1>9, <1>10, <1>11, <1>12, <1>13, <1>14
     DEF HaNext, RefreshStep

(***************************************************************************)
(* HaRefresh, the saved days: each is a chain that dominates what cleaning *)
(* leaves of the history, whatever of that has been purged and whatever    *)
(* has been recorded since; and so does it for an answer on its way.       *)
(***************************************************************************)

SoFar(fixes) == \A f \in fixes : f <= strain.fixes

KeepsUp(d) == Chain(saved[d].fixes) /\ Dominates(saved[d].fixes, Cleaned(recorded[d]))

\* What the history has beyond the answer came later.
AnswerIsRecent(d) ==
  /\ Dominates(saved[d].fixes, task.answer)
  /\ \A f \in Cleaned(recorded[d]) : f \in task.answer \/ LaterThan(f, saved[d].fixes \cup task.answer)

GpsInv ==
  /\ HaTypeOK /\ DayInHand
  /\ \A d \in Days : SoFar(recorded[d]) /\ SoFar(saved[d].fixes) /\ KeepsUp(d)
  /\ SoFar(task.answer)
  /\ IF task.pc = "answered" THEN AnswerIsRecent(Head(task.wanted)) ELSE task.answer = {}

LEMMA EmptyIsChain == Chain({}) /\ Cleaned({}) = {} /\ \A fixes : Dominates(fixes, {})
<1>1. Cleaned({}) = {}
  BY DEF Cleaned
<1>2. QED
  BY <1>1 DEF Chain, Dominates

LEMMA GpsInvInit == HaInit => GpsInv
<1> SUFFICES ASSUME HaInit PROVE GpsInv
  OBVIOUS
<1>1. task = NoTask /\ \A d \in Days : recorded[d] = {} /\ saved[d].fixes = {}
  BY DEF HaInit
<1>2. task.pc = "idle" /\ task.answer = {}
  BY <1>1 DEF NoTask
<1>3. QED
  BY <1>1, <1>2, HaTypeInit, EmptyIsChain DEF GpsInv, DayInHand, SoFar, KeepsUp

\* The steps that leave the history and the saved days alone.
LEMMA HistoryStays ==
  ASSUME GpsInv, HaTypeOK', UNCHANGED <<recorded, saved>>, strain'.fixes = strain.fixes,
         \/ task'.pc # "answered" /\ task'.answer = {}
         \/ task' = task
  PROVE  GpsInv'
<1>1. \A d \in Days : SoFar(recorded[d])' /\ SoFar(saved[d].fixes)' /\ KeepsUp(d)'
  BY DEF GpsInv, SoFar, KeepsUp
<1>2. QED
  BY <1>1 DEF GpsInv, DayInHand, SoFar, AnswerIsRecent

\* A fix that is recorded today comes after all that there is.
LEMMA RecordKeeps == ASSUME GpsInv, HaTypeOK', RecordFix PROVE GpsInv'
<1> DEFINE n == strain.fixes + 1
<1>1. /\ n \in Fixes /\ strain.fixes \in Nat
      /\ strain'.fixes = n /\ UNCHANGED <<saved, task>>
      /\ \A d \in Days : recorded'[d] = IF d = today THEN recorded[d] \cup {n} ELSE recorded[d]
  <2>1. strain \in Strain /\ strain.fixes < MaxFixes
    BY DEF RecordFix, GpsInv, HaTypeOK, Strain
  <2>2. strain.fixes \in 0..MaxFixes /\ MaxFixes \in Nat
    BY <2>1, HaRefreshAssumption DEF Strain
  <2>3. n \in 1..MaxFixes /\ strain.fixes \in Nat
    BY <2>1, <2>2
  <2>4. n \in Fixes
    BY <2>3, HaRefreshAssumption
  <2>5. strain' = [strain EXCEPT !.fixes = n] /\ UNCHANGED <<saved, task>>
    BY DEF RecordFix, store
  <2>6. strain'.fixes = n
    BY <2>1, <2>5 DEF Strain
  <2>7. \A d \in Days : recorded'[d] = IF d = today THEN recorded[d] \cup {n} ELSE recorded[d]
    BY DEF RecordFix, GpsInv, HaTypeOK
  <2>8. QED
    BY <2>3, <2>4, <2>5, <2>6, <2>7
<1>2. /\ \A d \in Days : recorded[d] \in SUBSET Fixes /\ saved[d].fixes \in SUBSET Fixes
      /\ task.answer \in SUBSET Fixes
  BY DEF GpsInv, HaTypeOK
<1>3. /\ \A d \in Days : LaterThan(n, recorded[d]) /\ LaterThan(n, saved[d].fixes)
      /\ LaterThan(n, task.answer)
  BY <1>1, <1>2, FixesAreNumbers DEF GpsInv, SoFar, LaterThan
<1>4. \A d \in Days : Cleaned(recorded'[d]) \subseteq Cleaned(recorded[d]) \cup {n}
  BY <1>1, <1>2, <1>3, LaterFixOnlyAdds
<1>5. ASSUME NEW d \in Days PROVE SoFar(recorded[d])' /\ SoFar(saved[d].fixes)' /\ KeepsUp(d)'
  <2>1. SoFar(recorded[d])' /\ SoFar(saved[d].fixes)'
    <3>1. \A f \in recorded[d] \cup saved[d].fixes \cup {n} : f <= n
      BY <1>1, <1>2, FixesAreNumbers DEF GpsInv, SoFar
    <3>2. recorded'[d] \subseteq recorded[d] \cup {n}
      BY <1>1
    <3> HIDE DEF n
    <3>3. QED
      BY <1>1, <3>1, <3>2 DEF SoFar
  <2>2. Dominates(saved[d].fixes, Cleaned(recorded'[d]))
    BY <1>3, <1>4 DEF GpsInv, KeepsUp, Dominates
  <2>3. QED
    BY <1>1, <2>1, <2>2 DEF GpsInv, KeepsUp
<1>6. SoFar(task.answer)'
  BY <1>1, <1>2, FixesAreNumbers DEF GpsInv, SoFar
<1>7. ASSUME task.pc = "answered" PROVE AnswerIsRecent(Head(task.wanted))'
  <2>1. PICK d \in Days : d = Head(task.wanted)
    BY <1>7 DEF GpsInv, HaTypeOK, DayInHand
  <2>2. AnswerIsRecent(d)
    BY <1>7, <2>1 DEF GpsInv
  <2>3. LaterThan(n, saved[d].fixes \cup task.answer)
    BY <1>3 DEF LaterThan
  <2>4. \A f \in Cleaned(recorded'[d]) : f \in task.answer \/ LaterThan(f, saved[d].fixes \cup task.answer)
    BY <1>4, <2>2, <2>3 DEF AnswerIsRecent
  <2>5. QED
    BY <1>1, <2>1, <2>2, <2>4 DEF AnswerIsRecent
<1>8. QED
  BY <1>1, <1>5, <1>6, <1>7 DEF GpsInv, DayInHand

LEMMA PurgeKeeps == ASSUME GpsInv, HaTypeOK', NEW d \in Days, Purge(d) PROVE GpsInv'
<1>1. /\ strain'.fixes = strain.fixes /\ UNCHANGED <<saved, task>>
      /\ \A e \in Days : recorded'[e] = IF e = d THEN {} ELSE recorded[e]
  BY StrainedType DEF Purge, GpsInv, HaTypeOK, store
<1>2. \A e \in Days : SoFar(recorded[e])' /\ SoFar(saved[e].fixes)' /\ KeepsUp(e)'
  BY <1>1, EmptyIsChain DEF GpsInv, SoFar, KeepsUp
<1>3. ASSUME task.pc = "answered" PROVE AnswerIsRecent(Head(task.wanted))'
  <2>1. PICK e \in Days : e = Head(task.wanted)
    BY <1>3 DEF GpsInv, HaTypeOK, DayInHand
  <2>2. AnswerIsRecent(e)
    BY <1>3, <2>1 DEF GpsInv
  <2>3. QED
    BY <1>1, <2>1, <2>2, EmptyIsChain DEF AnswerIsRecent
<1>4. QED
  BY <1>1, <1>2, <1>3 DEF GpsInv, DayInHand, SoFar

LEMMA FetchKeeps == ASSUME GpsInv, HaTypeOK', FetchDay PROVE GpsInv'
<1>1. PICK d \in Days : d = Head(task.wanted)
  BY DEF FetchDay, GpsInv, HaTypeOK
<1>2. /\ task'.pc = "answered" /\ task'.wanted = task.wanted /\ task'.answer = Cleaned(recorded[d])
      /\ UNCHANGED <<recorded, saved, strain>>
  BY <1>1 DEF FetchDay, GpsInv, HaTypeOK, world, store
<1>3. recorded[d] \in SUBSET Fixes
  BY DEF GpsInv, HaTypeOK
<1>4. SoFar(task.answer)'
  BY <1>2, <1>3, CleanedEquation DEF GpsInv, SoFar
<1>5. AnswerIsRecent(Head(task.wanted))'
  BY <1>1, <1>2 DEF AnswerIsRecent, GpsInv, KeepsUp
<1>6. \A e \in Days : SoFar(recorded[e])' /\ SoFar(saved[e].fixes)' /\ KeepsUp(e)'
  BY <1>2 DEF GpsInv, SoFar, KeepsUp
<1>7. task'.wanted # <<>>
  BY <1>2 DEF FetchDay
<1>8. QED
  BY <1>2, <1>4, <1>5, <1>6, <1>7 DEF GpsInv, DayInHand

\* A day is saved: it keeps its fixes, and takes what it does not reject.
LEMMA MergedFits ==
  ASSUME GpsInv, task.pc = "answered", NEW d \in Days, d = Head(task.wanted)
  PROVE  /\ saved[d].fixes \subseteq Merged(d)
         /\ Chain(Merged(d)) /\ Dominates(Merged(d), Cleaned(recorded[d]))
<1>1. saved[d].fixes \in SUBSET Fixes /\ task.answer \in SUBSET Fixes
  BY DEF GpsInv, HaTypeOK
<1>2. AnswerIsRecent(d) /\ Chain(saved[d].fixes)
  BY DEF GpsInv, KeepsUp
<1>3. saved[d].fixes \subseteq Merged(d)
  BY <1>1, <1>2, MergeKeeps DEF AnswerIsRecent, Merged
<1>4. Chain(Merged(d)) /\ Dominates(Merged(d), saved[d].fixes \cup task.answer)
  BY <1>1, CleanedIsChain DEF Merged, Merge
<1>5. Merged(d) \subseteq saved[d].fixes \cup task.answer
  BY MergedType DEF GpsInv
<1>6. \A f \in Cleaned(recorded[d]) : f \in task.answer \/ LaterThan(f, Merged(d))
  BY <1>2, <1>5 DEF AnswerIsRecent, LaterThan
<1>7. QED
  BY <1>3, <1>4, <1>6 DEF Dominates

LEMMA SaveKeeps == ASSUME GpsInv, HaTypeOK', SaveDay
                   PROVE  GpsInv' /\ \A d \in Days : saved[d].fixes \subseteq saved'[d].fixes
<1>1. PICK d \in Days : d = Head(task.wanted)
  BY DEF SaveDay, GpsInv, HaTypeOK, DayInHand
<1>2. /\ task.pc = "answered" /\ task'.pc = "days" /\ task'.answer = {}
      /\ UNCHANGED <<recorded, strain>>
  BY DEF SaveDay, GpsInv, HaTypeOK, world
<1>3. \A e \in Days : saved'[e].fixes \in IF e = d THEN {saved[d].fixes, Merged(d)} ELSE {saved[e].fixes}
  BY <1>1 DEF SaveDay, GpsInv, HaTypeOK
<1>4. SoFar(Merged(d))
  BY MergedType DEF GpsInv, SoFar
<1>5. ASSUME NEW e \in Days PROVE SoFar(recorded[e])' /\ SoFar(saved[e].fixes)' /\ KeepsUp(e)'
  <2>1. SoFar(saved'[e].fixes) /\ Chain(saved'[e].fixes) /\ Dominates(saved'[e].fixes, Cleaned(recorded[e]))
    BY <1>1, <1>2, <1>3, <1>4, MergedFits DEF GpsInv, KeepsUp
  <2>2. QED
    BY <1>2, <2>1 DEF GpsInv, SoFar, KeepsUp
<1>6. \A e \in Days : saved[e].fixes \subseteq saved'[e].fixes
  BY <1>1, <1>2, <1>3, MergedFits
<1>7. QED
  BY <1>2, <1>5, <1>6 DEF GpsInv, DayInHand, SoFar

LEMMA GpsInvStep == GpsInv /\ [HaNext]_haVars => GpsInv' /\ \A d \in Days : saved[d].fixes \subseteq saved'[d].fixes
<1> SUFFICES ASSUME GpsInv, [HaNext]_haVars
             PROVE  GpsInv' /\ \A d \in Days : saved[d].fixes \subseteq saved'[d].fixes
  OBVIOUS
<1>1. HaTypeOK'
  BY HaTypeStep DEF GpsInv
<1>2. CASE SaveDay
  BY <1>1, <1>2, SaveKeeps
<1>3. CASE RecordFix
  BY <1>1, <1>3, RecordKeeps DEF RecordFix, store
<1>4. CASE \E d \in Days : Purge(d)
  BY <1>1, <1>4, PurgeKeeps DEF Purge, store
<1>5. CASE FetchDay
  BY <1>1, <1>5, FetchKeeps DEF FetchDay, store
<1>6. CASE \/ Plan \/ FetchHome \/ Report \/ DayFails \/ Stop \/ \E m \in Months : Rebuild(m) \/ RebuildFails(m)
  <2>1. task \in HaTask /\ (task.pc # "answered" => task.answer = {})
    BY DEF GpsInv, HaTypeOK, HaTask
  <2>2. task'.pc # "answered" /\ task'.answer = {}
    <3>1. CASE Plan
      BY <3>1 DEF Plan
    <3>2. CASE Report \/ Stop
      BY <3>2 DEF Report, Stop, NoTask
    <3>3. CASE FetchHome
      BY <3>3, <2>1 DEF FetchHome, HaTask
    <3>4. CASE DayFails
      BY <3>4, <2>1 DEF DayFails, HaTask
    <3>5. CASE \E m \in Months : Rebuild(m) \/ RebuildFails(m)
      BY <3>5, <2>1 DEF Rebuild, RebuildFails, HaTask
    <3>6. QED
      BY <1>6, <3>1, <3>2, <3>3, <3>4, <3>5
  <2>3. UNCHANGED <<recorded, saved>>
    BY <1>6 DEF Plan, FetchHome, Report, DayFails, Stop, Rebuild, RebuildFails, world, store
  <2>4. strain'.fixes = strain.fixes
    BY <1>6, StrainedType DEF GpsInv, Plan, FetchHome, Report, DayFails, Stop, Rebuild, RebuildFails
  <2>5. QED
    BY <1>1, <2>2, <2>3, <2>4, HistoryStays
<1>7. CASE HalfHour \/ Midnight \/ (\E d \in Days : ClipArrives(d)) \/ UNCHANGED haVars
  <2>1. UNCHANGED <<recorded, saved, task>>
    BY <1>7 DEF HalfHour, Midnight, ClipArrives, haVars, world, store
  <2>2. strain'.fixes = strain.fixes
    BY <1>7 DEF GpsInv, HaTypeOK, HalfHour, Midnight, ClipArrives, haVars
  <2>3. QED
    BY <1>1, <2>1, <2>2, HistoryStays
<1>8. QED
  BY <1>2, <1>3, <1>4, <1>5, <1>6, <1>7 DEF HaNext, RefreshStep

LEMMA GpsInvHolds == HaSpec => []GpsInv
<1>1. GpsInv /\ [HaNext]_haVars => GpsInv'
  BY GpsInvStep
<1>2. QED
  BY <1>1, GpsInvInit, PTL DEF HaSpec

\* auto_ride_ha.py: days, checks, journeys and the refresh under way keep their types.
THEOREM HaTypes == HaSpec => []HaTypeOK
<1>1. GpsInv => HaTypeOK
  BY DEF GpsInv
<1>2. QED
  BY <1>1, GpsInvHolds, PTL

\* auto_ride_ha.py: for any positions, any of them poor or impossible after others, any failures
\* and purges of Home Assistant's history, no refresh loses a fix that is saved.
THEOREM GpsIsNeverLost == HaSpec => GpsNeverLost
<1> DEFINE Body == \A d \in Days : saved[d].fixes \subseteq saved'[d].fixes
<1>1. GpsInv /\ [HaNext]_haVars => [Body]_haVars
  BY GpsInvStep
<1>2. QED
  BY <1>1, GpsInvHolds, PTL DEF HaSpec, GpsNeverLost

(***************************************************************************)
(* LocationImport: files hold no poor fixes, a day that counts fixes has a *)
(* file with some, and the job's own rows stand for its files.             *)
(***************************************************************************)

ImportRecord == [pc : {"none", "queued", "days", "commit"}, source : Sources,
                 export : SUBSET Fixes, left : SUBSET DaysOfMonth,
                 draft : UNION {[days -> LocationDay] : days \in SUBSET DaysOfMonth}]

FileFits(s, d) ==
  /\ dayFile[s][d] \cap Poor = {}
  /\ dayRow[s][d].fixes # {} => dayFile[s][d] # {}

DraftFits ==
  \A d \in DOMAIN importJob.draft : importJob.draft[d].fixes = dayFile[importJob.source][d]

\* Only the days of Home Assistant are committed one by one.
DaysOfHa == importJob.pc = "commit" => importJob.source = "ha"

ImportInv ==
  /\ ImportTypeOK /\ DraftFits /\ DaysOfHa
  /\ \A s \in Sources, d \in DaysOfMonth : FileFits(s, d)

\* The property, of one day of one source.
StaysOrGivesWay(s, d) ==
  dayRow[s][d].fixes # {} =>
    /\ dayRow'[s][d].fixes # {}
    /\ \A f \in dayFile[s][d] :
         \/ f \in dayFile'[s][d]
         \/ \E g \in dayFile'[s][d] : g < f /\ <<g, f>> \in Impossible
AllStayOrGiveWay == \A s \in Sources, d \in DaysOfMonth : StaysOrGivesWay(s, d)

LEMMA EmptyDraft ==
  <<>> \in UNION {[days -> LocationDay] : days \in SUBSET DaysOfMonth} /\ DOMAIN <<>> = {}
  OBVIOUS

LEMMA NoJobType == NoLocationJob \in ImportRecord /\ NoLocationJob.draft = <<>> /\ NoLocationJob.pc = "none"
  BY EmptyDraft DEF NoLocationJob, ImportRecord, Sources

LEMMA TroubleType ==
  ASSUME ImportTypeOK, ImportTrouble
  PROVE  importTally' \in [imports : 0..MaxImports, troubles : 0..MaxImportTroubles]
<1> DEFINE Tally == [imports : 0..MaxImports, troubles : 0..MaxImportTroubles]
<1>1. importTally \in Tally /\ importTally.troubles < MaxImportTroubles
  BY DEF ImportTypeOK, ImportTrouble
<1>2. importTally.troubles + 1 \in 0..MaxImportTroubles
  BY <1>1, LocationImportAssumption, CounterGrows
<1>3. importTally' = [importTally EXCEPT !.troubles = importTally.troubles + 1]
  BY DEF ImportTrouble
<1>4. QED
  BY <1>1, <1>2, <1>3

LEMMA NextDayIsLeft == ASSUME ImportTypeOK, importJob.left # {} PROVE NextDay \in importJob.left
<1>1. importJob.left \subseteq Nat
  BY LocationImportAssumption DEF ImportTypeOK
<1>2. PICK d \in importJob.left : \A e \in importJob.left : ~(e < d)
  BY <1>1, LeastOfNumbers
<1>3. \A e \in importJob.left : d <= e
  BY <1>1, <1>2
<1>4. QED
  BY <1>2, <1>3 DEF NextDay

\* What a file is replaced by.
LEMMA JoinedFits ==
  ASSUME ImportInv, NEW s \in Sources, NEW d \in DaysOfMonth, NEW new \in SUBSET Fixes
  PROVE  /\ Joined(s, d, new) \in SUBSET Fixes /\ Joined(s, d, new) \cap Poor = {}
         /\ dayRow[s][d].fixes # {} =>
              /\ Joined(s, d, new) # {}
              /\ \A f \in dayFile[s][d] :
                   \/ f \in Joined(s, d, new)
                   \/ \E g \in Joined(s, d, new) : g < f /\ <<g, f>> \in Impossible
<1>1. dayFile[s][d] \in SUBSET Fixes /\ FileFits(s, d)
  BY DEF ImportInv, ImportTypeOK
<1>2. \A fixes \in SUBSET Fixes : Cleaned(fixes) \in SUBSET Fixes /\ Cleaned(fixes) \cap Poor = {}
  BY CleanedEquation DEF Rejected
<1>3. dayFile[s][d] \cup new \in SUBSET Fixes
  BY <1>1
<1>4. CASE dayRow[s][d].fixes # {}
  <2>1. Joined(s, d, new) = Cleaned(dayFile[s][d] \cup new)
    BY <1>4 DEF Joined, Merge
  <2>2. ASSUME NEW f \in dayFile[s][d], f \notin Joined(s, d, new)
        PROVE  \E g \in Joined(s, d, new) : g < f /\ <<g, f>> \in Impossible
    BY <1>1, <1>3, <2>1, <2>2, GivesWay DEF FileFits
  <2>3. dayFile[s][d] # {}
    BY <1>1, <1>4 DEF FileFits
  <2>4. QED
    BY <1>2, <1>3, <2>1, <2>2, <2>3
<1>5. CASE dayRow[s][d].fixes = {}
  BY <1>2, <1>5 DEF Joined
<1>6. QED
  BY <1>4, <1>5

\* A step that leaves files and rows alone.
LEMMA NothingWritten ==
  ASSUME ImportInv, ImportTypeOK', UNCHANGED <<dayFile, dayRow>>,
         importJob'.draft = <<>> \/ UNCHANGED <<importJob.draft, importJob.source>>,
         importJob'.pc = "commit" => UNCHANGED importJob
  PROVE  ImportInv' /\ AllStayOrGiveWay
<1>1. DraftFits'
  BY EmptyDraft DEF ImportInv, DraftFits
<1>2. DaysOfHa'
  BY DEF ImportInv, DaysOfHa
<1>3. QED
  BY <1>1, <1>2 DEF ImportInv, FileFits, AllStayOrGiveWay, StaysOrGivesWay

\* The file of one day is replaced.
LEMMA ReplaceKeeps ==
  ASSUME ImportInv, NEW s \in Sources, s = importJob.source, importJob.left # {},
         NEW new \in SUBSET Fixes, ReplaceFile(s, NextDay, Joined(s, NextDay, new))
  PROVE  ImportInv' /\ AllStayOrGiveWay
<1>1. PICK d \in DaysOfMonth : d = NextDay
  BY NextDayIsLeft DEF ImportInv, ImportTypeOK
<1>2. PICK fixes \in SUBSET Fixes : fixes = Joined(s, d, new)
  BY JoinedFits
<1> DEFINE day == [there |-> TRUE, fixes |-> fixes]
           draft == importJob.draft
           longer == [e \in {d} \cup DOMAIN draft |-> IF e = d THEN day ELSE draft[e]]
<1>3. importJob \in ImportRecord
  BY DEF ImportInv, ImportTypeOK, ImportRecord
<1>4. PICK days \in SUBSET DaysOfMonth : draft \in [days -> LocationDay]
  BY <1>3 DEF ImportRecord
<1>5. longer = [e \in {d} \cup days |-> IF e = d THEN day ELSE draft[e]]
  BY <1>4
<1>6. longer \in [{d} \cup days -> LocationDay]
  <2>1. day \in LocationDay
    BY DEF LocationDay
  <2>2. \A e \in days : draft[e] \in LocationDay
    BY <1>4
  <2> HIDE DEF day, draft
  <2>3. QED
    BY <1>5, <2>1, <2>2
<1>7. longer \in UNION {[ds -> LocationDay] : ds \in SUBSET DaysOfMonth}
  BY <1>6
<1>8. /\ dayFile' = [dayFile EXCEPT ![s][d] = fixes]
      /\ importJob' = [importJob EXCEPT !.left = @ \ {d}, !.pc = IF s = "ha" THEN "commit" ELSE @,
                                        !.draft = longer]
      /\ UNCHANGED <<dayRow, outing, zone, importTally>>
  BY <1>1, <1>2 DEF ReplaceFile
<1>9. importJob' \in ImportRecord /\ importJob'.draft = longer /\ importJob'.source = s
  <2> HIDE DEF longer
  <2>1. QED
    BY <1>3, <1>7, <1>8 DEF ImportRecord
<1>10. dayFile' \in [Sources -> [DaysOfMonth -> SUBSET Fixes]]
  BY <1>8 DEF ImportInv, ImportTypeOK
<1>11. \A t \in Sources, e \in DaysOfMonth :
         dayFile'[t][e] = IF t = s /\ e = d THEN fixes ELSE dayFile[t][e]
  BY <1>8 DEF ImportInv, ImportTypeOK
<1>12. ImportTypeOK'
  BY <1>8, <1>9, <1>10 DEF ImportInv, ImportTypeOK, ImportRecord
<1>13. DraftFits'
  <2>1. ASSUME NEW e \in {d} \cup days PROVE longer[e].fixes = dayFile'[s][e]
    BY <1>4, <1>5, <1>11 DEF ImportInv, DraftFits
  <2>2. DOMAIN longer = {d} \cup days
    BY <1>5
  <2> HIDE DEF longer
  <2>3. QED
    BY <1>9, <2>1, <2>2 DEF DraftFits
<1>14. \A t \in Sources, e \in DaysOfMonth : FileFits(t, e)' /\ StaysOrGivesWay(t, e)
  BY <1>2, <1>8, <1>11, JoinedFits DEF ImportInv, FileFits, StaysOrGivesWay
<1>15. importJob'.pc = IF s = "ha" THEN "commit" ELSE importJob.pc
  <2> HIDE DEF longer
  <2>1. QED
    BY <1>3, <1>8 DEF ImportRecord
<1>16. DaysOfHa'
  BY <1>9, <1>15 DEF ImportInv, DaysOfHa
<1>17. QED
  BY <1>12, <1>13, <1>14, <1>16 DEF ImportInv, AllStayOrGiveWay

\* The job's rows are committed.
LEMMA RowsKeep ==
  ASSUME ImportInv, NEW s \in Sources, s = importJob.source, UNCHANGED dayFile,
         dayRow' = [dayRow EXCEPT ![s] = RowsSeen(s)],
         importJob' \in ImportRecord, importJob'.draft = <<>>, importJob'.pc # "commit",
         outing' \in [Sources -> SUBSET SUBSET Fixes], UNCHANGED <<zone, importTally>>
  PROVE  ImportInv' /\ AllStayOrGiveWay
<1>1. PICK days \in SUBSET DaysOfMonth : importJob.draft \in [days -> LocationDay]
  BY DEF ImportInv, ImportTypeOK
<1>2. \A d \in DaysOfMonth : RowsSeen(s)[d] \in LocationDay
  BY <1>1 DEF RowsSeen, ImportInv, ImportTypeOK
<1>3. RowsSeen(s) \in [DaysOfMonth -> LocationDay]
  BY <1>2 DEF RowsSeen
<1>4. dayRow' \in [Sources -> [DaysOfMonth -> LocationDay]]
  BY <1>3 DEF ImportInv, ImportTypeOK
<1>5. \A t \in Sources, d \in DaysOfMonth :
        dayRow'[t][d].fixes \in {dayRow[t][d].fixes, dayFile[t][d]}
  BY <1>1 DEF RowsSeen, ImportInv, ImportTypeOK, DraftFits
<1>6. \A t \in Sources, d \in DaysOfMonth : FileFits(t, d)' /\ StaysOrGivesWay(t, d)
  BY <1>5 DEF ImportInv, FileFits, StaysOrGivesWay
<1>7. DraftFits'
  BY EmptyDraft DEF DraftFits
<1>8. ImportTypeOK'
  BY <1>4 DEF ImportInv, ImportTypeOK, ImportRecord
<1>9. QED
  BY <1>6, <1>7, <1>8 DEF ImportInv, DaysOfHa, AllStayOrGiveWay

LEMMA ImportTypeInit == ImportInit => ImportInv
<1> SUFFICES ASSUME ImportInit PROVE ImportInv
  OBVIOUS
<1>1. importJob \in ImportRecord /\ importJob.draft = <<>> /\ importJob.pc = "none"
  BY NoJobType DEF ImportInit
<1>2. dayRow \in [Sources -> [DaysOfMonth -> LocationDay]]
      /\ \A s \in Sources, d \in DaysOfMonth : dayRow[s][d].fixes = {}
  BY DEF ImportInit, NoDay, LocationDay
<1>3. importTally \in [imports : 0..MaxImports, troubles : 0..MaxImportTroubles]
  BY LocationImportAssumption DEF ImportInit
<1>4. ImportTypeOK
  BY <1>1, <1>2, <1>3 DEF ImportInit, ImportTypeOK, ImportRecord
<1>5. QED
  BY <1>1, <1>2, <1>4, EmptyDraft DEF ImportInit, ImportInv, DraftFits, DaysOfHa, FileFits

LEMMA ImportInvStep == ImportInv /\ [ImportNext]_importVars => ImportInv' /\ AllStayOrGiveWay
<1> SUFFICES ASSUME ImportInv, [ImportNext]_importVars PROVE ImportInv' /\ AllStayOrGiveWay
  OBVIOUS
<1>t. importJob \in ImportRecord /\ ImportTypeOK
  BY DEF ImportInv, ImportTypeOK, ImportRecord
<1>1. ASSUME NEW s \in Sources, NEW export \in SUBSET Fixes, AskLocations(s, export)
      PROVE  ImportInv' /\ AllStayOrGiveWay
  <2>1. importTally' \in [imports : 0..MaxImports, troubles : 0..MaxImportTroubles]
    <3> DEFINE Tally == [imports : 0..MaxImports, troubles : 0..MaxImportTroubles]
    <3>1. importTally \in Tally /\ importTally.imports < MaxImports
      BY <1>1, <1>t DEF ImportTypeOK, AskLocations
    <3>2. importTally.imports + 1 \in 0..MaxImports
      BY <3>1, LocationImportAssumption, CounterGrows
    <3>3. importTally' = [importTally EXCEPT !.imports = importTally.imports + 1]
      BY <1>1 DEF AskLocations
    <3>4. QED
      BY <3>1, <3>2, <3>3
  <2>2. importJob' \in ImportRecord /\ importJob'.draft = <<>> /\ importJob'.pc = "queued"
    BY <1>1, NoJobType DEF AskLocations, ImportRecord
  <2>3. ImportTypeOK'
    BY <1>1, <1>t, <2>1, <2>2 DEF AskLocations, ImportTypeOK, ImportRecord
  <2>4. QED
    BY <1>1, <2>2, <2>3, NothingWritten DEF AskLocations
<1>2. ASSUME HaBegins PROVE ImportInv' /\ AllStayOrGiveWay
  <2>1. importJob' \in ImportRecord /\ UNCHANGED <<importJob.draft, importJob.source>>
        /\ importJob'.pc = "days"
    BY <1>2, <1>t DEF HaBegins, ImportRecord
  <2>2. ImportTypeOK'
    BY <1>2, <1>t, <2>1 DEF HaBegins, ImportTypeOK, ImportRecord
  <2>3. QED
    BY <1>2, <2>1, <2>2, NothingWritten DEF HaBegins
<1>3. ASSUME FileBegins PROVE ImportInv' /\ AllStayOrGiveWay
  <2>1. Cleaned(importJob.export) \in SUBSET Fixes
    BY <1>t, CleanedEquation DEF ImportRecord
  <2>2. {DayOf[f] : f \in Cleaned(importJob.export)} \in SUBSET DaysOfMonth
    BY <2>1, LocationImportAssumption
  <2>3. importJob' \in ImportRecord
        /\ (importJob'.draft = <<>> \/ UNCHANGED <<importJob.draft, importJob.source>>)
        /\ importJob'.pc # "commit"
    BY <1>3, <1>t, <2>1, <2>2, NoJobType DEF FileBegins, ImportRecord
  <2>4. ImportTypeOK'
    BY <1>3, <1>t, <2>3 DEF FileBegins, ImportTypeOK, ImportRecord
  <2>5. QED
    BY <1>3, <2>3, <2>4, NothingWritten DEF FileBegins
<1>4. ASSUME NEW answer \in SUBSET Fixes, ImportHaDay(answer) PROVE ImportInv' /\ AllStayOrGiveWay
  <2> DEFINE clean == Cleaned(FixesOf(NextDay, answer))
  <2>1. clean \in SUBSET Fixes
    BY CleanedEquation DEF FixesOf
  <2>2. CASE ReplaceFile("ha", NextDay, Joined("ha", NextDay, clean))
    BY <1>4, <2>1, <2>2, ReplaceKeeps DEF ImportHaDay, Sources
  <2>3. CASE /\ importJob' = [importJob EXCEPT !.left = @ \ {NextDay}]
             /\ UNCHANGED <<dayFile, dayRow, outing, zone, importTally>>
    <3>1. importJob' \in ImportRecord /\ UNCHANGED <<importJob.draft, importJob.source, importJob.pc>>
      BY <2>3, <1>t DEF ImportRecord
    <3>4. importJob.pc = "days"
      BY <1>4 DEF ImportHaDay
    <3>2. ImportTypeOK'
      BY <2>3, <1>t, <3>1 DEF ImportTypeOK, ImportRecord
    <3>3. QED
      BY <2>3, <3>1, <3>2, <3>4, NothingWritten
  <2>4. QED
    BY <1>4, <2>2, <2>3 DEF ImportHaDay
<1>5. ASSUME CommitDay PROVE ImportInv' /\ AllStayOrGiveWay
  <2>1. importJob.source = "ha"
    BY <1>5 DEF CommitDay, ImportInv, DaysOfHa
  <2>2. importJob' \in ImportRecord /\ importJob'.draft = <<>> /\ importJob'.pc = "days"
    BY <1>5, <1>t, EmptyDraft DEF CommitDay, ImportRecord
  <2>3. outing' \in [Sources -> SUBSET SUBSET Fixes]
    BY <1>5, <1>t DEF CommitDay, ImportTypeOK
  <2>4. QED
    BY <1>5, <2>1, <2>2, <2>3, RowsKeep DEF CommitDay, Sources
<1>6. ASSUME ImportFileDay PROVE ImportInv' /\ AllStayOrGiveWay
  <2>1. FixesOf(NextDay, importJob.export) \in SUBSET Fixes
    BY <1>t DEF FixesOf, ImportRecord
  <2>2. QED
    BY <1>6, <2>1, ReplaceKeeps DEF ImportFileDay, Sources
<1>7. ASSUME RebuildOutings PROVE ImportInv' /\ AllStayOrGiveWay
  <2>1. PICK s \in Sources : s = importJob.source
    BY <1>t DEF ImportRecord
  <2>2. importJob' \in ImportRecord /\ importJob'.draft = <<>> /\ importJob'.pc = "none"
    BY <1>7, NoJobType DEF RebuildOutings
  <2>3. CASE zone
    <3> DEFINE all == UNION {dayFile[s][d] : d \in {e \in DaysOfMonth : RowsSeen(s)[e].fixes # {}}}
    <3>1. all \in SUBSET Fixes
      BY <1>t DEF ImportTypeOK
    <3>2. Outings(Cleaned(all)) \in SUBSET SUBSET Fixes
      BY <3>1, CleanedEquation, OutingsType
    <3>3. outing' = [outing EXCEPT ![s] = Outings(Cleaned(all))]
          /\ dayRow' = [dayRow EXCEPT ![s] = RowsSeen(s)] /\ UNCHANGED <<dayFile, zone, importTally>>
      BY <1>7, <2>1, <2>3 DEF RebuildOutings
    <3>4. outing' \in [Sources -> SUBSET SUBSET Fixes]
      BY <1>t, <3>2, <3>3 DEF ImportTypeOK
    <3>5. QED
      BY <2>1, <2>2, <3>3, <3>4, RowsKeep
  <2>4. CASE ~zone
    <3>1. ImportTypeOK'
      BY <1>7, <1>t, <2>2, <2>4 DEF RebuildOutings, ImportTypeOK, ImportRecord
    <3>2. QED
      BY <1>7, <2>2, <2>4, <3>1, NothingWritten DEF RebuildOutings
  <2>5. QED
    BY <2>3, <2>4
<1>8. ASSUME ImportFails \/ ImportRestart PROVE ImportInv' /\ AllStayOrGiveWay
  <2>1. importTally' \in [imports : 0..MaxImports, troubles : 0..MaxImportTroubles]
    BY <1>8, <1>t, TroubleType DEF ImportFails, ImportRestart
  <2>2. importJob' \in ImportRecord /\ importJob'.draft = <<>> /\ importJob'.pc # "commit"
    BY <1>8, <1>t, NoJobType DEF ImportFails, ImportRestart, ImportRecord
  <2>3. ImportTypeOK'
    BY <1>8, <1>t, <2>1, <2>2 DEF ImportFails, ImportRestart, ImportTypeOK, ImportRecord
  <2>4. QED
    BY <1>8, <2>2, <2>3, NothingWritten DEF ImportFails, ImportRestart
<1>9. CASE UNCHANGED importVars
  <2>1. ImportTypeOK'
    BY <1>9, <1>t DEF importVars, ImportTypeOK
  <2>2. QED
    BY <1>9, <2>1, NothingWritten DEF importVars
<1>10. QED
  BY <1>1, <1>2, <1>3, <1>4, <1>5, <1>6, <1>7, <1>8, <1>9 DEF ImportNext, Sources

LEMMA ImportInvHolds == ImportSpec => []ImportInv
<1>1. ImportInv /\ [ImportNext]_importVars => ImportInv'
  BY ImportInvStep
<1>2. QED
  BY <1>1, ImportTypeInit, PTL DEF ImportSpec

\* roadtrips.py: files, rows, outings and the import under way keep their types.
THEOREM ImportTypes == ImportSpec => []ImportTypeOK
<1>1. ImportInv => ImportTypeOK
  BY DEF ImportInv
<1>2. QED
  BY <1>1, ImportInvHolds, PTL

\* roadtrips.py: for any positions and exports, and however often an import fails or starts over,
\* no import takes a fix out of the file of a day that counts fixes, unless it puts there an
\* earlier one from which that fix could not have been reached.
THEOREM ImportsLoseNoGps == ImportSpec => ImportsKeepGps
<1>1. ImportInv /\ [ImportNext]_importVars => [AllStayOrGiveWay]_importVars
  BY ImportInvStep
<1>2. QED
  BY <1>1, ImportInvHolds, PTL DEF ImportSpec, ImportsKeepGps, AllStayOrGiveWay, StaysOrGivesWay

=============================================================================
