----------------------------- MODULE HaRefresh -----------------------------
(***************************************************************************)
(* Refreshing the location days that camera footage needs from Home        *)
(* Assistant (app/auto_ride_ha.py).  Each day is fetched, merged with what *)
(* is saved and committed on its own; the journeys of a month are rebuilt  *)
(* at the end, so a stop between the two must be remembered.               *)
(***************************************************************************)
EXTENDS LocationDays, Sequences

CONSTANTS
  Days,         \* consecutive local days
  MonthOf,      \* the month of each
  MaxDays,      \* days checked by one call
  MaxFixes,     \* bound: fixes recorded
  MaxLapses,    \* bound: passings of the half hour
  MaxHaTroubles   \* bound: outages, purges, cancelled jobs and restarts

ASSUME HaRefreshAssumption ==
  /\ Days \subseteq Nat /\ IsFiniteSet(Days) /\ DOMAIN MonthOf = Days
  /\ 1..MaxFixes \subseteq Fixes /\ MaxDays \in 1..7 /\ MaxFixes \in Nat
  /\ MaxLapses \in Nat /\ MaxHaTroubles \in Nat

Months == {MonthOf[d] : d \in Days}

VARIABLES
  recorded,  \* what Home Assistant's history holds of each day
  today,
  relevant,  \* days with eligible clips
  saved,     \* the LocationDay rows with their files on the NAS
  checks,    \* the AutoRideHARefresh rows
  due,       \* days whose check is older than half an hour or than their latest clip
  journeys,  \* the RoadtripOuting rows of each month
  home,      \* the home zone is known
  task,      \* where refresh_ha_days stands
  strain     \* fixes, lapses and troubles so far

store  == <<saved, checks, due, journeys, home>>
world  == <<recorded, today, relevant>>
haVars == <<recorded, today, relevant, saved, checks, due, journeys, home, task, strain>>

Results == {"none", "rebuild_pending", "updated", "unchanged", "preserved", "empty"}
NoTask == [pc |-> "idle", wanted |-> <<>>, changed |-> {}, answer |-> {}]

HaTypeOK ==
  /\ recorded \in [Days -> SUBSET Fixes] /\ today \in Days /\ relevant \subseteq Days
  /\ saved \in [Days -> [row : BOOLEAN, fixes : SUBSET Fixes]]
  /\ checks \in [Days -> Results] /\ due \subseteq Days
  /\ journeys \in [Months -> SUBSET SUBSET Fixes] /\ home \in BOOLEAN
  /\ task \in [pc : {"idle", "home", "days", "answered"}, wanted : Seq(Days),
               changed : SUBSET Months, answer : SUBSET Fixes]
  /\ strain \in [fixes : 0..MaxFixes, lapses : 0..MaxLapses, troubles : 0..MaxHaTroubles]

HaInit ==
  /\ recorded = [d \in Days |-> {}] /\ today \in Days /\ relevant = {}
  /\ saved = [d \in Days |-> [row |-> FALSE, fixes |-> {}]]
  /\ checks = [d \in Days |-> "none"] /\ due = Days
  /\ journeys = [m \in Months |-> {}] /\ home = FALSE
  /\ task = NoTask /\ strain = [fixes |-> 0, lapses |-> 0, troubles |-> 0]

Strained == strain.troubles < MaxHaTroubles /\ strain' = [strain EXCEPT !.troubles = @ + 1]

-----------------------------------------------------------------------------
(* _plan *)

\* "populated and known-empty historical days are stable"
Stable(d) == saved[d].row /\ d + 1 < today
Primary == {d \in relevant : ~Stable(d) /\ (~saved[d].row \/ d \in due)}
Neighbours == {d \in Days : d <= today /\ ~saved[d].row /\ \E e \in relevant : d + 1 = e \/ d = e + 1}
Wanted == Primary \cup Neighbours

\* Days with clips first, the newest of them first.
Sooner(d, e) == \/ d \in relevant /\ e \notin relevant
                \/ (d \in relevant <=> e \in relevant) /\ d > e
IsOrder(days) ==
  /\ \A i, k \in DOMAIN days : i < k => Sooner(days[i], days[k])
  /\ \A d \in Wanted \ {days[i] : i \in DOMAIN days} :
       Len(days) = MaxDays /\ \A i \in DOMAIN days : Sooner(days[i], d)
Selections == {days \in UNION {[1..n -> Wanted] : n \in 0..MaxDays} : IsOrder(days)}

\* rebuild_outings: the outings in all saved days of a month.
JourneysOf(m) == Outings(Cleaned(UNION {saved[d].fixes : d \in {e \in Days : MonthOf[e] = m}}))

Pending == {d \in Days : checks[d] = "rebuild_pending"}
Remembered == {MonthOf[d] : d \in Pending}

-----------------------------------------------------------------------------
(* refresh_ha_days *)

Plan ==
  /\ task.pc = "idle" /\ Wanted \cup Pending # {}
  /\ \E days \in Selections :
       task' = [pc |-> IF home THEN "days" ELSE "home", wanted |-> days,
                changed |-> Remembered, answer |-> {}]
  /\ UNCHANGED <<world, store, strain>>

FetchHome ==
  /\ task.pc = "home"
  /\ home' = TRUE /\ task' = [task EXCEPT !.pc = "days"]
  /\ UNCHANGED <<world, saved, checks, due, journeys, strain>>

FetchDay ==
  /\ task.pc = "days" /\ task.wanted # <<>>
  /\ task' = [task EXCEPT !.pc = "answered", !.answer = Cleaned(recorded[Head(task.wanted)])]
  /\ UNCHANGED <<world, store, strain>>

\* The day fails, "existing GPS was preserved": Home Assistant or the NAS does not answer.
DayFails ==
  /\ task.pc \in {"days", "answered"} /\ task.wanted # <<>> /\ Strained
  /\ task' = [task EXCEPT !.pc = "days", !.wanted = Tail(@), !.answer = {}]
  /\ UNCHANGED <<world, store>>

Merged_Answer(d) == task.answer
Merged(d) == Merge(saved[d].fixes, task.answer)

Checked_Full(d) == IF task.answer # {} THEN {d} ELSE {}
Checked(d) == {d}

Result(d) ==
  CASE task.answer # {} /\ Merged(d) # saved[d].fixes -> "rebuild_pending"
    [] task.answer # {} /\ Merged(d) = saved[d].fixes -> "unchanged"
    [] task.answer = {} /\ saved[d].fixes # {} -> "preserved"
    [] OTHER -> "empty"

SaveDay ==
  LET d == Head(task.wanted) IN
  /\ task.pc = "answered"
  /\ saved' = IF Result(d) \in {"rebuild_pending", "empty"}
              THEN [saved EXCEPT ![d] = [row |-> TRUE, fixes |-> Merged(d)]] ELSE saved
  /\ checks' = [checks EXCEPT ![d] = Result(d)] /\ due' = due \ Checked(d)
  /\ task' = [task EXCEPT !.pc = "days", !.wanted = Tail(@), !.answer = {},
                !.changed = IF Result(d) = "rebuild_pending" THEN @ \cup {MonthOf[d]} ELSE @]
  /\ UNCHANGED <<world, journeys, home, strain>>

\* Reads the saved days of the month again and marks its pending days "updated".
Rebuild(m) ==
  /\ task.pc = "days" /\ task.wanted = <<>> /\ m \in task.changed
  /\ journeys' = [journeys EXCEPT ![m] = JourneysOf(m)]
  /\ checks' = [d \in Days |-> IF MonthOf[d] = m /\ d \in Pending THEN "updated" ELSE checks[d]]
  /\ task' = [task EXCEPT !.changed = @ \ {m}]
  /\ UNCHANGED <<world, saved, due, home, strain>>

\* "GPS was saved, but journey rebuilding needs another refresh."
RebuildFails(m) ==
  /\ task.pc = "days" /\ task.wanted = <<>> /\ m \in task.changed /\ Strained
  /\ task' = [task EXCEPT !.changed = @ \ {m}]
  /\ UNCHANGED <<world, store>>

Report ==
  /\ task.pc = "days" /\ task.wanted = <<>> /\ task.changed = {}
  /\ task' = NoTask
  /\ UNCHANGED <<world, store, strain>>

\* The NAS or the home zone is unavailable, the job is cancelled, or the service stops.
Stop ==
  /\ task.pc # "idle" /\ Strained
  /\ task' = NoTask
  /\ UNCHANGED <<world, store>>

-----------------------------------------------------------------------------
(* The world *)

RecordFix ==
  /\ strain.fixes < MaxFixes /\ strain' = [strain EXCEPT !.fixes = @ + 1]
  /\ recorded' = [recorded EXCEPT ![today] = @ \cup {strain.fixes + 1}]
  /\ UNCHANGED <<today, relevant, store, task>>

\* Home Assistant keeps its history for some days only.
Purge(d) ==
  /\ recorded[d] # {} /\ Strained
  /\ recorded' = [recorded EXCEPT ![d] = {}]
  /\ UNCHANGED <<today, relevant, store, task>>

ClipArrives(d) ==
  /\ d <= today /\ d \notin relevant
  /\ relevant' = relevant \cup {d} /\ due' = due \cup {d}
  /\ UNCHANGED <<recorded, today, saved, checks, journeys, home, task, strain>>

HalfHour ==
  /\ strain.lapses < MaxLapses /\ strain' = [strain EXCEPT !.lapses = @ + 1]
  /\ due' = Days
  /\ UNCHANGED <<world, saved, checks, journeys, home, task>>

Midnight ==
  /\ today + 1 \in Days /\ today' = today + 1
  /\ UNCHANGED <<recorded, relevant, store, task, strain>>

RefreshStep == \/ Plan \/ FetchHome \/ FetchDay \/ SaveDay \/ Report
               \/ \E m \in Months : Rebuild(m)

HaNext ==
  \/ RefreshStep \/ DayFails \/ Stop \/ HalfHour \/ Midnight \/ RecordFix
  \/ \E m \in Months : RebuildFails(m)
  \/ \E d \in Days : Purge(d) \/ ClipArrives(d)

\* The monitor asks for another discovery as long as days are wanted or pending.
HaFairness == WF_haVars(RefreshStep)

HaSpec == HaInit /\ [][HaNext]_haVars /\ HaFairness

-----------------------------------------------------------------------------
(* Properties *)

\* Saved fixes are never lost: an empty, shorter or purged answer is merged into what the NAS
\* has (merged and "preserved" in refresh_ha_days), and what Home Assistant adds to a day is later
\* than what it had answered before, so cleaning drops none of the saved ones.
GpsNeverLost == [][\A d \in Days : saved[d].fixes \subseteq saved'[d].fixes]_haVars

\* Every day that footage needs is checked in the end, whatever days fail and whichever are
\* asked for first: an empty answer is a check, too, so it does not hold up the others.
NeededDaysAreChecked == \A d \in Days : d \in Wanted ~> d \notin Wanted

\* "GPS was saved, but journey rebuilding needs another refresh": as long as the outings of a
\* month are not those of its saved days, a row remembers it.  The code forgets it when the day
\* is fetched again, unchanged, before the rebuilding that fails a second time.
StaleIsRemembered ==
  task.pc = "idle" =>
    \A m \in Months : journeys[m] # JourneysOf(m) => \E e \in Pending : MonthOf[e] = m
=============================================================================
