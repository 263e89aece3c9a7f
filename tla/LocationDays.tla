---------------------------- MODULE LocationDays ----------------------------
(***************************************************************************)
(* What app/roadtrips.py makes of location fixes: which ones it keeps      *)
(* (clean_points), how a new answer joins a saved day (merge_day) and      *)
(* which outings it reads from them (extract_outings).  A fix is a number, *)
(* in the order of time, at least a minute and at most max_gap_s after the *)
(* one before.                                                             *)
(***************************************************************************)
EXTENDS Naturals, FiniteSets

CONSTANTS
  Fixes,       \* the instants at which a position was recorded
  Poor,        \* those without a readable or an accurate position
  AtHome,      \* those inside the home zone
  Impossible   \* pairs too far apart for the time between them

ASSUME LocationDaysAssumption ==
  /\ Fixes \subseteq Nat /\ IsFiniteSet(Fixes)
  /\ Poor \subseteq Fixes /\ AtHome \subseteq Fixes /\ Impossible \subseteq Fixes \X Fixes

LatestFix(fixes) == CHOOSE f \in fixes : \A g \in fixes : g <= f

Usable(fixes) == fixes \ Poor

\* From the first fix on: one that could not be reached from the last one kept is dropped.
Cleaned(fixes) ==
  LET kept[f \in Fixes] ==
        /\ f \in Usable(fixes)
        /\ LET before == {g \in fixes : g < f /\ kept[g]}
           IN before = {} \/ <<LatestFix(before), f>> \notin Impossible
  IN {f \in fixes : kept[f]}

\* "New observations replace the same instant"
Merge(saved, new) == Cleaned(saved \cup new)

\* The fixes away from home between two at home, with those two where they are known.
Outings(fixes) ==
  LET away(f) == {g \in fixes \ AtHome :
                    \A h \in fixes \cap AtHome : ~(f < h /\ h < g) /\ ~(g < h /\ h < f)}
      left(run) == {h \in fixes \cap AtHome : \E g \in run : h < g /\ \A i \in fixes : ~(h < i /\ i < g)}
      back(run) == {h \in fixes \cap AtHome : \E g \in run : g < h /\ \A i \in fixes : ~(g < i /\ i < h)}
      outing(f) == left(away(f)) \cup away(f) \cup back(away(f))
  IN {o \in {outing(f) : f \in fixes \ AtHome} : Cardinality(o) >= 2}
=============================================================================
