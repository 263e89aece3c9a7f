----------------------------- MODULE DateReview -----------------------------
(***************************************************************************)
(* The review of camera dates (app/date_review.py): the scan that observes *)
(* the recordings of a card and trusts or holds their dates, the user's    *)
(* decisions meanwhile, and the dates it suggests for the others.  The     *)
(* recordings of a card are ordered by the folder and counter in their     *)
(* names; times are days, and a recording is short.                        *)
(***************************************************************************)
EXTENDS Integers, FiniteSets

CONSTANTS
  Counters,       \* the names of the recordings of a card, in their order
  Headers,        \* what a movie header can say: a day, or with FALSE only the file's own time
  Today,          \* the day of the connection
  Rounds,         \* in which the camera counts; it starts again when it is reset
  Askers,         \* the device monitor and the routes
  MaxCardChanges, \* bound: recordings made and erased
  MaxDecisions,   \* bound: corrections asked for
  MaxAsked        \* bound: scans asked for

ASSUME DateReviewAssumption ==
  /\ Counters \subseteq Nat /\ IsFiniteSet(Counters) /\ Today \in Nat
  /\ Headers \subseteq [at : Nat, meta : BOOLEAN]
  /\ Rounds \subseteq Nat /\ IsFiniteSet(Rounds)
  /\ MaxCardChanges \in Nat /\ MaxDecisions \in Nat /\ MaxAsked \in Nat

VARIABLES
  onCard,     \* the recordings on the card
  header,     \* per recording: was it made, its time, has it movie metadata
  date,       \* the RecordingDate rows
  observed,   \* the recordings of the last check
  scan,       \* the date_scan job that runs
  scanJobs,   \* active date_scan jobs
  caller,     \* those in queue_check that found no active job and hold lock
  dateTally   \* changes of the card, decisions and scans so far

reviewVars == <<onCard, header, date, observed, scan, scanJobs, caller, dateTally>>

Takes == Counters \X Rounds
Counter(r) == r[1]
Approved == {"trusted", "confirmed"}
NoDate  == [st |-> "none", at |-> Today, meta |-> FALSE, to |-> Today, moved |-> FALSE, reuse |-> FALSE]
NoScan  == [pc |-> "idle", before |-> {}, old |-> {}, rows |-> <<>>]

Known  == {r \in Takes : date[r].st # "none"}

ReviewTypeOK ==
  /\ onCard \subseteq Takes /\ header \in [Takes -> [made : BOOLEAN, at : Nat, meta : BOOLEAN]]
  /\ date \in [Takes -> [st : {"none", "review", "trusted", "applying", "confirmed"}, at : Nat,
                        meta : BOOLEAN, to : Int, moved : BOOLEAN, reuse : BOOLEAN]]
  /\ observed \subseteq Known /\ scanJobs \in 0..2 /\ caller \subseteq Askers
  /\ scan.pc \in {"idle", "reading"} /\ scan.before \subseteq Takes /\ scan.old \subseteq Known
  /\ dateTally \in [changes : 0..MaxCardChanges, decisions : 0..MaxDecisions, scans : 0..MaxAsked]

ReviewInit ==
  /\ onCard = {} /\ header = [r \in Takes |-> [made |-> FALSE, at |-> Today, meta |-> FALSE]]
  /\ date = [r \in Takes |-> NoDate] /\ observed = {}
  /\ scan = NoScan /\ scanJobs = 0 /\ caller = {}
  /\ dateTally = [changes |-> 0, decisions |-> 0, scans |-> 0]

-----------------------------------------------------------------------------
(* analyse: rows are the dates of the recordings on the card, new those     *)
(* that this scan observes first, prior the observations before it.         *)

Follows(r, q, recs) == /\ Counter(q) < Counter(r)
                       /\ \A p \in recs : ~(Counter(q) < Counter(p) /\ Counter(p) < Counter(r))
FirstTake(recs)  == CHOOSE r \in recs : \A q \in recs : Counter(r) <= Counter(q)
LastTake(recs) == CHOOSE r \in recs : \A q \in recs : Counter(q) <= Counter(r)

\* "A higher media-folder / DVR number has an earlier camera timestamp"
Reset(r, q, rows) == Follows(r, q, DOMAIN rows) /\ rows[r].at < rows[q].at
Regressed(r, rows) == \E q \in DOMAIN rows : Reset(r, q, rows) \/ Reset(q, r, rows)

\* "New or replaced recording uses an earlier/reused folder and DVR counter"
Reused(r, new, prior) == r \in new /\ \E p \in prior : Counter(r) <= Counter(p)

NearToday(day) == day <= Today /\ Today <= day + 1

\* A confirmed offset is carried forward, "but only across increasing counters, increasing
\* camera times and a plausible latest ride-end day".
Offset(row) == IF row.moved THEN row.to - row.at ELSE 0
Calibrated(rows) == {r \in DOMAIN rows : rows[r].st = "confirmed" /\ rows[r].reuse /\ rows[r].moved}
Carries(rows, new, prior) ==
  /\ Calibrated(rows) # {} /\ new # {}
  /\ LET anchor == LastTake(Calibrated(rows)) IN
     /\ \A r \in new : Counter(anchor) < Counter(r) /\ rows[anchor].at <= rows[r].at
     /\ NearToday(rows[LastTake(DOMAIN rows)].at + Offset(rows[anchor]))
  /\ \A r \in new : ~Regressed(r, rows) /\ ~Reused(r, new, prior)
Carried(r, rows) == rows[r].at + Offset(rows[LastTake(Calibrated(rows))])

Doubtful(r, rows, new, prior) ==
  \/ ~rows[r].meta
  \/ rows[r].at > Today
  \/ Reused(r, new, prior)
  \/ Regressed(r, rows)
  \/ r \in new /\ (~NearToday(rows[LastTake(DOMAIN rows)].at) \/ rows[r].at + 1 < Today)

\* "Never silently clear a prior warning"
Warned(r, rows, new) == r \notin new /\ rows[r].st = "review"

Analysed(r, rows, new, prior) ==
  CASE rows[r].st \in {"confirmed", "applying"} -> rows[r]
    [] r \in new /\ rows[r].meta /\ Carries(rows, new, prior) ->
         [rows[r] EXCEPT !.st = "trusted", !.to = Carried(r, rows), !.moved = TRUE, !.reuse = TRUE]
    [] OTHER -> [rows[r] EXCEPT !.st =
         IF Warned(r, rows, new) \/ Doubtful(r, rows, new, prior) THEN "review" ELSE "trusted"]

-----------------------------------------------------------------------------
(* queue_check *)

ReviewLockFree_Ignored == TRUE
ReviewLockFree == caller = {}

FindNoScan(c) ==
  /\ ReviewLockFree /\ scanJobs = 0 /\ dateTally.scans < MaxAsked
  /\ caller' = caller \cup {c} /\ dateTally' = [dateTally EXCEPT !.scans = @ + 1]
  /\ UNCHANGED <<onCard, header, date, observed, scan, scanJobs>>

EnqueueScan(c) ==
  /\ c \in caller
  /\ scanJobs' = scanJobs + 1 /\ caller' = caller \ {c}
  /\ UNCHANGED <<onCard, header, date, observed, scan, dateTally>>

-----------------------------------------------------------------------------
(* scan_job *)

ScanReads ==
  /\ scanJobs > 0 /\ scan.pc = "idle"
  /\ scan' = [pc |-> "reading", before |-> onCard, old |-> Known, rows |-> date]
  /\ UNCHANGED <<onCard, header, date, observed, scanJobs, caller, dateTally>>

Reread_Kept(r) == scan.rows[r]
\* "Re-read old observations: a confirmation may have committed while headers were being read."
Reread(r) == date[r]

\* One transaction, which writes its new rows before it reads the others.
ScanCommits ==
  LET new  == scan.before \ scan.old
      rows == [r \in scan.before |->
                 IF r \in new THEN [NoDate EXCEPT !.st = "review", !.at = header[r].at,
                                                  !.meta = header[r].meta, !.to = header[r].at]
                 ELSE Reread(r)]
  IN /\ scan.pc = "reading" /\ onCard = scan.before
     /\ date' = [r \in Takes |-> IF r \in scan.before THEN Analysed(r, rows, new, scan.old) ELSE date[r]]
     /\ observed' = scan.before
     /\ scan' = NoScan /\ scanJobs' = scanJobs - 1
     /\ UNCHANGED <<onCard, header, caller, dateTally>>

\* "Camera files changed during the date check", the card is gone, or the job is cancelled.
ScanFails ==
  /\ scan.pc = "reading"
  /\ scan' = NoScan /\ scanJobs' = scanJobs - 1
  /\ UNCHANGED <<onCard, header, date, observed, caller, dateTally>>

-----------------------------------------------------------------------------
(* The user's decisions, which DateCorrection has in detail *)

HoldDate(r) ==
  /\ date[r].st \notin {"none", "applying"} /\ dateTally.decisions < MaxDecisions
  /\ date' = [date EXCEPT ![r].st = "applying"]
  /\ dateTally' = [dateTally EXCEPT !.decisions = @ + 1]
  /\ UNCHANGED <<onCard, header, observed, scan, scanJobs, caller>>

ConfirmDate(r, day, reuse) ==
  /\ date[r].st = "applying"
  /\ date' = [date EXCEPT ![r] = [@ EXCEPT !.st = "confirmed", !.to = day, !.moved = TRUE, !.reuse = reuse]]
  /\ UNCHANGED <<onCard, header, observed, scan, scanJobs, caller, dateTally>>

(* The camera *)

ChangeCard == /\ dateTally.changes < MaxCardChanges
              /\ dateTally' = [dateTally EXCEPT !.changes = @ + 1]

\* A recording; its name may be that of one of an earlier round, which it replaces.
RecordTake(r, h) ==
  /\ \A q \in Takes : header[q].made => q[2] < r[2] \/ (q[2] = r[2] /\ Counter(q) < Counter(r))
  /\ ChangeCard
  /\ onCard' = {q \in onCard : Counter(q) # Counter(r)} \cup {r}
  /\ header' = [header EXCEPT ![r] = [made |-> TRUE, at |-> h.at, meta |-> h.meta]]
  /\ UNCHANGED <<date, observed, scan, scanJobs, caller>>

Erase(r) ==
  /\ r \in onCard /\ ChangeCard
  /\ onCard' = onCard \ {r}
  /\ UNCHANGED <<header, date, observed, scan, scanJobs, caller>>

ReviewNext ==
  \/ \E c \in Askers : FindNoScan(c) \/ EnqueueScan(c)
  \/ ScanReads \/ ScanCommits \/ ScanFails
  \/ \E r \in Takes : HoldDate(r) \/ Erase(r)
  \/ \E r \in Takes, day \in {Today - 1, Today}, reuse \in BOOLEAN : ConfirmDate(r, day, reuse)
  \/ \E r \in Takes, h \in Headers : RecordTake(r, h)

ReviewSpec == ReviewInit /\ [][ReviewNext]_reviewVars

-----------------------------------------------------------------------------
(* date_suggestions, for the recordings of the last check *)

Effective(r)  == IF date[r].moved THEN date[r].to ELSE date[r].at
Plausible(day) == day <= Today
Anchor(r)     == r \in observed /\ date[r].st \in Approved /\ Plausible(Effective(r))
Undecided(r)       == r \in observed /\ date[r].st = "review"

Between(q, r, p) == Counter(q) < Counter(r) /\ Counter(r) < Counter(p)
BackBetween(q, p) == \E a, b \in observed : /\ Counter(q) <= Counter(a) /\ Counter(b) <= Counter(p)
                                            /\ Follows(b, a, observed) /\ date[b].at < date[a].at

\* Consecutive names between two approved recordings of one day, in the wrong order: that day.
Bounded(r, q, p) ==
  /\ Anchor(q) /\ Anchor(p) /\ Between(q, r, p)
  /\ ~\E a \in observed : Anchor(a) /\ Between(q, a, p)
  /\ \A c \in Counter(q)..Counter(p) : \E a \in observed : Counter(a) = c
  /\ Effective(q) = Effective(p) /\ BackBetween(q, p)

\* "Clock resets split calibration runs so offsets cannot leak across them."
OneRun_Whole(q, r) == TRUE
OneRun(q, r) == IF Counter(q) <= Counter(r) THEN ~BackBetween(q, r) ELSE ~BackBetween(r, q)

RunAnchors(r) == {q \in observed : Anchor(q) /\ date[q].meta /\ OneRun(q, r)}
RunNeighbours(r) ==
  LET earlier == {q \in RunAnchors(r) : Counter(q) < Counter(r)}
      later   == {q \in RunAnchors(r) : Counter(r) < Counter(q)}
  IN (IF earlier # {} THEN {LastTake(earlier)} ELSE {}) \cup (IF later # {} THEN {FirstTake(later)} ELSE {})

\* The offset of the neighbours, "high" with two; "never choose one silently".
Shifted(r, q) == date[r].at + Offset(date[q])
Agree(r) == \A q, p \in RunNeighbours(r) : Shifted(r, q) = Shifted(r, p)

\* The anchors and the day; without an anchor, the day is a guess from the newest recording's end
\* or the camera's own.
Suggestion(r) ==
  IF \E q, p \in observed : Bounded(r, q, p)
  THEN LET q == CHOOSE a \in observed : \E p \in observed : Bounded(r, a, p)
           p == CHOOSE b \in observed : Bounded(r, q, b)
       IN [day |-> Effective(q), anchors |-> {q, p}]
  ELSE IF /\ date[r].meta /\ RunNeighbours(r) # {} /\ Agree(r)
          /\ Plausible(Shifted(r, CHOOSE q \in RunNeighbours(r) : TRUE))
  THEN [day |-> Shifted(r, CHOOSE q \in RunNeighbours(r) : TRUE), anchors |-> RunNeighbours(r)]
  ELSE IF date[r].meta /\ RunNeighbours(r) = {} /\ OneRun(r, LastTake(observed))
  THEN [day |-> date[r].at + Today - date[LastTake(observed)].at, anchors |-> {}]
  ELSE [day |-> date[r].at, anchors |-> {}]

-----------------------------------------------------------------------------
(* Properties *)

\* A scan that was reading headers meanwhile undoes no decision of the user and clears no warning:
\* "Never overwrite its hold or corrected time", "Never silently clear a prior warning".
ScansKeepDecisions ==
  [][scan.pc = "reading" /\ scan'.pc = "idle" =>
       \A r \in Takes :
         /\ date[r].st \in {"applying", "confirmed"} => date'[r] = date[r]
         /\ date[r].st = "review" => date'[r].st = "review"]_reviewVars

\* The monitor and the routes do not queue two scans of one card (lock in queue_check).
OneScanEach == scanJobs <= 1

\* A suggestion that rests on approved recordings of both sides lies between their dates, whatever
\* the camera's clock did in between.
SuggestionsLieBetween ==
  \A r \in observed : Undecided(r) =>
    LET s == Suggestion(r) IN
    Cardinality(s.anchors) = 2 =>
      /\ Effective(FirstTake(s.anchors)) <= s.day /\ s.day <= Effective(LastTake(s.anchors))
=============================================================================
