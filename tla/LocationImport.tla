--------------------------- MODULE LocationImport ---------------------------
(***************************************************************************)
(* Importing a month of locations into the private files on the NAS        *)
(* (app/roadtrips.py): from Home Assistant day by day, each day committed  *)
(* on its own, or from an export in one transaction.  Either replaces the  *)
(* file of a day before its row is committed, and ends by rebuilding the   *)
(* outings of the month.                                                   *)
(***************************************************************************)
EXTENDS LocationDays

CONSTANTS
  DaysOfMonth,         \* the days of the month
  DayOf,               \* the day of each fix
  MaxImports,          \* bound: imports asked for
  MaxImportTroubles    \* bound: errors, cancelled jobs and restarts

ASSUME LocationImportAssumption ==
  /\ DaysOfMonth \subseteq Nat /\ DayOf \in [Fixes -> DaysOfMonth]
  /\ MaxImports \in Nat /\ MaxImportTroubles \in Nat

Sources == {"ha", "file"}   \* "ha:" with the entity, "file:timeline"

VARIABLES
  dayFile,    \* per source and day: the fixes in its file on the NAS
  dayRow,     \* its committed LocationDay row: whether there is one, the fixes it stands for
  outing,     \* per source: the RoadtripOuting rows
  zone,       \* the home zone is known
  importJob,  \* the one import job
  importTally \* imports and troubles so far

importVars == <<dayFile, dayRow, outing, zone, importJob, importTally>>

LocationDay == [there : BOOLEAN, fixes : SUBSET Fixes]
NoDay == [there |-> FALSE, fixes |-> {}]
NoLocationJob == [pc |-> "none", source |-> "ha", export |-> {}, left |-> {}, draft |-> <<>>]

ImportTypeOK ==
  /\ dayFile \in [Sources -> [DaysOfMonth -> SUBSET Fixes]]
  /\ dayRow \in [Sources -> [DaysOfMonth -> LocationDay]]
  /\ outing \in [Sources -> SUBSET SUBSET Fixes] /\ zone \in BOOLEAN
  /\ importJob \in [pc : {"none", "queued", "days", "commit"}, source : Sources,
                    export : SUBSET Fixes, left : SUBSET DaysOfMonth,
                    draft : UNION {[days -> LocationDay] : days \in SUBSET DaysOfMonth}]
  /\ importTally \in [imports : 0..MaxImports, troubles : 0..MaxImportTroubles]

ImportInit ==
  /\ dayFile = [s \in Sources |-> [d \in DaysOfMonth |-> {}]]
  /\ dayRow = [s \in Sources |-> [d \in DaysOfMonth |-> NoDay]]
  /\ outing = [s \in Sources |-> {}] /\ zone = FALSE
  /\ importJob = NoLocationJob /\ importTally = [imports |-> 0, troubles |-> 0]

ImportTrouble == /\ importTally.troubles < MaxImportTroubles
           /\ importTally' = [importTally EXCEPT !.troubles = @ + 1]

FixesOf(d, fixes) == {f \in fixes : DayOf[f] = d}
NextDay == CHOOSE d \in importJob.left : \A e \in importJob.left : d <= e

\* The rows of a source as the job's own session sees them.
RowsSeen(s) == [d \in DaysOfMonth |->
  IF s = importJob.source /\ d \in DOMAIN importJob.draft THEN importJob.draft[d] ELSE dayRow[s][d]]

-----------------------------------------------------------------------------
(* The routes: "A location import is already active; wait for it to finish" *)

AskLocations(s, export) ==
  /\ importJob.pc = "none" /\ importTally.imports < MaxImports
  /\ importTally' = [importTally EXCEPT !.imports = @ + 1]
  /\ importJob' = [NoLocationJob EXCEPT !.pc = "queued", !.source = s, !.export = export]
  /\ UNCHANGED <<dayFile, dayRow, outing, zone>>

-----------------------------------------------------------------------------
(* The job *)

HaBegins ==
  /\ importJob.pc = "queued" /\ importJob.source = "ha"
  /\ zone' = TRUE
  /\ importJob' = [importJob EXCEPT !.pc = "days", !.left = DaysOfMonth]
  /\ UNCHANGED <<dayFile, dayRow, outing, importTally>>

\* "No usable location fixes in the selected month; previous location history was preserved"
FileBegins ==
  LET usable == Cleaned(importJob.export) IN
  /\ importJob.pc = "queued" /\ importJob.source = "file"
  /\ importJob' = IF usable = {} THEN NoLocationJob
                  ELSE [importJob EXCEPT !.pc = "days", !.export = usable,
                                         !.left = {DayOf[f] : f \in usable}]
  /\ UNCHANGED <<dayFile, dayRow, outing, zone, importTally>>

\* A day whose row counts no fixes is written anew, whatever its file holds.
Joined_New(s, d, new) == new
Joined(s, d, new) == IF dayRow[s][d].fixes # {} THEN Merge(dayFile[s][d], new) ELSE Cleaned(new)

ReplaceFile(s, d, fixes) ==
  /\ dayFile' = [dayFile EXCEPT ![s][d] = fixes]
  /\ importJob' = [importJob EXCEPT !.left = @ \ {d}, !.pc = IF s = "ha" THEN "commit" ELSE @,
       !.draft = [e \in {d} \cup DOMAIN importJob.draft |->
                    IF e = d THEN [there |-> TRUE, fixes |-> fixes] ELSE importJob.draft[e]]]
  /\ UNCHANGED <<dayRow, outing, zone, importTally>>

\* "An expired recorder window is not evidence the old trip never happened."
ImportHaDay(answer) ==
  LET d == NextDay
      clean == Cleaned(FixesOf(d, answer)) IN
  /\ importJob.pc = "days" /\ importJob.source = "ha" /\ importJob.left # {}
  /\ IF clean = {} /\ dayRow["ha"][d].fixes # {}
     THEN /\ importJob' = [importJob EXCEPT !.left = @ \ {d}]
          /\ UNCHANGED <<dayFile, dayRow, outing, zone, importTally>>
     ELSE ReplaceFile("ha", d, Joined("ha", d, clean))

CommitDay ==
  /\ importJob.pc = "commit"
  /\ dayRow' = [dayRow EXCEPT !["ha"] = RowsSeen("ha")]
  /\ importJob' = [importJob EXCEPT !.pc = "days", !.draft = <<>>]
  /\ UNCHANGED <<dayFile, outing, zone, importTally>>

ImportFileDay ==
  /\ importJob.pc = "days" /\ importJob.source = "file" /\ importJob.left # {}
  /\ ReplaceFile("file", NextDay, Joined("file", NextDay, FixesOf(NextDay, importJob.export)))

\* For an export one transaction holds the rows of all its days and the outings.
RebuildOutings ==
  LET s == importJob.source IN
  /\ importJob.pc = "days" /\ importJob.left = {}
  /\ IF zone
     THEN /\ outing' = [outing EXCEPT ![s] = Outings(Cleaned(UNION {dayFile[s][d] : d \in
                          {e \in DaysOfMonth : RowsSeen(s)[e].fixes # {}}}))]
          /\ dayRow' = [dayRow EXCEPT ![s] = RowsSeen(s)]
     ELSE UNCHANGED <<outing, dayRow>>   \* "Home location is needed"
  /\ importJob' = NoLocationJob
  /\ UNCHANGED <<dayFile, zone, importTally>>

\* Home Assistant or the NAS does not answer, or the job is cancelled: the export is deleted.
ImportFails ==
  /\ importJob.pc # "none" /\ ImportTrouble
  /\ importJob' = NoLocationJob
  /\ UNCHANGED <<dayFile, dayRow, outing, zone>>

\* The job is queued again after a restart, with its export.
ImportRestart ==
  /\ importJob.pc \in {"days", "commit"} /\ ImportTrouble
  /\ importJob' = [NoLocationJob EXCEPT !.pc = "queued", !.source = importJob.source,
                                   !.export = importJob.export]
  /\ UNCHANGED <<dayFile, dayRow, outing, zone>>

ImportNext ==
  \/ AskLocations("ha", {}) \/ \E export \in SUBSET Fixes : AskLocations("file", export)
  \/ HaBegins \/ FileBegins \/ \E answer \in SUBSET Fixes : ImportHaDay(answer)
  \/ CommitDay \/ ImportFileDay \/ RebuildOutings \/ ImportFails \/ ImportRestart

ImportSpec == ImportInit /\ [][ImportNext]_importVars

-----------------------------------------------------------------------------
(* Properties *)

\* A day that once counts fixes goes on counting some, and what is in its file stays there, through
\* empty answers, partial exports, errors, rolled back transactions and restarts; a fix gives way
\* only to an earlier one from which it could not have been reached.
ImportsKeepGps ==
  [][\A s \in Sources, d \in DaysOfMonth : dayRow[s][d].fixes # {} =>
       /\ dayRow'[s][d].fixes # {}
       /\ \A f \in dayFile[s][d] :
            \/ f \in dayFile'[s][d]
            \/ \E g \in dayFile'[s][d] : g < f /\ <<g, f>> \in Impossible]_importVars
=============================================================================
