--------------------------- MODULE ProcessingSync ---------------------------
(***************************************************************************)
(* How the processor keeps its copy of the Pi's upload metadata            *)
(* (app/processing_sync.py, the monitor of app/processing.py and the       *)
(* endpoint of app/routers/roadtrips.py).  The Pi owns the source tables,  *)
(* the processor may have corrected dates and imported GPS days itself.    *)
(* A digest is injective, so the model uses the rows themselves as digest  *)
(* and as ETag.                                                            *)
(***************************************************************************)
EXTENDS Naturals, FiniteSets

CONSTANTS
  Recs,          \* ids of recording_dates
  Files,         \* ids of archive_files
  MaxRev,        \* bound: revisions of a recording
  MaxEdits,      \* bound: changes of the Pi's tables
  MaxOutages     \* bound: failed requests and restarts

ASSUME SyncAssumption ==
  MaxRev \in Nat /\ MaxEdits \in Nat /\ MaxOutages \in Nat

VARIABLES
  source,    \* the Pi's database
  central,   \* the processor's database, its own tables included
  sync,      \* processing_sync_state
  fetch,     \* the request under way
  edits, outages

syncVars == <<source, central, sync, fetch, edits, outages>>

\* A date with its revision and the side that set it; the camera's own date is revision 0.
Date == [rev : 0..MaxRev, by : {"camera", "pi", "processor"}]
NoRow == [rev |-> 0, by |-> "none"]
Camera == [rev |-> 0, by |-> "camera"]

\* A digest, a tag and the rows of an answer are sets of at most one member.
Rows == [date : [Recs -> Date], copy : [Recs -> Date \cup {NoRow}], files : SUBSET Files]
Unsynced == [digest |-> {}, ids |-> {}, seeded |-> FALSE]
NoFetch == [stage |-> "idle", tag |-> {}, rows |-> {}]

SyncTypeOK ==
  /\ source \in Rows
  /\ central.date \in [Recs -> Date \cup {NoRow}] /\ central.copy \in [Recs -> Date \cup {NoRow}]
  /\ central.present \in [Files -> {"absent", "present", "retired"}]
  /\ central.days \in {"none", "seeded", "own"}
  /\ sync.digest \subseteq Rows /\ sync.ids \subseteq Files /\ sync.seeded \in BOOLEAN
  /\ fetch.stage \in {"idle", "asked", "answered", "unchanged"}
  /\ fetch.tag \subseteq Rows /\ fetch.rows \subseteq Rows
  /\ edits \in 0..MaxEdits /\ outages \in 0..MaxOutages

SyncInit ==
  /\ source = [date |-> [r \in Recs |-> Camera], copy |-> [r \in Recs |-> NoRow], files |-> {}]
  /\ central = [date |-> [r \in Recs |-> NoRow], copy |-> [r \in Recs |-> NoRow],
                present |-> [f \in Files |-> "absent"], days |-> "none"]
  /\ sync = Unsynced /\ fetch = NoFetch /\ edits = 0 /\ outages = 0

-----------------------------------------------------------------------------
(* The two databases change by themselves *)

PiEdits(rows) ==
  /\ edits < MaxEdits /\ rows # source
  /\ source' = rows /\ edits' = edits + 1
  /\ UNCHANGED <<central, sync, fetch, outages>>

\* A correction on the Pi: its corrected copy and its revision are separate commits.
PiCopies(r) ==
  /\ source.date[r].rev < MaxRev
  /\ PiEdits([source EXCEPT !.copy[r] = [rev |-> source.date[r].rev + 1, by |-> "pi"]])
PiConfirms(r) ==
  /\ source.copy[r].rev = source.date[r].rev + 1
  /\ PiEdits([source EXCEPT !.date[r] = source.copy[r]])
PiFiles(f) ==
  \/ PiEdits([source EXCEPT !.files = @ \cup {f}])
  \/ PiEdits([source EXCEPT !.files = @ \ {f}])

\* The processor's database holds a later correction of its own.
Corrects(r) ==
  /\ central.date[r] # NoRow /\ central.date[r].rev < MaxRev /\ edits < MaxEdits
  /\ LET row == [rev |-> central.date[r].rev + 1, by |-> "processor"] IN
     central' = [central EXCEPT !.date[r] = row, !.copy[r] = row]
  /\ edits' = edits + 1
  /\ UNCHANGED <<source, sync, fetch, outages>>

OwnDays ==
  /\ central.days # "own" /\ central' = [central EXCEPT !.days = "own"]
  /\ UNCHANGED <<source, sync, fetch, edits, outages>>

-----------------------------------------------------------------------------
(* sync_from_source *)

Ask ==
  /\ fetch.stage = "idle"
  /\ fetch' = [NoFetch EXCEPT !.stage = "asked", !.tag = sync.digest]
  /\ UNCHANGED <<source, central, sync, edits, outages>>

\* processor_input: export_snapshot reads all tables in one transaction; 304 if the tag fits.
Answer ==
  /\ fetch.stage = "asked"
  /\ fetch' = IF fetch.tag = {source} THEN [NoFetch EXCEPT !.stage = "unchanged"]
              ELSE [fetch EXCEPT !.stage = "answered", !.rows = {source}]
  /\ UNCHANGED <<source, central, sync, edits, outages>>

\* An older observation of the Pi must not undo a correction of the processor.
Older_Never(row, mine) == FALSE
Older(row, mine) == mine # NoRow /\ mine.rev > row.rev

Protected(rows) == {r \in Recs : Older(rows.date[r], central.date[r])}

Retired_None(rows) == {}
Retired(rows) == {f \in sync.ids \ rows.files : central.present[f] = "present"}

CopyRows_All(rows) == [r \in Recs |-> IF rows.copy[r] = NoRow THEN central.copy[r] ELSE rows.copy[r]]
CopyRows(rows) ==
  [r \in Recs |-> IF r \in Protected(rows) \/ rows.copy[r] = NoRow
                  THEN central.copy[r] ELSE rows.copy[r]]

\* import_snapshot, one transaction of the processor's database.
Import ==
  /\ fetch.stage = "answered" /\ fetch.rows # sync.digest
  /\ \E rows \in fetch.rows :
       /\ central' =
            [date |-> [r \in Recs |->
                         IF r \in Protected(rows) THEN central.date[r] ELSE rows.date[r]],
             copy |-> CopyRows(rows),
             present |-> [f \in Files |-> CASE f \in rows.files -> "present"
                                            [] f \in Retired(rows) -> "retired"
                                            [] OTHER -> central.present[f]],
             days |-> IF ~sync.seeded /\ central.days = "none" THEN "seeded" ELSE central.days]
       /\ sync' = [digest |-> fetch.rows, ids |-> rows.files, seeded |-> TRUE]
  /\ fetch' = NoFetch
  /\ UNCHANGED <<source, edits, outages>>

\* The tag or the digest says that nothing changed.
NotModified ==
  /\ fetch.stage = "unchanged" \/ (fetch.stage = "answered" /\ fetch.rows = sync.digest)
  /\ fetch' = NoFetch
  /\ UNCHANGED <<source, central, sync, edits, outages>>

\* A refused or broken answer, a failed commit, a restart: nothing was written.
FetchFails ==
  /\ fetch.stage # "idle" /\ outages < MaxOutages
  /\ fetch' = NoFetch /\ outages' = outages + 1
  /\ UNCHANGED <<source, central, sync, edits>>

SyncStep == Ask \/ Answer \/ Import \/ NotModified

SyncNext ==
  \/ \E r \in Recs : PiCopies(r) \/ PiConfirms(r) \/ Corrects(r)
  \/ \E f \in Files : PiFiles(f)
  \/ OwnDays \/ SyncStep \/ FetchFails

\* The monitor's loop asks again after every interval.
SyncFairness == WF_syncVars(SyncStep)
SyncSpec == SyncInit /\ [][SyncNext]_syncVars /\ SyncFairness

-----------------------------------------------------------------------------
(* Properties *)

\* A correction of the processor keeps its date and its corrected copy together, although the
\* copy's row has no revision of its own (protected_dates in import_snapshot).
CorrectionsStayWhole ==
  \A r \in Recs : central.date[r].by = "processor" => central.copy[r] = central.date[r]

\* A synchronisation never takes a recording back to an earlier revision, and never replaces
\* GPS days the processor imported (the revision guard of _upsert, seed_only).
DecisionsStand ==
  [][/\ \A r \in Recs : central.date[r] # NoRow => central'.date[r].rev >= central.date[r].rev
     /\ central.days = "own" => central'.days = "own"]_syncVars

\* Once the Pi is left alone, the processor lists exactly the files the Pi lists and has a date of
\* no earlier revision for each recording, in spite of skipped digests, 304 answers and outages.
Mirrored ==
  /\ \A f \in Files : central.present[f] = "present" <=> f \in source.files
  /\ \A r \in Recs : central.date[r] = source.date[r] \/ central.date[r].rev > source.date[r].rev
MirroredAtLast == <>[]Mirrored
=============================================================================
