---------------------------- MODULE DateCorrection ----------------------------
(***************************************************************************)
(* One camera recording whose date is corrected while its backup is on, or *)
(* on its way to, the NAS: the preview and confirmation of app/            *)
(* date_review.py, the correction job that moves the archived original, an *)
(* upload job of app/tasks.py, and restarts of the process.                *)
(*                                                                         *)
(* The recording lies under its content name in date folders, or under     *)
(* Holding while its date is not approved.  The camera stays attached.     *)
(***************************************************************************)
EXTENDS Naturals

CONSTANTS
  Dates,        \* the recording dates; each has its own folder
  Original,     \* the date in the camera's metadata
  MaxPlans,     \* bound: previews made
  MaxDateTroubles   \* bound: failures of a job and restarts

Plans  == 1 .. MaxPlans
NoPlanYet  == 0
Place == Dates \cup {"Holding"}

ASSUME DateCorrectionAssumption ==
  /\ Original \in Dates
  /\ "Holding" \notin Dates /\ "nowhere" \notin Dates
  /\ MaxPlans \in Nat /\ MaxDateTroubles \in Nat

VARIABLES
  row,       \* RecordingDate: status, effective date, revision, correction_id
  clip,      \* UploadedClip: status and remote_path
  copies,    \* the folders of the NAS that hold the recording
  plan,      \* the DateCorrection rows
  asked,     \* the plan a confirmation has checked and not committed
  jst,       \* the date_correction job of each plan
  jpc,       \* where the correction job that holds the semaphores stands
  move,      \* the move it works on
  up,        \* the upload job
  semaphoreHolder,  \* who holds the upload semaphore
  overlap,   \* history: an upload and a correction job were both under way
  dateTroubles

datesVars == <<row, clip, copies, plan, asked, jst, jpc, move, up, semaphoreHolder, overlap,
               dateTroubles>>
requested == <<plan, asked>>
jobState       == <<jst, jpc, move>>

APPROVED == {"trusted", "confirmed"}
NoMove   == [old |-> "nowhere", new |-> "nowhere"]
NoPlan   == [st |-> "none", rev |-> 0, date |-> Original, move |-> NoMove,
             candidate |-> FALSE]

Home == IF row.st \in APPROVED THEN row.date ELSE "Holding"

\* The scan has seen the recording; nothing of it is on the NAS, or one backup
\* that is on record, or one that this application did not make.
DatesInit ==
  /\ \E st \in {"review", "trusted"} :
       row = [st |-> st, date |-> Original, rev |-> 0, corr |-> NoPlanYet]
  /\ \/ clip = [st |-> "none", at |-> "nowhere"] /\ copies = {}
     \/ clip = [st |-> "done", at |-> Home] /\ copies = {Home}
     \/ clip = [st |-> "none", at |-> "nowhere"] /\ copies = {Original}
  /\ plan   = [p \in Plans |-> NoPlan]
  /\ asked  = NoPlanYet
  /\ jst    = [p \in Plans |-> "none"]
  /\ jpc    = "idle" /\ move = NoMove
  /\ up     = [pc |-> "idle", to |-> "nowhere", date |-> Original]
  /\ semaphoreHolder = "nobody"
  /\ overlap = FALSE
  /\ dateTroubles = 0

-----------------------------------------------------------------------------
(***************************************************************************)
(* The user: preview and confirmation.                                     *)
(***************************************************************************)

\* make_preview.
Preview(p, d) ==
  /\ plan[p].st = "none" /\ \A q \in Plans : q < p => plan[q].st # "none"
  /\ row.st # "applying"
  /\ plan' = [plan EXCEPT ![p] =
       [st |-> "preview", rev |-> row.rev, date |-> d,
        move |-> IF clip.st = "done" THEN [old |-> clip.at, new |-> d]
                                       ELSE NoMove,
        candidate |-> Original \in copies]]
  /\ UNCHANGED <<row, clip, copies, asked, jobState, up, semaphoreHolder, overlap, dateTroubles>>

Fresh(p) == row.rev = plan[p].rev /\ row.st # "applying"

\* confirm_plan: no upload of the recording is running and the preview is fresh;
\* it then reads the whole sample of the original ...
ConfirmCheck(p) ==
  /\ asked = NoPlanYet /\ plan[p].st = "preview"
  /\ up.pc = "idle"
  /\ Fresh(p)
  /\ asked' = p
  /\ UNCHANGED <<row, clip, copies, plan, jobState, up, semaphoreHolder, overlap, dateTroubles>>

\* ... and commits the hold and the job.
ConfirmCommit ==
  /\ asked # NoPlanYet
  /\ row'  = [row EXCEPT !.st = "applying"]
  /\ plan' = [plan EXCEPT ![asked].st = "confirmed"]
  /\ jst'  = [jst EXCEPT ![asked] = "queued"]
  /\ asked' = NoPlanYet
  /\ UNCHANGED <<clip, copies, jpc, move, up, semaphoreHolder, overlap, dateTroubles>>

\* The user retries a failed job.
Retry(p) ==
  /\ jst[p] = "failed"
  /\ jst' = [jst EXCEPT ![p] = "queued"]
  /\ UNCHANGED <<row, clip, copies, requested, jpc, move, up, semaphoreHolder, overlap,
                 dateTroubles>>

\* A later scan finds a clock reset: a trusted date is put up for review.
Doubt ==
  /\ row.st = "trusted"
  /\ row' = [row EXCEPT !.st = "review"]
  /\ UNCHANGED <<clip, copies, requested, jobState, up, semaphoreHolder, overlap, dateTroubles>>

-----------------------------------------------------------------------------
(***************************************************************************)
(* The correction job: correction_job.                                     *)
(***************************************************************************)

\* Faults: a job that does not look at who corrected the recording last, and one that takes the
\* old name away although it is the new one.
MayApply_Any(p)    == TRUE
Old_Always(m)      == {m.old}

JobGoes(pc) == jpc' = pc /\ UNCHANGED <<jst, move>>

JobEnds(p, st) ==
  /\ jpc' = "idle" /\ move' = NoMove
  /\ jst' = [jst EXCEPT ![p] = st]
  /\ semaphoreHolder' = "nobody"

JobBegin(p) ==
  /\ jst[p] = "queued" /\ semaphoreHolder = "nobody"
  /\ IF plan[p].st = "done"
       THEN jst' = [jst EXCEPT ![p] = "ended"] /\ UNCHANGED <<jpc, semaphoreHolder>>
       ELSE /\ jst' = [jst EXCEPT ![p] = "running"]
            /\ jpc' = "row" /\ semaphoreHolder' = "job"
  /\ overlap' = (overlap \/ up.pc # "idle")
  /\ UNCHANGED <<row, clip, copies, requested, move, up, dateTroubles>>

MayApply(p) == row.rev = plan[p].rev \/ row.corr = p

\* The moves of the preview, or else that of a backup that finished since.
JobMove(p) == IF plan[p].move = NoMove /\ clip.st = "done"
                THEN [old |-> clip.at, new |-> plan[p].date]
                ELSE plan[p].move

\* The first session: the corrected date and the moves.
JobRow(p) ==
  /\ jst[p] = "running" /\ jpc = "row"
  /\ IF MayApply(p)
       THEN /\ row'  = [row EXCEPT !.date = plan[p].date, !.corr = p]
            /\ move' = JobMove(p)
            /\ jpc' = IF move' = NoMove /\ plan[p].candidate /\ Original \in copies
                        THEN "adopt" ELSE "journal"
            /\ UNCHANGED <<jst, semaphoreHolder>>
       ELSE JobEnds(p, "failed") /\ UNCHANGED row
  /\ UNCHANGED <<clip, copies, requested, up, overlap, dateTroubles>>

\* A backup found in the original date folder goes on record.
JobAdopt(p) ==
  /\ jst[p] = "running" /\ jpc = "adopt"
  /\ clip' = [st |-> "done", at |-> Original]
  /\ move' = [old |-> Original, new |-> plan[p].date]
  /\ jpc' = "journal"
  /\ UNCHANGED <<row, copies, requested, jst, up, semaphoreHolder, overlap, dateTroubles>>

JobJournal(p) ==
  /\ jst[p] = "running" /\ jpc = "journal"
  /\ plan' = [plan EXCEPT ![p].move = move]
  /\ JobGoes(IF move = NoMove THEN "confirm" ELSE "link")
  /\ UNCHANGED <<row, clip, copies, asked, up, semaphoreHolder, overlap, dateTroubles>>

\* safe_move, or a copy that is gone from both places.
JobLink(p) ==
  /\ jst[p] = "running" /\ jpc = "link"
  /\ IF {move.old, move.new} \cap copies = {}
       THEN /\ clip' = [clip EXCEPT !.st = "error"]
            /\ JobGoes("confirm") /\ UNCHANGED copies
       ELSE /\ copies' = copies \cup {move.new}
            /\ JobGoes("publish") /\ UNCHANGED clip
  /\ UNCHANGED <<row, requested, up, semaphoreHolder, overlap, dateTroubles>>

JobPublish(p) ==
  /\ jst[p] = "running" /\ jpc = "publish"
  /\ clip' = [clip EXCEPT !.at = move.new]
  /\ JobGoes("unlink")
  /\ UNCHANGED <<row, copies, requested, up, semaphoreHolder, overlap, dateTroubles>>

\* The names to take away.
Old(m) == {m.old} \ {m.new}

JobUnlink(p) ==
  /\ jst[p] = "running" /\ jpc = "unlink"
  /\ copies' = copies \ Old(move)
  /\ JobGoes("confirm")
  /\ UNCHANGED <<row, clip, requested, up, semaphoreHolder, overlap, dateTroubles>>

JobConfirm(p) ==
  /\ jst[p] = "running" /\ jpc = "confirm"
  /\ row' = [row EXCEPT !.st = "confirmed", !.rev = plan[p].rev + 1]
  /\ JobGoes("finish")
  /\ UNCHANGED <<clip, copies, requested, up, semaphoreHolder, overlap, dateTroubles>>

JobFinish(p) ==
  /\ jst[p] = "running" /\ jpc = "finish"
  /\ plan' = [plan EXCEPT ![p].st = "done"]
  /\ JobEnds(p, "ended")
  /\ UNCHANGED <<row, clip, copies, asked, up, overlap, dateTroubles>>

\* The NAS fails, a file changes under the hash, or the job is cancelled; once this recording is
\* released, at another one of the plan.
JobFails(p) ==
  /\ jst[p] = "running"
  /\ JobEnds(p, "failed")
  /\ UNCHANGED <<row, clip, copies, requested, up, overlap>>

CorrectionStep(p) ==
  \/ JobBegin(p) \/ JobRow(p) \/ JobAdopt(p) \/ JobJournal(p) \/ JobLink(p)
  \/ JobPublish(p) \/ JobUnlink(p) \/ JobConfirm(p) \/ JobFinish(p)

-----------------------------------------------------------------------------
(***************************************************************************)
(* The upload job: the parts of handle_upload that look at the date.       *)
(***************************************************************************)

\* Fault: a date that is not looked at again.
StillCurrent_Any == TRUE

UpGoes(pc) == up' = [up EXCEPT !.pc = pc]

\* Not while a correction is applied, and nothing to do for a recorded backup.
UploadBegin ==
  /\ up.pc = "idle"
  /\ clip.st # "done" /\ row.st # "applying"
  /\ up' = [pc |-> "check", to |-> Home, date |-> row.date]
  /\ clip' = [clip EXCEPT !.st = "uploading"]
  /\ overlap' = (overlap \/ jpc # "idle")
  /\ UNCHANGED <<row, copies, requested, jobState, semaphoreHolder, dateTroubles>>

UploadCheck ==
  /\ up.pc = "check"
  /\ IF up.to \in copies
       THEN UpGoes("good") /\ UNCHANGED clip
       ELSE UpGoes("wait") /\ clip' = [clip EXCEPT !.st = "uploading"]
  /\ UNCHANGED <<row, copies, requested, jobState, semaphoreHolder, overlap, dateTroubles>>

StillCurrent == row.st # "applying" /\ up.to = Home /\ up.date = row.date

\* The slot is there: the date is read again, under the semaphore.
UploadAcquire ==
  /\ up.pc = "wait" /\ semaphoreHolder = "nobody"
  /\ IF StillCurrent THEN semaphoreHolder' = "upload" /\ UpGoes("copy")
                     ELSE UpGoes("bad") /\ UNCHANGED semaphoreHolder
  /\ UNCHANGED <<row, clip, copies, requested, jobState, overlap, dateTroubles>>

\* The file is published and the semaphore released.
UploadSend ==
  /\ up.pc = "copy"
  /\ copies' = copies \cup {up.to}
  /\ semaphoreHolder' = "nobody"
  /\ UpGoes("sent")
  /\ UNCHANGED <<row, clip, requested, jobState, overlap, dateTroubles>>

UploadVerify ==
  /\ up.pc = "sent"
  /\ UpGoes(IF up.to \in copies THEN "good" ELSE "bad")
  /\ UNCHANGED <<row, clip, copies, requested, jobState, semaphoreHolder, overlap, dateTroubles>>

UploadRecord ==
  /\ up.pc \in {"good", "bad"}
  /\ clip' = IF up.pc = "good" THEN [st |-> "done", at |-> up.to]
                                 ELSE [st |-> "error", at |-> "nowhere"]
  /\ UpGoes("idle")
  /\ UNCHANGED <<row, copies, requested, jobState, semaphoreHolder, overlap, dateTroubles>>

UploadStep ==
  \/ UploadCheck \/ UploadAcquire \/ UploadSend \/ UploadVerify \/ UploadRecord

-----------------------------------------------------------------------------
\* Fault: jobs that were running stay so.
Interrupted_Kept(s) == s

\* JobManager.start offers an interrupted job again.
Interrupted(s) == IF s = "running" THEN "queued" ELSE s

DatesCrash ==
  /\ asked' = NoPlanYet
  /\ jst' = [p \in Plans |-> Interrupted(jst[p])]
  /\ jpc' = "idle" /\ move' = NoMove
  /\ UpGoes("idle")
  /\ semaphoreHolder' = "nobody"
  /\ UNCHANGED <<row, clip, copies, plan, overlap>>

DateTrouble ==
  /\ dateTroubles < MaxDateTroubles
  /\ dateTroubles' = dateTroubles + 1
  /\ DatesCrash \/ \E p \in Plans : JobFails(p)

DatesNext ==
  \/ \E p \in Plans : \/ \E d \in Dates : Preview(p, d)
                     \/ ConfirmCheck(p) \/ Retry(p) \/ CorrectionStep(p)
  \/ ConfirmCommit \/ Doubt
  \/ UploadBegin \/ UploadStep
  \/ DateTrouble

DatesSpec == DatesInit /\ [][DatesNext]_datesVars

(***************************************************************************)
(* Jobs that run go on, and the semaphore reaches whoever waits for it.    *)
(* The user owes nothing.                                                  *)
(***************************************************************************)
FairDatesSpec ==
  /\ DatesSpec
  /\ \A p \in Plans : SF_datesVars(CorrectionStep(p))
  /\ SF_datesVars(UploadStep)

-----------------------------------------------------------------------------
(***************************************************************************)
(* Properties.                                                             *)
(***************************************************************************)
Moves == [old : Place \cup {"nowhere"}, new : Dates \cup {"nowhere"}]

\* The types of the rows, the plans and the jobs.
DatesTypeOK ==
  /\ row \in [st : {"review", "trusted", "applying", "confirmed"}, date : Dates,
              rev : 0 .. MaxPlans, corr : Plans \cup {NoPlanYet}]
  /\ clip \in [st : {"none", "uploading", "done", "error"},
                 at : Place \cup {"nowhere"}]
  /\ copies \subseteq Place
  /\ plan \in [Plans -> [st : {"none", "preview", "confirmed", "done"},
                        rev : 0 .. MaxPlans, date : Dates, move : Moves,
                        candidate : BOOLEAN]]
  /\ asked \in Plans \cup {NoPlanYet}
  /\ jst \in [Plans -> {"none", "queued", "running", "failed", "ended"}]
  /\ jpc \in {"idle", "row", "adopt", "journal", "link", "publish", "unlink",
              "confirm", "finish"}
  /\ move \in Moves
  /\ up \in [pc : {"idle", "check", "wait", "copy", "sent", "good", "bad"},
             to : Place \cup {"nowhere"}, date : Dates]
  /\ semaphoreHolder \in {"nobody", "upload", "job"}
  /\ overlap \in BOOLEAN
  /\ dateTroubles \in 0 .. MaxDateTroubles

\* A recorded backup is never lost sight of: no step of a correction, however
\* often it is interrupted, repeated or overtaken by another plan, takes away
\* the file that the clip names.
ArchiveStaysReachable ==
  ~overlap /\ clip.st = "done" => clip.at \in copies

\* tasks.py: "Never send a precomputed old folder": while bytes are sent, the
\* recording still has the date the folder was computed from, and the folder is
\* not Holding once that date is confirmed. A date that is doubted after the
\* check under the semaphore does not call the upload back.
SendsToCurrentFolder ==
  up.pc = "copy" => up.to # "nowhere" /\ up.date = row.date
                    /\ (up.to = "Holding" => row.st # "confirmed")

\* No correction job is left to run and no upload is under way.
AtRest == up.pc = "idle" /\ \A p \in Plans : jst[p] \in {"none", "ended"}

\* README: "Confirmed jobs move existing originals into the corrected
\* destination folders".
FiledUnderItsDate ==
  AtRest /\ row.st = "confirmed" /\ clip.st = "done" => clip.at = row.date

\* ... and so they do unless an upload was under way beside the job; the old name
\* is gone once the plan is closed.
MovedAsPlanned ==
  ~overlap =>
    /\ FiledUnderItsDate
    /\ \A p \in Plans : AtRest /\ plan[p].st = "done" /\ row.corr = p
                         => Old(plan[p].move) \cap copies = {}

\* Of two corrections previewed from the same state only one is ever applied, even where both
\* were confirmed.
OneOfTwoPreviews ==
  \A p, q \in Plans : plan[p].st = "done" /\ plan[q].st = "done"
                     /\ plan[p].rev = plan[q].rev => p = q

\* A correction that was interrupted after it released the recording does not come
\* back over a later one that is done.
LaterOneStands ==
  \A p, q \in Plans : plan[q].st = "done" /\ plan[q].rev > plan[p].rev => row.corr # p

\* Of two corrections previewed from the same state one is applied, a later one stands, and the
\* recording and its date agree at the end unless an upload ran beside the job.
CorrectionsApply == OneOfTwoPreviews /\ LaterOneStands /\ MovedAsPlanned

\* A recording on hold is released, unless a job failed and waits for the user.
HoldEnds ==
  row.st = "applying" ~> (row.st = "confirmed" \/ \E p \in Plans : jst[p] = "failed")
=============================================================================
