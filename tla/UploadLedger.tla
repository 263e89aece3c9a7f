----------------------------- MODULE UploadLedger -----------------------------
(***************************************************************************)
(* One video on its way to one NAS: the upload jobs of app/tasks.py that   *)
(* have it in hand, the Verify job of app/workflow.py, the row of the      *)
(* table "uploaded_clips" they share, and the two files on the NAS, the    *)
(* final one and its ".part".                                              *)
(*                                                                         *)
(* The video is a sequence of Chunks chunks.  A file is the sequence of    *)
(* the source chunks it holds, 0 for bytes that are no longer the video's. *)
(***************************************************************************)
EXTENDS Naturals, Sequences

CONSTANTS
  Slot,         \* upload jobs that can be in flight for this video and NAS
  Chunks,       \* the size of the video
  Sampled,      \* the chunks the fast fingerprint reads
  MaxUploadTroubles,  \* bound: cancellations, failures and restarts
  MaxRots       \* bound: times the archived copy decays

ASSUME UploadLedgerAssumption ==
  /\ Chunks \in Nat \ {0}
  /\ Sampled \subseteq 1 .. Chunks
  /\ MaxUploadTroubles \in Nat
  /\ MaxRots \in Nat

Whole  == [i \in 1 .. Chunks |-> i]
Absent == << >>
Nobody == <<"nobody">>    \* the upload semaphore has a single slot
Verify == <<"verify">>

VARIABLES
  status,    \* UploadedClip.status; "none" before the row is inserted
  flag,      \* UploadedClip.full_verification_failed
  part,      \* the ".part" file
  target,    \* the file under its final name
  rotten,    \* the archived copy decayed since it was written
  pc,        \* where each upload job stands
  force,     \* its force_reupload
  at,        \* its start_offset, then the chunks sent
  cancel,    \* its cancel_requested
  semaphore,    \* who holds the upload semaphore
  vpc,       \* where the Verify job stands
  vseen,     \* the archived file its ledger row led it to
  uploadTroubles,
  rots

ledgerRow == <<status, flag>>
files  == <<part, target, rotten>>
jobs   == <<pc, force, at, cancel>>
verify == <<vpc, vseen>>
bounds == <<uploadTroubles, rots>>
ledgerVars   == <<status, flag, part, target, rotten, pc, force, at, cancel, semaphore,
            vpc, vseen, uploadTroubles, rots>>

LedgerInit ==
  /\ status = "none" /\ flag = FALSE
  /\ part = Absent /\ target = Absent /\ rotten = FALSE
  /\ pc     = [s \in Slot |-> "idle"]
  /\ force  = [s \in Slot |-> FALSE]
  /\ at     = [s \in Slot |-> 0]
  /\ cancel = [s \in Slot |-> FALSE]
  /\ semaphore = Nobody
  /\ vpc = "idle" /\ vseen = Absent
  /\ uploadTroubles = 0 /\ rots = 0

-----------------------------------------------------------------------------
(***************************************************************************)
(* The upload job: handle_upload.                                          *)
(***************************************************************************)

\* Faults: the fast check is believed of a copy that failed verification, the
\* file is never truncated, and a failed transfer goes down as a good one.
Trusted_Always(s) == TRUE
Opened_Append(s)  == part
Outcome_Done(s)   == "done"

\* remote_file_matches: the size and the sampled fingerprint.
Looks(f) == /\ Len(f) = Chunks
            /\ \A i \in Sampled : f[i] = i

Trusted(s) == ~force[s]

\* The job is over.
TransferEnds(s) ==
  /\ pc'     = [pc EXCEPT ![s] = "idle"]
  /\ cancel' = [cancel EXCEPT ![s] = FALSE]
  /\ UNCHANGED <<force, at>>

UploadGoes(s, to) ==
  /\ pc' = [pc EXCEPT ![s] = to]
  /\ UNCHANGED <<force, at, cancel>>

\* The first session reads the ledger.  A job that reads "done" ends there and
\* leaves the row as it is.
Begin(s) ==
  /\ pc[s] = "idle"
  /\ status # "done"
  /\ pc'    = [pc EXCEPT ![s] = "decided"]
  /\ force' = [force EXCEPT ![s] = flag]
  /\ UNCHANGED <<ledgerRow, files, at, cancel, semaphore, verify, bounds>>

\* ... and commits.
Decide(s) ==
  /\ pc[s] = "decided"
  /\ status' = "uploading"
  /\ UploadGoes(s, "check")
  /\ UNCHANGED <<flag, files, semaphore, verify, bounds>>

\* set_progress before the check of the existing file.
StopsEarly(s) ==
  /\ pc[s] = "check" /\ cancel[s]
  /\ TransferEnds(s)
  /\ UNCHANGED <<ledgerRow, files, semaphore, verify, bounds>>

CheckCopy(s) ==
  /\ pc[s] = "check" /\ ~cancel[s]
  /\ UploadGoes(s, IF Trusted(s) /\ Looks(target) THEN "matched" ELSE "resume")
  /\ UNCHANGED <<ledgerRow, files, semaphore, verify, bounds>>

\* The copy is there.  The progress call after the commit may raise
\* JobCancelled, which the except clause of the check takes for a failed check:
\* the job goes on to a transfer.
RecordMatch(s) ==
  /\ pc[s] = "matched"
  /\ status' = "done"
  /\ IF cancel[s] THEN UploadGoes(s, "resume") ELSE TransferEnds(s)
  /\ UNCHANGED <<flag, files, semaphore, verify, bounds>>

ResumeOffset == IF Len(part) < Chunks THEN Len(part) ELSE Chunks

\* get_resume_offset and the first _mark_upload_progress, before the semaphore.
Resume(s) ==
  /\ pc[s] = "resume"
  /\ pc' = [pc EXCEPT ![s] = "wait"]
  /\ at' = [at EXCEPT ![s] = IF force[s] THEN 0 ELSE ResumeOffset]
  /\ status' = "uploading"
  /\ UNCHANGED <<flag, files, force, cancel, semaphore, verify, bounds>>

Acquire(s) ==
  /\ pc[s] = "wait" /\ semaphore = Nobody
  /\ semaphore' = s
  /\ UploadGoes(s, "open")
  /\ UNCHANGED <<ledgerRow, files, verify, bounds>>

\* Mode "ab" from an offset, "wb" from zero.
Opened(s) == IF at[s] > 0 THEN part ELSE Absent

\* Everything sent and the final file there: LocalBackend.upload returns.
AlreadySent(s) ==
  /\ pc[s] = "open" /\ at[s] >= Chunks /\ target # Absent
  /\ semaphore' = Nobody
  /\ IF cancel[s] THEN TransferEnds(s) /\ UNCHANGED status
                  ELSE UploadGoes(s, "verify") /\ status' = "uploading"
  /\ UNCHANGED <<flag, files, verify, bounds>>

Open(s) ==
  /\ pc[s] = "open" /\ (at[s] < Chunks \/ target = Absent)
  /\ part' = Opened(s)
  /\ UploadGoes(s, "copy")
  /\ UNCHANGED <<ledgerRow, target, rotten, semaphore, verify, bounds>>

Sent(s) == at[s] >= Chunks

\* One chunk and its on_progress.  The ledger is written for the last chunk and
\* once in a while before; a cancellation is noticed at every chunk.
Copy(s) ==
  /\ pc[s] = "copy" /\ ~Sent(s)
  /\ part' = Append(part, at[s] + 1)
  /\ IF cancel[s]
       THEN TransferEnds(s) /\ semaphore' = Nobody /\ UNCHANGED status
       ELSE /\ at' = [at EXCEPT ![s] = @ + 1]
            /\ status' = "uploading" \/ (at'[s] < Chunks /\ UNCHANGED status)
            /\ UNCHANGED <<pc, force, cancel, semaphore>>
  /\ UNCHANGED <<flag, target, rotten, verify, bounds>>

\* os.replace, then the semaphore is released.
PublishCopy(s) ==
  /\ pc[s] = "copy" /\ Sent(s)
  /\ target' = part /\ part' = Absent /\ rotten' = FALSE
  /\ semaphore' = Nobody
  /\ UploadGoes(s, "verify")
  /\ UNCHANGED <<ledgerRow, verify, bounds>>

VerifySent(s) ==
  /\ pc[s] = "verify"
  /\ UploadGoes(s, IF Looks(target) THEN "good" ELSE "bad")
  /\ UNCHANGED <<ledgerRow, files, semaphore, verify, bounds>>

Outcome(s) == IF pc[s] = "good" THEN "done" ELSE "error"

Record(s) ==
  /\ pc[s] \in {"good", "bad"}
  /\ status' = Outcome(s)
  /\ flag'   = (flag /\ pc[s] = "bad")
  /\ TransferEnds(s)
  /\ UNCHANGED <<files, semaphore, verify, bounds>>

Released(s) == IF semaphore = s THEN Nobody ELSE semaphore

\* The NAS fails: the check of the existing file is given up, anything later is
\* recorded as an error.
Fails(s) ==
  /\ pc[s] \in {"check", "open", "copy", "verify"}
  /\ UploadGoes(s, IF pc[s] = "check" THEN "resume" ELSE "bad")
  /\ semaphore' = Released(s)
  /\ UNCHANGED <<ledgerRow, files, verify>>

\* AgentUnavailable: the camera is gone and the job goes back to the queue.
SourceLost(s) ==
  /\ pc[s] \in {"open", "copy"}
  /\ TransferEnds(s)
  /\ semaphore' = Released(s)
  /\ UNCHANGED <<ledgerRow, files, verify>>

-----------------------------------------------------------------------------
(***************************************************************************)
(* Full verification: handle_verify, for this video.                       *)
(***************************************************************************)

\* Fault: a failed verification does not mark the copy for repair.
Condemned_Error == flag

VerifyBegin ==
  /\ vpc = "idle" /\ semaphore = Nobody
  /\ semaphore' = Verify
  /\ vpc'    = "look"
  /\ UNCHANGED <<ledgerRow, files, jobs, vseen, bounds>>

VerifyLook ==
  /\ vpc = "look"
  /\ vpc'   = "hash"
  /\ vseen' = IF status = "done" THEN target ELSE Absent
  /\ UNCHANGED <<ledgerRow, files, jobs, semaphore, bounds>>

VerifyEnds ==
  /\ vpc' = "idle" /\ vseen' = Absent
  /\ semaphore' = Nobody

\* Full hashes of both files; a file that changed meanwhile is an error of the
\* report only.
VerifyHash ==
  /\ vpc = "hash"
  /\ IF vseen # Absent /\ (target # vseen \/ target = Whole)
       THEN VerifyEnds
       ELSE vpc' = "condemn" /\ UNCHANGED <<vseen, semaphore>>
  /\ UNCHANGED <<ledgerRow, files, jobs, bounds>>

Condemned == TRUE

\* "missing" or "mismatch": Import must repair the copy.
VerifyCondemns ==
  /\ vpc = "condemn"
  /\ IF status = "none" THEN UNCHANGED ledgerRow
                        ELSE status' = "error" /\ flag' = Condemned
  /\ VerifyEnds
  /\ UNCHANGED <<files, jobs, bounds>>

VerifyStops ==
  /\ vpc \in {"look", "hash"}
  /\ VerifyEnds
  /\ UNCHANGED <<ledgerRow, files, jobs>>

-----------------------------------------------------------------------------
(***************************************************************************)
(* Surroundings.                                                           *)
(***************************************************************************)
CancelRequest(s) ==
  /\ pc[s] # "idle" /\ ~cancel[s]
  /\ cancel' = [cancel EXCEPT ![s] = TRUE]
  /\ UNCHANGED <<ledgerRow, files, pc, force, at, semaphore, verify>>

\* The process dies; rows and files stay.
UploaderCrash ==
  /\ pc'     = [s \in Slot |-> "idle"]
  /\ cancel' = [s \in Slot |-> FALSE]
  /\ vpc' = "idle" /\ vseen' = Absent
  /\ semaphore' = Nobody
  /\ UNCHANGED <<ledgerRow, files, force, at>>

UploadTrouble ==
  /\ uploadTroubles < MaxUploadTroubles
  /\ uploadTroubles' = uploadTroubles + 1
  /\ \/ \E s \in Slot : Fails(s) \/ SourceLost(s) \/ CancelRequest(s)
     \/ VerifyStops
     \/ UploaderCrash
  /\ UNCHANGED rots

Quiet == vpc = "idle" /\ \A s \in Slot : pc[s] = "idle"

\* The archived copy loses bytes, its tail or itself, while nothing is at work
\* on it: no check of the code could tell decay from a copy it has just read.
Rot ==
  /\ Quiet /\ target = Whole /\ rots < MaxRots
  /\ rots' = rots + 1
  /\ target' \in {[Whole EXCEPT ![i] = 0] : i \in 1 .. Chunks}
                   \cup {SubSeq(Whole, 1, n) : n \in 0 .. Chunks - 1}
  /\ rotten' = TRUE
  /\ UNCHANGED <<ledgerRow, part, jobs, semaphore, verify, uploadTroubles>>

TransferStep(s) ==
  \/ Decide(s) \/ StopsEarly(s) \/ CheckCopy(s) \/ RecordMatch(s)
  \/ Resume(s) \/ Acquire(s) \/ AlreadySent(s) \/ Open(s) \/ Copy(s)
  \/ PublishCopy(s) \/ VerifySent(s) \/ Record(s)

VerifyStep == VerifyLook \/ VerifyHash \/ VerifyCondemns

LedgerNext ==
  \/ \E s \in Slot : Begin(s) \/ TransferStep(s)
  \/ VerifyBegin \/ VerifyStep
  \/ UploadTrouble \/ Rot

LedgerSpec == LedgerInit /\ [][LedgerNext]_ledgerVars

(***************************************************************************)
(* Jobs that run go on; a job that waits for the semaphore gets it when it *)
(* is free again and again.  The user imports and verifies now and then.   *)
(***************************************************************************)
LedgerFairness ==
  /\ \A s \in Slot : /\ SF_ledgerVars(TransferStep(s))
                     /\ WF_ledgerVars(Begin(s))
  /\ WF_ledgerVars(VerifyStep)
  /\ SF_ledgerVars(VerifyBegin)

FairLedgerSpec == LedgerSpec /\ LedgerFairness

-----------------------------------------------------------------------------
(***************************************************************************)
(* Properties.                                                             *)
(***************************************************************************)
Steps == {"idle", "decided", "check", "matched", "resume", "wait", "open", "copy",
          "verify", "good", "bad"}
File  == Seq(0 .. Chunks)

\* The types of the ledger row, the files and the jobs.
LedgerTypeOK ==
  /\ status \in {"none", "uploading", "done", "error"}
  /\ flag \in BOOLEAN
  /\ part \in File /\ target \in File
  /\ rotten \in BOOLEAN
  /\ pc \in [Slot -> Steps]
  /\ force \in [Slot -> BOOLEAN]
  /\ at \in [Slot -> 0 .. Chunks]
  /\ cancel \in [Slot -> BOOLEAN]
  /\ semaphore \in Slot \cup {Nobody, Verify}
  /\ vpc \in {"idle", "look", "hash", "condemn"}
  /\ vseen \in File
  /\ uploadTroubles \in 0 .. MaxUploadTroubles
  /\ rots \in 0 .. MaxRots

\* The final name never shows a partial copy or one put together from the wrong
\* pieces, whatever cancellations, failures and restarts the transfer and its
\* resumptions went through.
PublishedIsWhole == target = Absent \/ rotten \/ target = Whole

\* The ledger says "done" only of a video whose copy is complete on the NAS, or
\* was when it was written and has decayed since.
DoneIsArchived == status = "done" => (target = Whole \/ rotten)

\* A job that knows that the copy failed full verification turns the ledger to
\* "done" only over a copy that is right in every byte: it does not believe the
\* fast fingerprint, nor a resumed transfer's old bytes.
RepairIsReal ==
  [][\A s \in Slot : status # "done" /\ status' = "done"
        /\ force[s] /\ pc[s] # "idle" /\ pc'[s] = "idle" => target = Whole]_ledgerVars

\* Whatever decayed is right again in the end when the user keeps importing and
\* verifying: no sequence of failures leaves a bad copy that every later import
\* takes for a good one.  (The row may go on changing: a Verify that looks while
\* a transfer runs calls the copy missing, and the next import sends it again.)
RepairedAtLast == <>[](target = Whole)

\* README: "Transfer resume uses the NAS partial file's actual length".
ResumesAtActualLength ==
  \A s \in Slot : pc[s] = "copy" => Len(part) = at[s]

\* workflow.py: "Make Import repair the failed copy rather than trusting a
\* historical done ledger": a row marked for repair never reads "done".
FailedCopyIsNotDone == flag => status # "done"
=============================================================================
