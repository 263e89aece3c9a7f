---------------------------- MODULE Storage_proofs ----------------------------
(***************************************************************************)
(* Theorems of what the program leaves at its destinations: the recovery   *)
(* copy of its database (StateBackup), a video on a NAS (UploadLedger) and *)
(* at a destination that is not mounted (Destinations), and what the       *)
(* archive's inventory and its jobs make of a NAS (Archive).               *)
(***************************************************************************)
EXTENDS StateBackup, UploadLedger, Destinations, Archive, FiniteSetTheorems, SequenceTheorems,
  TLAPS

(***************************************************************************)
(* StateBackup: for any keys, edits and losses.                            *)
(***************************************************************************)

\* The database of the data directory opens with the key beside it.
CardOpens == card.db.key = card.key

\* What the snapshot holds, by the step where it stands.  Until the second look at the key the
\* staged database is known to be of the key that was read only while that key is still there;
\* from the admission on, the copy has no other key.
SnapshotHolds ==
  /\ snap.pc # "idle" => snap.key \in SecretKeys
  /\ snap.pc \in {"publishes", "copies", "rechecks"} /\ SameKey => snap.staged.key = snap.key
  /\ snap.pc \in {"keys", "replaces"} => snap.staged.key = snap.key
  /\ snap.pc \in {"copies", "rechecks", "keys"} => KeyAgrees
  /\ snap.pc = "replaces" => copy.key = snap.key

BackupInv == BackupTypeOK /\ CardOpens /\ SnapshotHolds /\ RecoveryCopyOpens

LEMMA BackupTypeInit == BackupInit => BackupInv
  BY BackupAssumption
     DEF BackupAssumption, BackupInit, BackupInv, BackupTypeOK, CardOpens, SnapshotHolds,
         RecoveryCopyOpens, Database, Blank, NoSnapshot

\* A copy that opens has a key of its own, and one without a key has no database.
LEMMA KeyOfCopy ==
  ASSUME BackupTypeOK, RecoveryCopyOpens
  PROVE  /\ copy.db # Blank => copy.key \in SecretKeys /\ copy.db \in Database
         /\ copy.key = NoSecret => copy.db = Blank
  BY BackupAssumption DEF BackupAssumption, BackupTypeOK, RecoveryCopyOpens, Database, Blank

LEMMA LossType ==
  ASSUME BackupTypeOK, Loss
  PROVE  losses' \in 0 .. MaxLosses
  BY BackupAssumption DEF BackupAssumption, BackupTypeOK, Loss

LEMMA BackupInvStep == BackupInv /\ [BackupNext]_backupVars => BackupInv'
<1> SUFFICES ASSUME BackupInv, [BackupNext]_backupVars PROVE BackupInv'
  OBVIOUS
<1> USE DEF BackupInv, BackupTypeOK, CardOpens, SnapshotHolds, RecoveryCopyOpens, SameKey,
            KeyAgrees
<1>1. CASE ReadKey
  BY <1>1 DEF ReadKey
<1>2. CASE Stage
  BY <1>2 DEF Stage
<1>3. CASE Admit \/ CopyDatabase \/ Recheck
  BY <1>3 DEF Admit, CopyDatabase, Recheck
<1>4. CASE PublishKey
  <2>1. copy.key = NoSecret => copy.db = Blank
    BY KeyOfCopy
  <2>2. QED
    BY <1>4, <2>1 DEF PublishKey
<1>5. CASE PublishDatabase
  BY <1>5 DEF PublishDatabase, NoSnapshot
<1>6. CASE BackupFails \/ BackupCrash
  BY <1>6, LossType DEF BackupFails, BackupCrash, NoSnapshot
<1>7. CASE Edit
  BY <1>7, BackupAssumption DEF Edit, Database, BackupAssumption
<1>8. ASSUME NEW k \in SecretKeys, ReplaceCard(k) PROVE BackupInv'
  BY <1>8, BackupAssumption, LossType DEF ReplaceCard, NoSnapshot, Database, BackupAssumption
<1>9. CASE Restore
  BY <1>9, KeyOfCopy, LossType DEF Restore, NoSnapshot
<1>10. CASE LoseShare \/ RegainShare
  BY <1>10, LossType DEF LoseShare, RegainShare
<1>11. CASE UNCHANGED backupVars
  BY <1>11 DEF backupVars
<1>12. QED
  BY <1>1, <1>2, <1>3, <1>4, <1>5, <1>6, <1>7, <1>8, <1>9, <1>10, <1>11 DEF BackupNext

\* state_backup.py: the data directory, the copy and the snapshot keep their types.
THEOREM BackupTypes == BackupSpec => []BackupTypeOK
<1>1. BackupInv => BackupTypeOK
  BY DEF BackupInv
<1>2. QED
  BY BackupTypeInit, BackupInvStep, <1>1, PTL DEF BackupSpec

\* state_backup.py: the recovery copy opens with its key at every moment of every snapshot.
THEOREM RecoveryAlwaysOpens == BackupSpec => []RecoveryCopyOpens
<1>1. BackupInv => RecoveryCopyOpens
  BY DEF BackupInv
<1>2. QED
  BY BackupTypeInit, BackupInvStep, <1>1, PTL DEF BackupSpec

(***************************************************************************)
(* UploadLedger.  Two jobs that send the same video at once read the       *)
(* offset before they wait for their turn and spoil the partial file for   *)
(* each other; the theorems are of one job at a time, any Verify job       *)
(* beside it, and any number of cancellations, failures, restarts and      *)
(* decays.                                                                 *)
(***************************************************************************)

OneAtATime == \A s, t \in Slot : s = t

\* The partial file is the beginning of the video.
PartBegins == Len(part) <= Chunks /\ \A i \in 1 .. Len(part) : part[i] = i

\* What was published is whole, unless it has decayed since.
Archived == target = Whole \/ rotten

\* What a job knows at each of its steps.
TransferHolds(s) ==
  /\ pc[s] \in {"wait", "open"} => at[s] = IF force[s] THEN 0 ELSE Len(part)
  /\ pc[s] = "copy" => at[s] = Len(part)
  /\ pc[s] = "matched" => ~force[s] /\ Archived
  /\ pc[s] \in {"verify", "good"} /\ force[s] => target = Whole
  /\ pc[s] = "good" => Archived

LedgerInv ==
  /\ LedgerTypeOK /\ PartBegins /\ PublishedIsWhole /\ DoneIsArchived
  /\ \A s \in Slot : TransferHolds(s)

LEMMA WholeType ==
  /\ Whole \in File /\ Absent \in File /\ Len(Whole) = Chunks /\ Len(Absent) = 0
  /\ Whole # Absent /\ \A i \in 1 .. Chunks : Whole[i] = i
  BY UploadLedgerAssumption DEF UploadLedgerAssumption, Whole, Absent, File

\* Decay leaves a sequence of chunks.
LEMMA RotType ==
  ASSUME Rot
  PROVE  target' \in File
<1>1. ASSUME NEW i \in 1 .. Chunks PROVE [Whole EXCEPT ![i] = 0] \in File
  BY UploadLedgerAssumption DEF UploadLedgerAssumption, Whole, File
<1>2. ASSUME NEW n \in 0 .. Chunks - 1 PROVE SubSeq(Whole, 1, n) \in File
  BY WholeType, SubSeqProperties, UploadLedgerAssumption DEF UploadLedgerAssumption, File
<1>3. QED
  BY <1>1, <1>2 DEF Rot

LEMMA UploadTroubleType ==
  ASSUME LedgerTypeOK, UploadTrouble
  PROVE  uploadTroubles' \in 0 .. MaxUploadTroubles /\ rots' = rots
  BY UploadLedgerAssumption DEF UploadLedgerAssumption, LedgerTypeOK, UploadTrouble

LEMMA LedgerTypeInit == LedgerInit => LedgerTypeOK
<1>1. 0 \in 0 .. Chunks /\ 0 \in 0 .. MaxUploadTroubles /\ 0 \in 0 .. MaxRots
  BY UploadLedgerAssumption DEF UploadLedgerAssumption
<1>2. QED
  BY <1>1, WholeType DEF LedgerInit, LedgerTypeOK, Steps

LEMMA LedgerTypeStep == LedgerTypeOK /\ [LedgerNext]_ledgerVars => LedgerTypeOK'
<1> SUFFICES ASSUME LedgerTypeOK, [LedgerNext]_ledgerVars PROVE LedgerTypeOK'
  OBVIOUS
<1> USE DEF LedgerTypeOK, Steps, ledgerRow, files, jobs, verify, bounds
<1>1. ASSUME NEW s \in Slot, Begin(s) PROVE LedgerTypeOK'
  BY <1>1 DEF Begin
<1>2. ASSUME NEW s \in Slot, Decide(s) \/ StopsEarly(s) \/ CheckCopy(s) \/ RecordMatch(s)
      PROVE  LedgerTypeOK'
  BY <1>2 DEF Decide, StopsEarly, CheckCopy, RecordMatch, UploadGoes, TransferEnds
<1>3. ASSUME NEW s \in Slot, Resume(s) PROVE LedgerTypeOK'
  <2>1. ResumeOffset \in 0 .. Chunks /\ 0 \in 0 .. Chunks
    BY UploadLedgerAssumption DEF UploadLedgerAssumption, ResumeOffset, File
  <2>2. QED
    BY <1>3, <2>1 DEF Resume
<1>4. ASSUME NEW s \in Slot, Acquire(s) \/ AlreadySent(s) PROVE LedgerTypeOK'
  BY <1>4 DEF Acquire, AlreadySent, UploadGoes, TransferEnds
<1>5. ASSUME NEW s \in Slot, Open(s) \/ PublishCopy(s) PROVE LedgerTypeOK'
  BY <1>5, WholeType DEF Open, Opened, PublishCopy, UploadGoes
<1>6. ASSUME NEW s \in Slot, Copy(s) PROVE LedgerTypeOK'
  <2>1. at[s] + 1 \in 0 .. Chunks
    BY <1>6, UploadLedgerAssumption DEF UploadLedgerAssumption, Copy, Sent
  <2>2. part' \in File
    BY <1>6, <2>1 DEF Copy, File
  <2>3. CASE cancel[s]
    BY <1>6, <2>2, <2>3 DEF Copy, TransferEnds
  <2>4. CASE ~cancel[s]
    BY <1>6, <2>1, <2>2, <2>4 DEF Copy
  <2>5. QED
    BY <2>3, <2>4
<1>7. ASSUME NEW s \in Slot, VerifySent(s) \/ Record(s) PROVE LedgerTypeOK'
  BY <1>7 DEF VerifySent, Record, Outcome, UploadGoes, TransferEnds
<1>8. CASE VerifyBegin \/ VerifyStep
  BY <1>8, WholeType
     DEF VerifyBegin, VerifyStep, VerifyLook, VerifyHash, VerifyCondemns, Condemned, VerifyEnds
<1>9. CASE UploadTrouble
  <2>1. uploadTroubles' \in 0 .. MaxUploadTroubles /\ rots' = rots
    BY <1>9, UploadTroubleType
  <2>2. ASSUME NEW s \in Slot, Fails(s) \/ SourceLost(s) \/ CancelRequest(s) PROVE LedgerTypeOK'
    BY <2>1, <2>2 DEF Fails, SourceLost, CancelRequest, UploadGoes, TransferEnds, Released
  <2>3. CASE VerifyStops \/ UploaderCrash
    BY <2>1, <2>3, WholeType DEF VerifyStops, UploaderCrash, VerifyEnds
  <2>4. QED
    BY <1>9, <2>2, <2>3 DEF UploadTrouble
<1>10. CASE Rot
  <2>1. rots' \in 0 .. MaxRots
    BY <1>10, UploadLedgerAssumption DEF UploadLedgerAssumption, Rot
  <2>2. QED
    BY <1>10, <2>1, RotType DEF Rot
<1>11. CASE UNCHANGED ledgerVars
  BY <1>11 DEF ledgerVars
<1>12. QED
  BY <1>1, <1>2, <1>3, <1>4, <1>5, <1>6, <1>7, <1>8, <1>9, <1>10, <1>11
     DEF LedgerNext, TransferStep

\* The only job there is goes on, and the files stay as they are.
LEMMA OneGoesOn ==
  ASSUME LedgerInv, OneAtATime, LedgerTypeOK', NEW s \in Slot,
         UNCHANGED <<part, target, rotten>>,
         TransferHolds(s)', status' = "done" => Archived
  PROVE  LedgerInv'
<1>1. \A t \in Slot : TransferHolds(t)'
  BY DEF OneAtATime
<1>2. QED
  BY <1>1 DEF LedgerInv, PartBegins, PublishedIsWhole, DoneIsArchived, Archived

\* A job that is over, or that has failed, knows nothing.
LEMMA Ignorance ==
  ASSUME NEW s \in Slot, pc'[s] \notin {"wait", "open", "copy", "matched", "verify", "good"}
  PROVE  TransferHolds(s)'
  BY DEF TransferHolds

\* A partial file as long as the video is the video.
LEMMA PartIsVideo ==
  ASSUME LedgerTypeOK, PartBegins, Len(part) >= Chunks
  PROVE  part = Whole
<1>1. Len(part) = Chunks /\ part \in Seq(0 .. Chunks)
  BY UploadLedgerAssumption DEF UploadLedgerAssumption, PartBegins, LedgerTypeOK, File
<1>2. QED
  BY <1>1, UploadLedgerAssumption DEF UploadLedgerAssumption, PartBegins, Whole

\* What looks right is no missing file.
LEMMA LooksArchived ==
  ASSUME PublishedIsWhole, Looks(target)
  PROVE  Archived
  BY UploadLedgerAssumption, WholeType
     DEF UploadLedgerAssumption, PublishedIsWhole, Looks, Archived

LEMMA LedgerInvStep == LedgerInv /\ OneAtATime /\ [LedgerNext]_ledgerVars => LedgerInv'
<1> SUFFICES ASSUME LedgerInv, OneAtATime, [LedgerNext]_ledgerVars PROVE LedgerInv'
  OBVIOUS
<1>0. LedgerTypeOK' /\ LedgerTypeOK
  BY LedgerTypeStep DEF LedgerInv
<1> USE <1>0 DEF ledgerRow, files, jobs, verify, bounds
<1>1. ASSUME NEW s \in Slot, Begin(s) \/ Decide(s) PROVE LedgerInv'
  BY <1>1, Ignorance, OneGoesOn DEF Begin, Decide, UploadGoes, LedgerInv, DoneIsArchived, Archived, LedgerTypeOK
<1>2. ASSUME NEW s \in Slot, StopsEarly(s) PROVE LedgerInv'
  BY <1>2, Ignorance, OneGoesOn DEF StopsEarly, TransferEnds, LedgerInv, DoneIsArchived, Archived, LedgerTypeOK
<1>3. ASSUME NEW s \in Slot, CheckCopy(s) PROVE LedgerInv'
  <2>1. UNCHANGED <<part, target, rotten, status, force>> /\ pc'[s] \in {"matched", "resume"}
    BY <1>3 DEF CheckCopy, UploadGoes, LedgerTypeOK
  <2>2. pc'[s] = "matched" => ~force[s] /\ Archived
    BY <1>3, LooksArchived DEF CheckCopy, UploadGoes, Trusted, LedgerTypeOK, LedgerInv
  <2>3. TransferHolds(s)'
    BY <2>1, <2>2 DEF TransferHolds, Archived
  <2>4. QED
    BY <2>1, <2>3, OneGoesOn DEF LedgerInv, DoneIsArchived, Archived
<1>4. ASSUME NEW s \in Slot, RecordMatch(s) PROVE LedgerInv'
  <2>1. Archived /\ UNCHANGED <<part, target, rotten>>
    BY <1>4 DEF RecordMatch, LedgerInv, TransferHolds
  <2>2. pc'[s] \in {"resume", "idle"}
    BY <1>4 DEF RecordMatch, UploadGoes, TransferEnds, LedgerTypeOK
  <2>3. QED
    BY <2>1, <2>2, Ignorance, OneGoesOn
<1>5. ASSUME NEW s \in Slot, Resume(s) PROVE LedgerInv'
  <2>1. ResumeOffset = Len(part)
    BY UploadLedgerAssumption
       DEF UploadLedgerAssumption, ResumeOffset, LedgerInv, PartBegins, LedgerTypeOK, File
  <2>2. UNCHANGED <<part, target, rotten, force>> /\ status' = "uploading"
        /\ pc'[s] = "wait" /\ at'[s] = IF force[s] THEN 0 ELSE Len(part)
    BY <1>5, <2>1 DEF Resume, LedgerTypeOK
  <2>3. TransferHolds(s)'
    BY <2>2 DEF TransferHolds
  <2>4. QED
    BY <2>2, <2>3, OneGoesOn
<1>6. ASSUME NEW s \in Slot, Acquire(s) PROVE LedgerInv'
  <2>1. UNCHANGED <<part, target, rotten, force, at, status>> /\ pc[s] = "wait" /\ pc'[s] = "open"
    BY <1>6 DEF Acquire, UploadGoes, LedgerTypeOK
  <2>2. TransferHolds(s)'
    BY <2>1 DEF TransferHolds, LedgerInv
  <2>3. QED
    BY <2>1, <2>2, OneGoesOn DEF LedgerInv, DoneIsArchived, Archived
<1>7. ASSUME NEW s \in Slot, AlreadySent(s) PROVE LedgerInv'
  <2>1. UNCHANGED <<part, target, rotten, force>> /\ pc'[s] \in {"verify", "idle"}
        /\ status' \in {"uploading", status}
    BY <1>7 DEF AlreadySent, UploadGoes, TransferEnds, LedgerTypeOK
  <2>2. ~force[s]
    BY <1>7, UploadLedgerAssumption
       DEF UploadLedgerAssumption, AlreadySent, LedgerInv, TransferHolds
  <2>3. TransferHolds(s)'
    BY <2>1, <2>2 DEF TransferHolds
  <2>4. QED
    BY <2>1, <2>3, OneGoesOn DEF LedgerInv, DoneIsArchived, Archived
<1>8. ASSUME NEW s \in Slot, Open(s) PROVE LedgerInv'
  <2>1. UNCHANGED <<target, rotten, force, at, status>> /\ pc[s] = "open" /\ pc'[s] = "copy"
        /\ part' = IF at[s] > 0 THEN part ELSE Absent
    BY <1>8 DEF Open, Opened, UploadGoes, LedgerTypeOK
  <2>2. at[s] > 0 => at[s] = Len(part)
    BY <2>1 DEF LedgerInv, TransferHolds
  <2>3. at[s] = Len(part') /\ PartBegins'
    BY <2>1, <2>2, WholeType, UploadLedgerAssumption
       DEF UploadLedgerAssumption, LedgerInv, PartBegins, LedgerTypeOK
  <2>4. \A t \in Slot : TransferHolds(t)'
    BY <2>1, <2>3 DEF OneAtATime, TransferHolds
  <2>5. QED
    BY <2>1, <2>3, <2>4 DEF LedgerInv, PublishedIsWhole, DoneIsArchived
<1>9. ASSUME NEW s \in Slot, Copy(s) PROVE LedgerInv'
  <2>1. part' = Append(part, at[s] + 1) /\ at[s] = Len(part) /\ at[s] < Chunks /\ part \in Seq(0 .. Chunks)
    BY <1>9, UploadLedgerAssumption
       DEF UploadLedgerAssumption, Copy, Sent, LedgerInv, TransferHolds, LedgerTypeOK, File
  <2>2. PartBegins' /\ Len(part') = Len(part) + 1
    BY <2>1, UploadLedgerAssumption DEF UploadLedgerAssumption, LedgerInv, PartBegins
  <2>3. UNCHANGED <<target, rotten, force>> /\ status' \in {"uploading", status}
        /\ (pc'[s] = "idle" \/ (pc'[s] = "copy" /\ at'[s] = at[s] + 1))
    BY <1>9 DEF Copy, TransferEnds, LedgerTypeOK
  <2>4. \A t \in Slot : TransferHolds(t)'
    BY <2>1, <2>2, <2>3 DEF OneAtATime, TransferHolds
  <2>5. QED
    BY <2>2, <2>3, <2>4 DEF LedgerInv, PublishedIsWhole, DoneIsArchived
<1>10. ASSUME NEW s \in Slot, PublishCopy(s) PROVE LedgerInv'
  <2>1. part = Whole
    BY <1>10, PartIsVideo DEF PublishCopy, Sent, LedgerInv, TransferHolds
  <2>2. target' = Whole /\ part' = Absent /\ pc'[s] = "verify"
    BY <1>10, <2>1 DEF PublishCopy, UploadGoes, LedgerTypeOK
  <2>3. PartBegins'
    BY <2>2, WholeType, UploadLedgerAssumption DEF UploadLedgerAssumption, PartBegins
  <2>4. \A t \in Slot : TransferHolds(t)'
    BY <2>2 DEF OneAtATime, TransferHolds
  <2>5. QED
    BY <2>2, <2>3, <2>4 DEF LedgerInv, PublishedIsWhole, DoneIsArchived
<1>11. ASSUME NEW s \in Slot, VerifySent(s) PROVE LedgerInv'
  <2>1. UNCHANGED <<part, target, rotten, force, status>> /\ pc[s] = "verify" /\ pc'[s] \in {"good", "bad"}
    BY <1>11 DEF VerifySent, UploadGoes, LedgerTypeOK
  <2>2. pc'[s] = "good" => Archived
    BY <1>11, LooksArchived DEF VerifySent, UploadGoes, LedgerTypeOK, LedgerInv
  <2>3. TransferHolds(s)'
    BY <2>1, <2>2 DEF TransferHolds, LedgerInv, Archived
  <2>4. QED
    BY <2>1, <2>3, OneGoesOn DEF LedgerInv, DoneIsArchived, Archived
<1>12. ASSUME NEW s \in Slot, Record(s) PROVE LedgerInv'
  <2>1. UNCHANGED <<part, target, rotten>> /\ pc'[s] = "idle" /\ (status' = "done" => pc[s] = "good")
    BY <1>12 DEF Record, Outcome, TransferEnds, LedgerTypeOK
  <2>2. status' = "done" => Archived
    BY <2>1 DEF LedgerInv, TransferHolds
  <2>3. QED
    BY <2>1, <2>2, Ignorance, OneGoesOn
<1>13. CASE VerifyBegin \/ VerifyStep
  <2>1. UNCHANGED <<part, target, rotten, pc, force, at>> /\ status' \in {status, "error"}
    BY <1>13
       DEF VerifyBegin, VerifyStep, VerifyLook, VerifyHash, VerifyCondemns, VerifyEnds
  <2>2. QED
    BY <2>1 DEF LedgerInv, PartBegins, PublishedIsWhole, DoneIsArchived, TransferHolds, Archived
<1>14. CASE UploadTrouble
  <2>1. UNCHANGED <<part, target, rotten, status>>
    BY <1>14 DEF UploadTrouble, Fails, SourceLost, CancelRequest, VerifyStops, UploaderCrash
  <2>2. ASSUME NEW s \in Slot, Fails(s) \/ SourceLost(s) PROVE LedgerInv'
    <3>1. pc'[s] \in {"idle", "resume", "bad"}
      BY <2>2 DEF Fails, SourceLost, UploadGoes, TransferEnds, LedgerTypeOK
    <3>2. QED
      BY <2>1, <3>1, Ignorance, OneGoesOn DEF LedgerInv, DoneIsArchived, Archived
  <2>3. CASE UploaderCrash
    <3>1. \A s \in Slot : TransferHolds(s)'
      BY <2>3, Ignorance DEF UploaderCrash
    <3>2. QED
      BY <2>1, <3>1 DEF LedgerInv, PartBegins, PublishedIsWhole, DoneIsArchived
  <2>4. ASSUME UNCHANGED <<pc, force, at>> PROVE LedgerInv'
    BY <2>1, <2>4
       DEF LedgerInv, PartBegins, PublishedIsWhole, DoneIsArchived, TransferHolds, Archived
  <2>5. QED
    BY <1>14, <2>2, <2>3, <2>4 DEF UploadTrouble, CancelRequest, VerifyStops
<1>15. CASE Rot
  <2>1. rotten' = TRUE /\ UNCHANGED <<part, status, pc, force, at>> /\ \A s \in Slot : pc[s] = "idle"
    BY <1>15 DEF Rot, Quiet
  <2>2. \A s \in Slot : TransferHolds(s)'
    BY <2>1, Ignorance
  <2>3. QED
    BY <2>1, <2>2 DEF LedgerInv, PartBegins, PublishedIsWhole, DoneIsArchived
<1>16. CASE UNCHANGED ledgerVars
  BY <1>16
     DEF ledgerVars, LedgerInv, PartBegins, PublishedIsWhole, DoneIsArchived, TransferHolds, Archived
<1>17. QED
  BY <1>1, <1>2, <1>3, <1>4, <1>5, <1>6, <1>7, <1>8, <1>9, <1>10, <1>11, <1>12, <1>13, <1>14,
     <1>15, <1>16 DEF LedgerNext, TransferStep

LEMMA LedgerInvHolds ==
  ASSUME OneAtATime
  PROVE  LedgerSpec => []LedgerInv
<1>1. LedgerInit => LedgerInv
  BY LedgerTypeInit, WholeType, UploadLedgerAssumption
     DEF UploadLedgerAssumption, LedgerInit, LedgerInv, PartBegins, PublishedIsWhole,
         DoneIsArchived, TransferHolds
<1>2. LedgerInv /\ [LedgerNext]_ledgerVars => LedgerInv'
  BY LedgerInvStep
<1>3. QED
  BY <1>1, <1>2, PTL DEF LedgerSpec

\* The row, the files and the jobs keep their types, for any number of jobs.
THEOREM LedgerTypes == LedgerSpec => []LedgerTypeOK
  BY LedgerTypeInit, LedgerTypeStep, PTL DEF LedgerSpec

\* One job at a time: the final name never shows a partial copy or a wrong one, for any length of
\* the video, whatever the fingerprint samples.
THEOREM OnlyWholeIsPublished ==
  ASSUME OneAtATime
  PROVE  LedgerSpec => []PublishedIsWhole
<1>1. LedgerInv => PublishedIsWhole
  BY DEF LedgerInv
<1>2. QED
  BY <1>1, LedgerInvHolds, PTL

\* One job at a time: "done" stands for a copy that is or was complete.
THEOREM DoneMeansArchived ==
  ASSUME OneAtATime
  PROVE  LedgerSpec => []DoneIsArchived
<1>1. LedgerInv => DoneIsArchived
  BY DEF LedgerInv
<1>2. QED
  BY <1>1, LedgerInvHolds, PTL

\* One job at a time: a repair ends as "done" only over a copy that is right in every byte.
THEOREM RepairsAreReal ==
  ASSUME OneAtATime
  PROVE  LedgerSpec => RepairIsReal
<1> DEFINE Real == \A s \in Slot : status # "done" /\ status' = "done" /\ force[s]
                                   /\ pc[s] # "idle" /\ pc'[s] = "idle" => target = Whole
<1>1. ASSUME LedgerInv, [LedgerNext]_ledgerVars PROVE Real
  <2> SUFFICES ASSUME NEW s \in Slot, status # "done", status' = "done", force[s],
                      pc[s] # "idle", pc'[s] = "idle"
               PROVE  target = Whole
    OBVIOUS
  <2> USE DEF ledgerRow
  <2>1. \/ \E t \in Slot : RecordMatch(t)
        \/ \E t \in Slot : Record(t)
    <3>1. ASSUME NEW t \in Slot, Begin(t) \/ TransferStep(t), ~RecordMatch(t), ~Record(t) PROVE FALSE
      BY <3>1
         DEF Begin, TransferStep, Decide, StopsEarly, CheckCopy, Resume, Acquire, AlreadySent, Open,
             Copy, PublishCopy, VerifySent
    <3>2. CASE VerifyBegin \/ VerifyStep
      BY <3>2 DEF VerifyBegin, VerifyStep, VerifyLook, VerifyHash, VerifyCondemns
    <3>3. CASE UploadTrouble
      BY <3>3 DEF UploadTrouble, Fails, SourceLost, CancelRequest, VerifyStops, UploaderCrash
    <3>4. CASE Rot \/ UNCHANGED ledgerVars
      BY <3>4 DEF Rot, ledgerVars
    <3>5. QED
      BY <1>1, <3>1, <3>2, <3>3, <3>4 DEF LedgerNext
  <2>2. ASSUME NEW t \in Slot, RecordMatch(t) PROVE FALSE
    BY <1>1, <2>2 DEF OneAtATime, RecordMatch, LedgerInv, TransferHolds
  <2>3. ASSUME NEW t \in Slot, Record(t) PROVE target = Whole
    BY <1>1, <2>3 DEF OneAtATime, Record, Outcome, LedgerInv, TransferHolds
  <2>4. QED
    BY <2>1, <2>2, <2>3
<1>2. LedgerInv /\ [LedgerNext]_ledgerVars => [Real]_ledgerVars
  BY <1>1
<1>3. LedgerSpec => [][Real]_ledgerVars
  BY <1>2, LedgerInvHolds, PTL DEF LedgerSpec
<1>4. QED
  BY <1>3 DEF RepairIsReal

(***************************************************************************)
(* Destinations: for any length of the video and any number of breakdowns. *)
(***************************************************************************)

\* The partial file is the beginning of the video, as far as the next step needs it.
SentSoFar ==
  /\ Len(partial) <= Length /\ \A i \in 1 .. Len(partial) : partial[i] = i
  /\ step = "upload" => offset <= Len(partial)
  /\ step = "upload" /\ backend = "sftp" => offset = Len(partial)
  /\ step = "send" => backend = "sftp" /\ offset = Len(partial)
  /\ step = "rename" => backend = "sftp" /\ partial = Video
  /\ step = "move" => backend = "nextcloud" /\ partial = Video

\* Only SFTP takes the final file away before it renames the new one.
KeptWhole == stored => remote = Video \/ (backend = "sftp" /\ partial = Video)

DestInv == DestTypeOK /\ SentSoFar /\ KeptWhole

LEMMA VideoType ==
  /\ Video \in Seq(1 .. Length) /\ Len(Video) = Length /\ NoRemote \in Seq(1 .. Length)
  /\ Len(NoRemote) = 0 /\ \A i \in 1 .. Length : Video[i] = i
  BY DestinationsAssumption DEF DestinationsAssumption, Video, NoRemote

\* A beginning of the video that is as long as the video is the video.
LEMMA BeginningIsVideo ==
  ASSUME NEW f \in Seq(1 .. Length), Len(f) = Length, \A i \in 1 .. Len(f) : f[i] = i
  PROVE  f = Video
  BY DestinationsAssumption DEF DestinationsAssumption, Video

\* What is sent after a beginning of the video continues it.
LEMMA Continued ==
  ASSUME DestTypeOK, SentSoFar, NEW n \in offset .. Length, offset <= Len(partial)
  PROVE  LET f == SubSeq(partial, 1, offset) \o SubSeq(Video, offset + 1, n) IN
         f \in Seq(1 .. Length) /\ Len(f) = n /\ \A i \in 1 .. n : f[i] = i
<1> DEFINE f == SubSeq(partial, 1, offset)
           g == SubSeq(Video, offset + 1, n)
<1>1. offset \in Nat /\ n \in Nat /\ offset <= n /\ n <= Length /\ Length \in Nat
      /\ partial \in Seq(1 .. Length) /\ Len(partial) \in Nat
  BY DestinationsAssumption DEF DestinationsAssumption, DestTypeOK
<1>2. f \in Seq(1 .. Length) /\ Len(f) = offset /\ \A i \in 1 .. offset : f[i] = i
  <2>1. \A i \in 1 .. offset : partial[i] \in 1 .. Length /\ partial[i] = i
    BY <1>1 DEF SentSoFar
  <2>2. /\ f \in Seq(1 .. Length)
        /\ Len(f) = IF 1 <= offset THEN offset - 1 + 1 ELSE 0
        /\ \A i \in 1 .. offset - 1 + 1 : f[i] = partial[1 + i - 1]
    BY <1>1, <2>1, SubSeqProperties
  <2> HIDE DEF f
  <2>3. QED
    BY <1>1, <2>1, <2>2
<1>3. g \in Seq(1 .. Length) /\ Len(g) = n - offset /\ \A i \in 1 .. n - offset : g[i] = offset + i
  <2>1. \A i \in offset + 1 .. n : Video[i] \in 1 .. Length /\ Video[i] = i
    BY <1>1, VideoType
  <2>2. /\ g \in Seq(1 .. Length)
        /\ Len(g) = IF offset + 1 <= n THEN n - (offset + 1) + 1 ELSE 0
        /\ \A i \in 1 .. n - (offset + 1) + 1 : g[i] = Video[offset + 1 + i - 1]
    BY <1>1, <2>1, SubSeqProperties
  <2> HIDE DEF g
  <2>3. Len(g) = n - offset
    BY <1>1, <2>2
  <2>4. ASSUME NEW i \in 1 .. n - offset PROVE g[i] = offset + i
    <3>1. i \in 1 .. n - (offset + 1) + 1 /\ offset + i \in offset + 1 .. n
          /\ offset + 1 + i - 1 = offset + i
      BY <1>1
    <3>2. g[i] = Video[offset + i]
      BY <2>2, <3>1
    <3>3. QED
      BY <2>1, <3>1, <3>2
  <2>5. QED
    BY <2>2, <2>3, <2>4
<1> HIDE DEF f, g
<1>4. f \o g \in Seq(1 .. Length) /\ Len(f \o g) = n
  BY <1>1, <1>2, <1>3
<1>5. \A i \in 1 .. n : (f \o g)[i] = i
  <2> SUFFICES ASSUME NEW i \in 1 .. n PROVE (f \o g)[i] = i
    OBVIOUS
  <2>1. CASE i <= offset
    BY <1>1, <1>2, <1>3, <2>1
  <2>2. CASE ~(i <= offset)
    <3>1. i - offset \in 1 .. n - offset /\ i \in 1 .. Len(f) + Len(g) /\ ~(i <= Len(f))
      BY <1>1, <1>2, <1>3, <2>2
    <3>2. (f \o g)[i] = g[i - Len(f)]
      BY <1>2, <1>3, <3>1, ConcatProperties
    <3>3. QED
      BY <1>1, <1>2, <1>3, <3>1, <3>2
  <2>3. QED
    BY <2>1, <2>2
<1>6. QED
  BY <1>4, <1>5 DEF f, g

LEMMA DestInvInit == DestInit => DestInv
<1>1. 0 \in 0 .. MaxBreakdowns /\ 0 \in 0 .. Length /\ Length \in Nat
  BY DestinationsAssumption DEF DestinationsAssumption
<1>2. DestInit => DestTypeOK
  BY <1>1, VideoType DEF DestInit, DestTypeOK
<1>3. DestInit => SentSoFar /\ KeptWhole
  BY <1>1, VideoType DEF DestInit, SentSoFar, KeptWhole
<1>4. QED
  BY <1>2, <1>3 DEF DestInv

\* A step that leaves the two files alone.
LEMMA FilesStay ==
  ASSUME DestInv, DestTypeOK', UNCHANGED <<backend, remote, partial, stored>>, SentSoFar'
  PROVE  DestInv'
  BY DEF DestInv, KeptWhole

LEMMA BreakdownType ==
  ASSUME DestInv, UploadBreaks
  PROVE  breakdowns' \in 0 .. MaxBreakdowns
  BY DestinationsAssumption DEF DestinationsAssumption, DestInv, DestTypeOK, UploadBreaks

\* Whatever a breakdown leaves behind, it costs no whole copy.
LEMMA BreakdownKeeps ==
  ASSUME DestInv, UploadBreaks
  PROVE  DestInv'
<1>1. /\ step' \in {"offset", "idle"} /\ record' \in {record, "error"} /\ UNCHANGED <<backend, offset>>
      /\ breakdowns' \in 0 .. MaxBreakdowns
  BY BreakdownType DEF UploadBreaks
<1>2. SUFFICES ASSUME /\ remote' \in Seq(1 .. Length) /\ partial' \in Seq(1 .. Length)
                      /\ stored' \in BOOLEAN
                      /\ Len(partial') <= Length /\ \A i \in 1 .. Len(partial') : partial'[i] = i
                      /\ KeptWhole'
               PROVE  DestInv'
  <2>1. CASE Uploading("nextcloud") /\ UNCHANGED <<remote, stored>>
             /\ \E n \in offset .. Length :
                  partial' = SubSeq(partial, 1, offset) \o SubSeq(Video, offset + 1, n)
    <3>1. PICK n \in offset .. Length :
                  partial' = SubSeq(partial, 1, offset) \o SubSeq(Video, offset + 1, n)
      BY <2>1
    <3>2. /\ partial' \in Seq(1 .. Length) /\ Len(partial') = n /\ \A i \in 1 .. n : partial'[i] = i
      BY <2>1, <3>1, Continued DEF DestInv, SentSoFar, Uploading
    <3>3. Len(partial') <= Length
      BY <3>2, DestinationsAssumption DEF DestinationsAssumption, DestInv, DestTypeOK
    <3>4. QED
      BY <1>1, <1>2, <2>1, <3>2, <3>3 DEF DestInv, DestTypeOK, KeptWhole, Uploading
  <2>2. CASE Uploading("rsync") /\ ~RsyncSkips /\ UNCHANGED partial
             /\ \E n \in 1 .. Length - 1 : Store(SubSeq(Video, 1, n))
    <3>1. PICK n \in 1 .. Length - 1 : Store(SubSeq(Video, 1, n))
      BY <2>2
    <3>2. SubSeq(Video, 1, n) \in Seq(1 .. Length)
      BY VideoType, SubSeqProperties, DestinationsAssumption DEF DestinationsAssumption
    <3>3. ~stored
      BY <2>2 DEF RsyncSkips, Uploading, DestInv, KeptWhole
    <3>4. QED
      BY <1>1, <1>2, <2>2, <3>1, <3>2, <3>3
         DEF DestInv, DestTypeOK, SentSoFar, KeptWhole, Store
  <2>3. CASE UNCHANGED remoteFiles
    BY <1>1, <1>2, <2>3 DEF remoteFiles, DestInv, DestTypeOK, SentSoFar, KeptWhole
  <2>4. QED
    BY <2>1, <2>2, <2>3 DEF UploadBreaks, LeftBehind
<1>3. QED
  BY <1>1, <1>2 DEF DestInv, DestTypeOK, SentSoFar

LEMMA DestInvStep == DestInv /\ [DestNext]_destVars => DestInv'
<1> SUFFICES ASSUME DestInv, [DestNext]_destVars PROVE DestInv'
  OBVIOUS
<1>0. /\ Length \in Nat \ {0} /\ offset \in 0 .. Length /\ Len(partial) \in Nat
      /\ partial \in Seq(1 .. Length)
  BY DestinationsAssumption DEF DestinationsAssumption, DestInv, DestTypeOK
<1> USE DEF Advance, Uploading, remoteFiles
<1>1. CASE BeginUpload \/ LookAtRemote \/ VerifyRemote
  BY <1>1, FilesStay DEF BeginUpload, LookAtRemote, VerifyRemote, DestInv, DestTypeOK, SentSoFar
<1>2. CASE FindOffset
  <2>1. RemoteOffset \in 0 .. Len(partial) /\ RemoteOffset \in 0 .. Length
        /\ (backend = "sftp" => RemoteOffset = Len(partial))
    BY <1>0 DEF RemoteOffset, DestInv, SentSoFar
  <2>2. QED
    BY <1>0, <1>2, <2>1, FilesStay DEF FindOffset, DestInv, DestTypeOK, SentSoFar
<1>3. CASE SftpComplete
  BY <1>3, FilesStay DEF SftpComplete, DestInv, DestTypeOK, SentSoFar
<1>4. CASE SftpOpen
  <2>1. offset = Len(partial) /\ offset < Length /\ backend = "sftp" /\ step' = "send"
        /\ UNCHANGED <<backend, remote, stored, record, offset, breakdowns>>
        /\ partial' = IF offset > 0 THEN partial ELSE NoRemote
    BY <1>4 DEF SftpOpen, DestInv, SentSoFar
  <2>2. partial # Video
    BY <1>0, <2>1, VideoType
  <2>3. partial' \in Seq(1 .. Length) /\ Len(partial') = offset
        /\ \A i \in 1 .. Len(partial') : partial'[i] = i
    BY <1>0, <2>1, VideoType DEF DestInv, SentSoFar
  <2>4. QED
    BY <1>0, <2>1, <2>2, <2>3 DEF DestInv, DestTypeOK, SentSoFar, KeptWhole
<1>5. CASE SftpSend
  <2>1. /\ offset = Len(partial) /\ offset < Length /\ step = "send" /\ backend = "sftp"
        /\ offset' = offset + 1 /\ partial' = Append(partial, offset + 1)
        /\ UNCHANGED <<backend, remote, stored, record, step, breakdowns>>
    BY <1>5 DEF SftpSend, DestInv, SentSoFar
  <2>2. partial # Video
    BY <1>0, <2>1, VideoType
  <2>3. partial' \in Seq(1 .. Length) /\ Len(partial') = offset' /\ offset' \in 0 .. Length
        /\ \A i \in 1 .. Len(partial') : partial'[i] = i
    BY <1>0, <2>1 DEF DestInv, SentSoFar
  <2>4. QED
    BY <1>0, <2>1, <2>2, <2>3 DEF DestInv, DestTypeOK, SentSoFar, KeptWhole
<1>6. CASE SftpRemove
  <2>1. partial = Video
    BY <1>0, <1>6, BeginningIsVideo DEF SftpRemove, DestInv, SentSoFar
  <2>2. QED
    BY <1>6, <2>1, VideoType DEF SftpRemove, DestInv, DestTypeOK, SentSoFar, KeptWhole
<1>7. CASE SftpRename \/ NextcloudMove
  <2>1. partial = Video /\ remote' = Video /\ partial' = NoRemote /\ stored' = TRUE
        /\ step' = "verify" /\ UNCHANGED <<backend, record, offset, breakdowns>>
    BY <1>7 DEF SftpRename, NextcloudMove, Store, DestInv, SentSoFar
  <2>2. QED
    BY <1>0, <2>1, VideoType DEF DestInv, DestTypeOK, SentSoFar, KeptWhole
<1>8. CASE NextcloudPut
  <2>1. offset <= Len(partial) /\ Length \in offset .. Length
    BY <1>0, <1>8 DEF NextcloudPut, DestInv, SentSoFar
  <2>2. partial' \in Seq(1 .. Length) /\ Len(partial') = Length
        /\ \A i \in 1 .. Length : partial'[i] = i
    BY <1>8, <2>1, Continued DEF NextcloudPut, DestInv
  <2>3. partial' = Video
    BY <2>2, BeginningIsVideo
  <2>4. /\ backend = "nextcloud" /\ step' = "move"
        /\ UNCHANGED <<backend, remote, stored, record, offset, breakdowns>>
    BY <1>8 DEF NextcloudPut
  <2>5. DestTypeOK' /\ KeptWhole'
    BY <2>2, <2>4 DEF DestInv, DestTypeOK, KeptWhole
  <2>6. SentSoFar'
    BY <1>0, <2>2, <2>3, <2>4 DEF SentSoFar
  <2>7. QED
    BY <2>5, <2>6 DEF DestInv
<1>9. CASE NextcloudRefuses
  BY <1>0, <1>9, FilesStay DEF NextcloudRefuses, DestInv, DestTypeOK, SentSoFar
<1>10. CASE RsyncTransfer
  <2>1. remote' = Video /\ stored' \in BOOLEAN /\ step' = "verify"
        /\ UNCHANGED <<backend, partial, record, offset, breakdowns>>
    BY <1>10 DEF RsyncTransfer, RsyncSkips, Store, DestInv, DestTypeOK
  <2>2. QED
    BY <2>1, VideoType DEF DestInv, DestTypeOK, SentSoFar, KeptWhole
<1>11. CASE UploadBreaks
  BY <1>11, BreakdownKeeps
<1>12. CASE UNCHANGED destVars
  BY <1>12 DEF destVars, DestInv, DestTypeOK, SentSoFar, KeptWhole
<1>13. QED
  BY <1>1, <1>2, <1>3, <1>4, <1>5, <1>6, <1>7, <1>8, <1>9, <1>10, <1>11, <1>12 DEF DestNext

\* The files at the destination, the row and the job keep their types.
THEOREM DestTypes == DestSpec => []DestTypeOK
<1>1. DestInv => DestTypeOK
  BY DEF DestInv
<1>2. QED
  BY DestInvInit, DestInvStep, <1>1, PTL DEF DestSpec

\* For any length of the video and any number of broken transfers: what once was whole at a
\* destination stays there, under one name or the other.
THEOREM WholeCopiesStay == DestSpec => []StoredSurvives
<1>1. DestInv => StoredSurvives
  BY DEF DestInv, KeptWhole, StoredSurvives
<1>2. QED
  BY DestInvInit, DestInvStep, <1>1, PTL DEF DestSpec

(***************************************************************************)
(* Archive: what a row or a job remembers of a file is bound to the file's *)
(* inode and times, and whatever changes a file gives it a time that       *)
(* nobody remembers yet.                                                   *)
(***************************************************************************)

NasFile == [content : Contents, mtime : Clock, ctime : Clock]
Wear == [changes : 0..MaxArchiveChanges, clock : Clock, outages : 0..MaxUnmounts]
Job  == [kind : {"none", "archive_scan", "archive_verify", "archive_hardlink"},
         pc : {"idle", "queued", "walks", "samples", "hashes", "commits", "compares", "links",
               "replaces", "refreshes"},
         todo : SUBSET Names, seen : SUBSET Names, active : SUBSET Names, blind : BOOLEAN,
         report : [Names -> Row], digest : [Names -> Contents \cup {Nothing}],
         keeper : Names \cup {Nothing}, target : Names \cup {Nothing}, old : 0..MaxInode]

FilesOK ==
  /\ name \in [Names -> 0..MaxInode] /\ temp \in 0..MaxInode /\ mounted \in BOOLEAN
  /\ file \in [Inodes -> NasFile] /\ archiving \in [Names -> {"done", "begun", "sent"}] /\ wear \in Wear
  /\ \A i \in Inodes : file[i].mtime <= wear.clock /\ file[i].ctime <= wear.clock

\* Hash h is that of the file with the identity of row r, where one of files f has it.
Vouches(f, r, h) ==
  (r.inode \in Inodes /\ r.mtime = f[r.inode].mtime /\ r.ctime = f[r.inode].ctime /\ h # Nothing)
    => f[r.inode].content = h

\* A row that an earlier look has written.
Recorded(f, clock, r) == r \in Row /\ r.mtime <= clock /\ r.ctime <= clock /\ Vouches(f, r, r.full)
RowsOK(f, clock, rows) ==
  rows \in [Names -> Row] /\ \A n \in Names : Recorded(f, clock, rows[n])

JobOK ==
  /\ job \in Job /\ RowsOK(file, wear.clock, job.report)
  /\ \A n \in Names : Vouches(file, job.report[n], job.digest[n])
  /\ job.pc \notin {"hashes", "commits"} => \A n \in Names : job.digest[n] = Nothing
  /\ job.blind => job.pc = "walks" /\ ~mounted

\* From the comparison on, the kept file and the duplicate are equal unless one was written.
PairOK ==
  LET k == job.report[job.keeper] n == job.report[job.target] IN
  /\ job.target \in Names /\ k.inode \in Inodes /\ n.inode \in Inodes /\ job.old = n.inode
  /\ (k.mtime = file[k.inode].mtime /\ n.mtime = file[n.inode].mtime) =>
       file[k.inode].content = file[n.inode].content
  /\ (k.mtime = file[k.inode].mtime /\ k.full # Nothing) => file[k.inode].content = k.full

Linking == \/ job.pc = "queued" /\ job.kind = "archive_hardlink"
           \/ job.pc \in {"compares", "links", "replaces", "refreshes"}
LinkOK ==
  /\ Linking =>
       /\ job.keeper \in Names
       /\ \A n \in Names : inventory[n].full \in {Nothing, job.report[n].full}
  /\ job.pc \in {"links", "replaces", "refreshes"} => PairOK
  /\ job.pc = "refreshes" =>
       LET k == job.report[job.keeper] n == job.report[job.target] IN
       /\ k.mtime = file[k.inode].mtime /\ n.mtime = file[n.inode].mtime
       /\ name[job.target] = k.inode

ArchiveInv == FilesOK /\ RowsOK(file, wear.clock, inventory) /\ JobOK /\ LinkOK

LEMMA ClockIsNat == \E N \in Nat : Clock = 0..N
<1>1. Cardinality(Names) \in Nat
  BY ArchiveAssumption, FS_CardinalityType DEF ArchiveAssumption
<1>2. MaxArchiveChanges + 3 * Cardinality(Names) \in Nat
  BY <1>1, ArchiveAssumption DEF ArchiveAssumption
<1>3. QED
  BY <1>2 DEF Clock

\* Nothing is of the time that the next change gets.
LEMMA ElapsedRow ==
  ASSUME FilesOK, wear'.clock = Now, Now \in Clock,
         file' \in [Inodes -> NasFile],
         \A i \in Inodes : file'[i] = file[i] \/ file'[i].ctime = Now,
         NEW r, Recorded(file, wear.clock, r)
  PROVE  /\ Recorded(file', wear'.clock, r)
         /\ \A h : Vouches(file, r, h) => Vouches(file', r, h)
         /\ \A i \in Inodes : file'[i].mtime = Now => file'[i].mtime # r.mtime
<1>1. PICK N \in Nat : Clock = 0..N
  BY ClockIsNat
<1>2. wear.clock \in 0..N /\ r.mtime \in 0..N /\ r.ctime \in 0..N
  BY <1>1 DEF FilesOK, Wear, Recorded, Row
<1>3. r.mtime < Now /\ r.ctime < Now /\ r \in Row /\ Vouches(file, r, r.full)
  BY <1>2 DEF Recorded, Now
<1>4. \A i \in Inodes : file'[i].ctime = r.ctime => file'[i] = file[i]
  BY <1>2, <1>3
<1>5. \A h : Vouches(file, r, h) => Vouches(file', r, h)
  BY <1>4 DEF Vouches
<1>6. r.mtime <= Now /\ r.ctime <= Now
  BY <1>2, <1>3 DEF Now
<1>7. QED
  BY <1>2, <1>3, <1>5, <1>6 DEF Recorded

\* What one stat makes of a row.
LEMMA StatedRow ==
  ASSUME FilesOK, NEW n \in Names, name[n] # 0, NEW r, Recorded(file, wear.clock, r), NEW active \in BOOLEAN
  PROVE  /\ Recorded(file, wear.clock, Updated(r, n, active))
         /\ Updated(r, n, active).full \in {Nothing, r.full}
         /\ Updated(r, n, active).inode = name[n] /\ name[n] \in Inodes
         /\ Updated(r, n, active).mtime = file[name[n]].mtime /\ Updated(r, n, active).ctime = file[name[n]].ctime
<1> DEFINE u == Updated(r, n, active)
           keeps == ChecksKept(r, n, active)
<1>1. name[n] \in Inodes /\ name[n] \in 0..MaxInode
  BY DEF FilesOK, Inodes
<1>2. file[name[n]] \in NasFile /\ file[name[n]].mtime <= wear.clock /\ file[name[n]].ctime <= wear.clock
  BY <1>1 DEF FilesOK
<1>3. r \in Row /\ Vouches(file, r, r.full)
  BY DEF Recorded
<1>4. keeps \in BOOLEAN /\ (keeps => Matches(r, n))
  BY <1>3 DEF ChecksKept, Matches, Row
<1>5. u = [present |-> TRUE, eligible |-> ~active, inode |-> name[n], mtime |-> file[name[n]].mtime,
           ctime |-> file[name[n]].ctime, sample |-> keeps /\ r.sample,
           full |-> IF keeps THEN r.full ELSE Nothing]
  BY DEF Updated
<1> HIDE DEF u, keeps
<1>6. u \in Row
  BY <1>1, <1>2, <1>3, <1>4, <1>5 DEF Row, NasFile
<1>7. Vouches(file, u, u.full)
  BY <1>1, <1>3, <1>4, <1>5 DEF Vouches, Matches
<1>8. QED
  BY <1>1, <1>2, <1>5, <1>6, <1>7 DEF Recorded, u

\* A row that keeps its identity and loses its hash, or keeps it.
LEMMA RestatedRow ==
  ASSUME NEW f, NEW clock, NEW r, Recorded(f, clock, r), NEW s \in Row,
         s.inode = r.inode, s.mtime = r.mtime, s.ctime = r.ctime, s.full = Nothing \/ Vouches(f, r, s.full)
  PROVE  Recorded(f, clock, s)
  BY DEF Recorded, Vouches

LEMMA RowsElapse ==
  ASSUME FilesOK, wear'.clock = Now, Now \in Clock, file' \in [Inodes -> NasFile],
         \A i \in Inodes : file'[i] = file[i] \/ file'[i].ctime = Now,
         NEW rows, RowsOK(file, wear.clock, rows)
  PROVE  RowsOK(file', wear'.clock, rows)
  BY ElapsedRow DEF RowsOK

(***************************************************************************)
(* Steps of the others while a job stands where it stands                  *)
(***************************************************************************)

\* No file changes.
LEMMA JobWaits ==
  ASSUME FilesOK, JobOK, LinkOK, UNCHANGED <<file, job>>, wear'.clock = wear.clock,
         job.pc = "refreshes" => UNCHANGED name, job.blind => UNCHANGED mounted,
         \A n \in Names : inventory'[n].full \in {Nothing, inventory[n].full}
  PROVE  JobOK' /\ LinkOK'
<1>1. JobOK'
  BY DEF JobOK, RowsOK, Recorded, Vouches
<1>2. PairOK => PairOK'
  BY DEF PairOK
<1>3. Linking' <=> Linking
  BY DEF Linking
<1>4. Linking => \A n \in Names : inventory'[n].full \in {Nothing, job.report[n].full}
  BY DEF LinkOK
<1>5. QED
  BY <1>1, <1>2, <1>3, <1>4 DEF LinkOK

\* A file changes that no link is waiting for, or its time does.
LEMMA JobWitnesses ==
  ASSUME FilesOK, JobOK, LinkOK, UNCHANGED <<job, mounted, inventory>>, job.pc # "refreshes",
         wear'.clock = Now, Now \in Clock, file' \in [Inodes -> NasFile],
         \A i \in Inodes : file'[i] = file[i] \/ file'[i].ctime = Now,
         \A i \in Inodes : file'[i] = file[i] \/ file'[i].mtime = Now \/ i \notin HeldOpen
  PROVE  JobOK' /\ LinkOK'
<1>1. \A n \in Names : Recorded(file, wear.clock, job.report[n])
  BY DEF JobOK, RowsOK
<1>2. \A n \in Names : /\ Recorded(file', wear'.clock, job.report[n])
                       /\ Vouches(file', job.report[n], job.digest[n])
                       /\ \A i \in Inodes : file'[i].mtime = Now => file'[i].mtime # job.report[n].mtime
  BY <1>1, ElapsedRow DEF JobOK
<1>3. JobOK'
  BY <1>2 DEF JobOK, RowsOK
<1>4. ASSUME job.pc \in {"links", "replaces"}, job.keeper \in Names, PairOK PROVE PairOK'
  <2> DEFINE k == job.report[job.keeper]
             n == job.report[job.target]
  <2>1. HeldOpen = {k.inode, n.inode}
    BY <1>4 DEF HeldOpen
  <2>2. job.target \in Names /\ k.inode \in Inodes /\ n.inode \in Inodes
    BY <1>4 DEF PairOK
  <2>3. /\ file'[k.inode] = file[k.inode] \/ k.mtime # file'[k.inode].mtime
        /\ file'[n.inode] = file[n.inode] \/ n.mtime # file'[n.inode].mtime
    BY <1>2, <1>4, <2>1, <2>2
  <2>4. QED
    BY <1>4, <2>2, <2>3 DEF PairOK
<1>5. Linking' <=> Linking
  BY DEF Linking
<1>6. QED
  BY <1>3, <1>4, <1>5 DEF LinkOK, Linking

LEMMA FilesElapse ==
  ASSUME FilesOK, wear' \in Wear, wear'.clock = Now, name' \in [Names -> 0..MaxInode], temp' \in 0..MaxInode,
         mounted' \in BOOLEAN, archiving' \in [Names -> {"done", "begun", "sent"}], file' \in [Inodes -> NasFile],
         \A i \in Inodes : file'[i] = file[i] \/ (file'[i].ctime = Now /\ file'[i].mtime <= Now)
  PROVE  FilesOK'
<1>1. PICK N \in Nat : Clock = 0..N
  BY ClockIsNat
<1>2. wear.clock \in 0..N /\ \A i \in Inodes : file[i].mtime \in 0..N /\ file[i].ctime \in 0..N
  BY <1>1 DEF FilesOK, Wear, NasFile
<1>3. Now \in Nat /\ \A i \in Inodes : file[i].mtime <= Now /\ file[i].ctime <= Now
  BY <1>2 DEF FilesOK, Now
<1>4. \A i \in Inodes : file'[i].mtime <= wear'.clock /\ file'[i].ctime <= wear'.clock
  BY <1>3
<1>5. QED
  BY <1>4 DEF FilesOK

LEMMA WearGrows ==
  ASSUME FilesOK
  PROVE  /\ wear.changes < MaxArchiveChanges /\ Now \in Clock =>
              [wear EXCEPT !.changes = @ + 1, !.clock = Now] \in Wear
         /\ wear.changes < MaxArchiveChanges => [wear EXCEPT !.changes = @ + 1] \in Wear
         /\ wear.outages < MaxUnmounts => [wear EXCEPT !.outages = @ + 1] \in Wear
         /\ Now \in Clock => [wear EXCEPT !.clock = Now] \in Wear
<1>1. wear \in Wear
  BY DEF FilesOK
<1>2. wear.changes < MaxArchiveChanges => wear.changes + 1 \in 0..MaxArchiveChanges
  BY <1>1, ArchiveAssumption DEF ArchiveAssumption, Wear
<1>3. wear.outages < MaxUnmounts => wear.outages + 1 \in 0..MaxUnmounts
  BY <1>1, ArchiveAssumption DEF ArchiveAssumption, Wear
<1>4. QED
  BY <1>1, <1>2, <1>3 DEF Wear

LEMMA NoTimeAtAll == 0 \in Clock /\ (FilesOK => 0 <= wear.clock /\ wear.clock \in Nat /\ 0 <= Now /\ Now \in Nat)
<1>1. PICK N \in Nat : Clock = 0..N
  BY ClockIsNat
<1>2. 0 \in Clock
  BY <1>1
<1>3. ASSUME FilesOK PROVE wear.clock \in 0..N
  BY <1>1, <1>3 DEF FilesOK, Wear
<1>4. QED
  BY <1>2, <1>3 DEF Now

LEMMA ClockStarted == FilesOK => 0 <= wear.clock
  BY NoTimeAtAll

\* A file of another inode takes a name.
LEMMA PlacedKeeps ==
  ASSUME ArchiveInv, NEW n \in Names, NEW c \in Contents, Placed(n, c), job.pc # "refreshes",
         wear' \in Wear, wear'.clock = Now, UNCHANGED <<temp, mounted, inventory, job>>,
         archiving' \in [Names -> {"done", "begun", "sent"}]
  PROVE  ArchiveInv'
<1>0. FilesOK /\ RowsOK(file, wear.clock, inventory) /\ JobOK /\ LinkOK /\ Now \in Clock
  BY DEF ArchiveInv, Wear
<1>1. PICK i \in Free : /\ name' = [name EXCEPT ![n] = i]
                        /\ file' = [file EXCEPT ![i] = [content |-> c, mtime |-> 0, ctime |-> Now]]
  BY DEF Placed
<1>2. i \in Inodes \ HeldOpen /\ i \in 0..MaxInode
  BY DEF Free, Inodes
<1>3. name' \in [Names -> 0..MaxInode]
  BY <1>0, <1>1, <1>2 DEF FilesOK
<1>4. [content |-> c, mtime |-> 0, ctime |-> Now] \in NasFile
  BY <1>0, NoTimeAtAll DEF NasFile
<1>5. file' \in [Inodes -> NasFile] /\ \A o \in Inodes : file'[o] = file[o] \/ (o = i /\ file'[o].ctime = Now /\ file'[o].mtime = 0)
  BY <1>0, <1>1, <1>2, <1>4 DEF FilesOK
<1>6. \A o \in Inodes : file'[o] = file[o] \/ (file'[o].ctime = Now /\ file'[o].mtime <= Now)
  BY <1>0, <1>5, NoTimeAtAll
<1>7. mounted' \in BOOLEAN /\ temp' \in 0..MaxInode
  BY <1>0 DEF FilesOK
<1>8. FilesOK'
  BY <1>0, <1>3, <1>5, <1>6, <1>7, FilesElapse
<1>9. RowsOK(file', wear'.clock, inventory)
  BY <1>0, <1>5, RowsElapse
<1>10. JobOK' /\ LinkOK'
  <2>1. /\ \A o \in Inodes : file'[o] = file[o] \/ file'[o].ctime = Now
        /\ \A o \in Inodes : file'[o] = file[o] \/ file'[o].mtime = Now \/ o \notin HeldOpen
    BY <1>2, <1>5
  <2>2. QED
    BY <1>0, <1>5, <2>1, JobWitnesses
<1>11. QED
  BY <1>8, <1>9, <1>10 DEF ArchiveInv

LEMMA OthersKeep ==
  ASSUME ArchiveInv,
         \/ Unmount \/ Mount
         \/ \E n \in Names : ClientRemoves(n) \/ UploadBegins(n) \/ UploadRecords(n)
         \/ \E n \in Names, c \in Contents : ClientWrites(n, c) \/ ClientReplaces(n, c) \/ UploadPublishes(n, c)
  PROVE  ArchiveInv'
<1> USE DEF nas
<1>0. FilesOK /\ RowsOK(file, wear.clock, inventory) /\ JobOK /\ LinkOK
  BY DEF ArchiveInv
\* Neither a file nor a time changes.
<1>a. ASSUME UNCHANGED <<nas, job, inventory>>, wear' \in Wear, wear'.clock = wear.clock, mounted' \in BOOLEAN,
             job.blind => UNCHANGED mounted, archiving' \in [Names -> {"done", "begun", "sent"}]
      PROVE  ArchiveInv'
  <2>1. FilesOK'
    BY <1>0, <1>a DEF FilesOK
  <2>2. RowsOK(file', wear'.clock, inventory')
    BY <1>0, <1>a
  <2>3. \A n \in Names : inventory'[n].full \in {Nothing, inventory[n].full}
    BY <1>a
  <2>4. JobOK' /\ LinkOK'
    BY <1>0, <1>a, <2>3, JobWaits
  <2>5. QED
    BY <2>1, <2>2, <2>4 DEF ArchiveInv
<1>1. CASE Unmount
  <2>1. wear.outages < MaxUnmounts /\ wear' = [wear EXCEPT !.outages = @ + 1] /\ mounted' = FALSE
        /\ UNCHANGED <<nas, archiving, inventory, job>>
    BY <1>1 DEF Unmount, Outage
  <2>2. wear' \in Wear /\ wear'.clock = wear.clock
    BY <1>0, <2>1, WearGrows DEF FilesOK, Wear
  <2>3. job.blind => UNCHANGED mounted
    BY <1>0, <2>1 DEF JobOK, FilesOK
  <2>4. QED
    BY <1>0, <1>a, <2>1, <2>2, <2>3 DEF FilesOK
<1>2. CASE Mount
  <2>1. mounted' = TRUE /\ job.pc # "walks" /\ UNCHANGED <<nas, archiving, inventory, job, wear>>
    BY <1>2 DEF Mount
  <2>2. ~job.blind
    BY <1>0, <2>1 DEF JobOK
  <2>3. QED
    BY <1>0, <1>a, <2>1, <2>2 DEF FilesOK
<1>3. ASSUME NEW n \in Names, ClientRemoves(n) PROVE ArchiveInv'
  <2>1. /\ job.pc # "refreshes" /\ wear.changes < MaxArchiveChanges /\ Now \in Clock
        /\ wear' = [wear EXCEPT !.changes = @ + 1, !.clock = Now] /\ name' = [name EXCEPT ![n] = 0]
        /\ UNCHANGED <<file, temp, mounted, archiving, inventory, job>>
    BY <1>3 DEF ClientRemoves, Changes
  <2>2. wear' \in Wear /\ wear'.clock = Now
    BY <1>0, <2>1, WearGrows DEF FilesOK, Wear
  <2>3. name' \in [Names -> 0..MaxInode] /\ file' \in [Inodes -> NasFile]
    BY <1>0, <2>1, ArchiveAssumption DEF FilesOK, ArchiveAssumption
  <2>4. FilesOK'
    BY <1>0, <2>1, <2>2, <2>3, FilesElapse DEF FilesOK
  <2>5. RowsOK(file', wear'.clock, inventory)
    BY <1>0, <2>1, <2>2, <2>3, RowsElapse
  <2>6. JobOK' /\ LinkOK'
    <3>1. /\ \A o \in Inodes : file'[o] = file[o] \/ file'[o].ctime = Now
          /\ \A o \in Inodes : file'[o] = file[o] \/ file'[o].mtime = Now \/ o \notin HeldOpen
      BY <2>1
    <3>2. QED
      BY <1>0, <2>1, <2>2, <2>3, <3>1, JobWitnesses
  <2>7. QED
    BY <2>1, <2>4, <2>5, <2>6 DEF ArchiveInv
<1>4. ASSUME NEW n \in Names, UploadBegins(n) PROVE ArchiveInv'
  <2>1. wear.changes < MaxArchiveChanges /\ wear' = [wear EXCEPT !.changes = @ + 1]
        /\ archiving' = [archiving EXCEPT ![n] = "begun"] /\ UNCHANGED <<nas, mounted, inventory, job>>
    BY <1>4 DEF UploadBegins
  <2>2. wear' \in Wear /\ wear'.clock = wear.clock
    BY <1>0, <2>1, WearGrows DEF FilesOK, Wear
  <2>3. QED
    BY <1>0, <1>a, <2>1, <2>2 DEF FilesOK
<1>5. ASSUME NEW n \in Names, UploadRecords(n) PROVE ArchiveInv'
  <2>1. archiving' = [archiving EXCEPT ![n] = "done"] /\ UNCHANGED <<nas, mounted, job, wear>>
    BY <1>5 DEF UploadRecords
  <2>2. CASE inventory' = inventory
    BY <1>0, <1>a, <2>1, <2>2 DEF FilesOK
  <2>3. CASE mounted /\ name[n] # 0 /\ inventory' = [inventory EXCEPT ![n] = Updated(@, n, FALSE)]
    <3> DEFINE u == Updated(inventory[n], n, FALSE)
    <3>1. Recorded(file, wear.clock, inventory[n])
      BY <1>0 DEF RowsOK
    <3>2. Recorded(file, wear.clock, u) /\ u.full \in {Nothing, inventory[n].full}
      BY <1>0, <2>3, <3>1, StatedRow
    <3>3. inventory' = [inventory EXCEPT ![n] = u]
      BY <2>3
    <3> HIDE DEF u
    <3>4. RowsOK(file, wear.clock, inventory') /\ \A m \in Names : inventory'[m].full \in {Nothing, inventory[m].full}
      BY <1>0, <3>2, <3>3 DEF RowsOK, Recorded
    <3>5. RowsOK(file', wear'.clock, inventory')
      BY <2>1, <3>4
    <3>6. FilesOK'
      BY <1>0, <2>1 DEF FilesOK
    <3>7. JobOK' /\ LinkOK'
      BY <1>0, <2>1, <3>4, JobWaits
    <3>8. QED
      BY <3>5, <3>6, <3>7 DEF ArchiveInv
  <2>4. QED
    BY <1>5, <2>2, <2>3 DEF UploadRecords
<1>6. ASSUME NEW n \in Names, NEW c \in Contents, ClientWrites(n, c) PROVE ArchiveInv'
  <2> DEFINE i == name[n]
             f == [content |-> c, mtime |-> Now, ctime |-> Now]
  <2>1. /\ job.pc # "refreshes" /\ wear.changes < MaxArchiveChanges /\ Now \in Clock /\ i # 0
        /\ wear' = [wear EXCEPT !.changes = @ + 1, !.clock = Now] /\ file' = [file EXCEPT ![i] = f]
        /\ UNCHANGED <<name, temp, mounted, archiving, inventory, job>>
    BY <1>6 DEF ClientWrites, Changes
  <2>2. wear' \in Wear /\ wear'.clock = Now
    BY <1>0, <2>1, WearGrows DEF FilesOK, Wear
  <2>3. i \in Inodes
    BY <1>0, <2>1 DEF FilesOK, Inodes
  <2>4. f \in NasFile
    BY <2>1 DEF NasFile
  <2>5. file' \in [Inodes -> NasFile] /\ \A o \in Inodes : file'[o] = file[o] \/ (file'[o].ctime = Now /\ file'[o].mtime = Now)
    BY <1>0, <2>1, <2>3, <2>4 DEF FilesOK
  <2>6. \A o \in Inodes : file'[o] = file[o] \/ (file'[o].ctime = Now /\ file'[o].mtime <= Now)
    BY <1>0, <2>5, NoTimeAtAll
  <2>7. FilesOK'
    BY <1>0, <2>1, <2>2, <2>5, <2>6, FilesElapse DEF FilesOK
  <2>8. RowsOK(file', wear'.clock, inventory)
    BY <1>0, <2>1, <2>2, <2>5, RowsElapse
  <2>9. JobOK' /\ LinkOK'
    <3>1. /\ \A o \in Inodes : file'[o] = file[o] \/ file'[o].ctime = Now
          /\ \A o \in Inodes : file'[o] = file[o] \/ file'[o].mtime = Now \/ o \notin HeldOpen
      BY <2>5
    <3>2. QED
      BY <1>0, <2>1, <2>2, <2>5, <3>1, JobWitnesses
  <2>10. QED
    BY <2>1, <2>7, <2>8, <2>9 DEF ArchiveInv
<1>7. ASSUME NEW n \in Names, NEW c \in Contents, ClientReplaces(n, c) PROVE ArchiveInv'
  <2>1. /\ job.pc # "refreshes" /\ wear.changes < MaxArchiveChanges /\ Now \in Clock /\ Placed(n, c)
        /\ wear' = [wear EXCEPT !.changes = @ + 1, !.clock = Now]
        /\ UNCHANGED <<temp, mounted, archiving, inventory, job>>
    BY <1>7 DEF ClientReplaces, Changes
  <2>2. wear' \in Wear /\ wear'.clock = Now
    BY <1>0, <2>1, WearGrows DEF FilesOK, Wear
  <2>3. QED
    BY <1>0, <2>1, <2>2, PlacedKeeps DEF FilesOK
<1>8. ASSUME NEW n \in Names, NEW c \in Contents, UploadPublishes(n, c) PROVE ArchiveInv'
  <2>1. /\ job.pc \in {"idle", "queued"} /\ Placed(n, c) /\ Now \in Clock /\ wear' = [wear EXCEPT !.clock = Now]
        /\ archiving' = [archiving EXCEPT ![n] = "sent"] /\ UNCHANGED <<temp, mounted, inventory, job>>
    BY <1>8 DEF UploadPublishes, ClockTicks
  <2>2. wear' \in Wear /\ wear'.clock = Now
    BY <1>0, <2>1, WearGrows DEF FilesOK, Wear
  <2>3. QED
    BY <1>0, <2>1, <2>2, PlacedKeeps DEF FilesOK
<1>9. QED
  BY <1>1, <1>2, <1>3, <1>4, <1>5, <1>6, <1>7, <1>8

(***************************************************************************)
(* Steps of the job                                                        *)
(***************************************************************************)

\* The job ends, or is over with the process.
LEMMA JobGone ==
  ASSUME FilesOK', job' = NoJob(Unread), Nothing \notin Contents
  PROVE  JobOK' /\ LinkOK'
<1>1. Unlisted \in Row /\ Unlisted.inode = 0 /\ Unlisted.mtime = 0 /\ Unlisted.ctime = 0
  BY NoTimeAtAll, ArchiveAssumption DEF Unlisted, Row, ArchiveAssumption
<1>2. (FilesOK => 0 <= wear.clock)'
  BY ClockStarted, PTL
<1>3. Recorded(file', wear'.clock, Unlisted)
  BY <1>1, <1>2 DEF Recorded, Vouches, Inodes
<1>4. /\ job'.report = Unread /\ job'.pc = "idle" /\ job'.kind = "none" /\ ~job'.blind
      /\ job'.digest = [n \in Names |-> Nothing]
  BY DEF NoJob
<1>5. job' \in Job
  BY <1>1, ArchiveAssumption DEF NoJob, Job, Unread, ArchiveAssumption
<1>6. RowsOK(file', wear'.clock, Unread)
  BY <1>1, <1>3 DEF RowsOK, Unread
<1>7. JobOK'
  BY <1>4, <1>5, <1>6 DEF JobOK, Vouches
<1>8. QED
  BY <1>4, <1>7 DEF LinkOK, Linking

LEMMA JobLeaves ==
  ASSUME ArchiveInv, job' = NoJob(Unread), UNCHANGED <<nas, mounted, archiving, inventory>>,
         wear' \in Wear, wear'.clock = wear.clock
  PROVE  ArchiveInv'
<1>1. FilesOK' /\ RowsOK(file', wear'.clock, inventory')
  BY DEF ArchiveInv, FilesOK, nas
<1>2. JobOK' /\ LinkOK'
  BY <1>1, JobGone, ArchiveAssumption DEF ArchiveAssumption
<1>3. QED
  BY <1>1, <1>2 DEF ArchiveInv

\* The job goes from one point to another that is none of a link, with the report it has.
LEMMA JobMoves ==
  ASSUME ArchiveInv, UNCHANGED <<nas, mounted, archiving, inventory, wear>>, job' \in Job,
         job'.report = job.report, ~Linking', job'.pc \notin {"links", "replaces", "refreshes"},
         \A n \in Names : Vouches(file, job.report[n], job'.digest[n]),
         job'.pc \notin {"hashes", "commits"} => \A n \in Names : job'.digest[n] = Nothing,
         job'.blind => job'.pc = "walks" /\ ~mounted
  PROVE  ArchiveInv'
<1>1. FilesOK' /\ RowsOK(file', wear'.clock, inventory') /\ RowsOK(file', wear'.clock, job'.report)
  BY DEF ArchiveInv, FilesOK, JobOK, nas
<1>2. JobOK'
  BY <1>1 DEF JobOK, nas
<1>3. QED
  BY <1>1, <1>2 DEF ArchiveInv, LinkOK

LEMMA EnqueueKeeps ==
  ASSUME ArchiveInv, NEW kind \in {"archive_scan", "archive_verify", "archive_hardlink"}, NEW group \in SUBSET Names,
         NEW keeper \in Names \cup {Nothing}, Enqueue(kind, group, keeper)
  PROVE  ArchiveInv'
<1>0. FilesOK /\ RowsOK(file, wear.clock, inventory) /\ JobOK /\ LinkOK
  BY DEF ArchiveInv
<1>1. /\ job' = [NoJob(inventory) EXCEPT !.kind = kind, !.pc = "queued", !.todo = group, !.keeper = keeper]
      /\ UNCHANGED <<nas, mounted, archiving, inventory, wear>> /\ (kind = "archive_hardlink" => keeper \in group)
  BY DEF Enqueue
<1>2. inventory \in [Names -> Row]
  BY <1>0 DEF RowsOK
<1>3. /\ job'.kind = kind /\ job'.pc = "queued" /\ job'.report = inventory /\ job'.keeper = keeper
      /\ job'.digest = [n \in Names |-> Nothing] /\ ~job'.blind
  BY <1>1 DEF NoJob
<1>4. job' \in Job
  <2>1. NoJob(inventory) \in Job
    BY <1>2, ArchiveAssumption DEF NoJob, Job, ArchiveAssumption
  <2>2. QED
    BY <1>1, <2>1 DEF Job
<1>5. FilesOK' /\ RowsOK(file', wear'.clock, inventory')
  BY <1>0, <1>1 DEF FilesOK, nas
<1>6. JobOK'
  BY <1>1, <1>3, <1>4, <1>5 DEF JobOK, Vouches
<1>7. LinkOK'
  BY <1>1, <1>3 DEF LinkOK, Linking
<1>8. QED
  BY <1>5, <1>6, <1>7 DEF ArchiveInv

(***************************************************************************)
(* run_scan and run_verify                                                 *)
(***************************************************************************)

LEMMA ScanKeeps ==
  ASSUME ArchiveInv,
         ScanBegins \/ ScanMarksMissing \/ ScanEnds \/ \E n \in Names : ScanVisits(n) \/ ScanSamples(n)
  PROVE  ArchiveInv'
<1>0. /\ FilesOK /\ RowsOK(file, wear.clock, inventory) /\ JobOK /\ LinkOK /\ job \in Job
      /\ inventory \in [Names -> Row] /\ \A n \in Names : Recorded(file, wear.clock, inventory[n])
  BY DEF ArchiveInv, JobOK, RowsOK
\* Rows change, while the files stay as they are.
<1>a. ASSUME UNCHANGED <<nas, mounted, archiving, wear>>, job' \in Job, job'.pc \in {"walks", "samples"},
             job.pc \in {"walks", "samples"}, job'.digest = job.digest, job'.kind = job.kind,
             RowsOK(file, wear.clock, inventory'), RowsOK(file, wear.clock, job'.report),
             job'.blind => job'.pc = "walks" /\ ~mounted
      PROVE  ArchiveInv'
  <2>1. FilesOK' /\ RowsOK(file', wear'.clock, inventory') /\ RowsOK(file', wear'.clock, job'.report)
    BY <1>0, <1>a DEF FilesOK, nas
  <2>2. \A n \in Names : job'.digest[n] = Nothing
    BY <1>0, <1>a DEF JobOK
  <2>3. JobOK'
    BY <1>a, <2>1, <2>2 DEF JobOK, Vouches, nas
  <2>4. LinkOK'
    BY <1>a DEF LinkOK, Linking
  <2>5. QED
    BY <2>1, <2>3, <2>4 DEF ArchiveInv
<1>1. CASE ScanBegins
  <2>1. /\ job.kind = "archive_scan" /\ job.pc = "queued" /\ UNCHANGED <<nas, mounted, archiving, inventory, wear>>
        /\ job' = [job EXCEPT !.pc = "walks", !.todo = Names, !.active = Arriving]
    BY <1>1 DEF ScanBegins
  <2>2. Arriving \subseteq Names
    BY DEF Arriving
  <2>3. /\ job' \in Job /\ job'.pc = "walks" /\ job'.report = job.report /\ job'.digest = job.digest
        /\ job'.blind = job.blind
    BY <1>0, <2>1, <2>2 DEF Job
  <2>4. ~job.blind /\ \A n \in Names : job.digest[n] = Nothing
    BY <1>0, <2>1 DEF JobOK
  <2>5. QED
    BY <2>1, <2>3, <2>4, JobMoves DEF Linking, Vouches
<1>2. ASSUME NEW n \in Names, ScanVisits(n) PROVE ArchiveInv'
  <2>1. job.pc = "walks" /\ UNCHANGED <<nas, mounted, archiving, wear>>
    BY <1>2 DEF ScanVisits
  <2>2. CASE /\ mounted /\ name[n] # 0 /\ inventory' = [inventory EXCEPT ![n] = Updated(@, n, n \in job.active)]
             /\ job' = [job EXCEPT !.todo = @ \ {n}, !.seen = @ \cup {n}]
    <3> DEFINE u == Updated(inventory[n], n, n \in job.active)
    <3>0. Recorded(file, wear.clock, inventory[n]) /\ (n \in job.active) \in BOOLEAN /\ name[n] # 0
      BY <1>0, <2>2
    <3>1. Recorded(file, wear.clock, u)
      BY <1>0, <3>0, StatedRow
    <3>2. inventory' = [inventory EXCEPT ![n] = u]
      BY <2>2
    <3> HIDE DEF u
    <3>3. RowsOK(file, wear.clock, inventory')
      BY <1>0, <3>1, <3>2 DEF RowsOK, Recorded
    <3>4. /\ job' \in Job /\ job'.pc = "walks" /\ job'.report = job.report /\ job'.digest = job.digest
          /\ job'.blind = job.blind /\ job'.kind = job.kind
      BY <1>0, <2>1, <2>2 DEF Job
    <3>5. QED
      BY <1>0, <1>a, <2>1, <3>3, <3>4 DEF JobOK
  <2>3. CASE job' = [job EXCEPT !.todo = @ \ {n}, !.blind = @ \/ ~mounted] /\ UNCHANGED inventory
    <3>1. /\ job' \in Job /\ job'.pc = "walks" /\ job'.report = job.report /\ job'.digest = job.digest
          /\ job'.blind = (job.blind \/ ~mounted) /\ job'.kind = job.kind
      BY <1>0, <2>1, <2>3 DEF Job
    <3>2. QED
      BY <1>0, <1>a, <2>1, <2>3, <3>1 DEF JobOK
  <2>4. QED
    BY <1>2, <2>2, <2>3 DEF ScanVisits
<1>3. CASE ScanMarksMissing
  <2> DEFINE gone(n) == [inventory[n] EXCEPT !.present = FALSE, !.eligible = FALSE, !.sample = FALSE, !.full = Nothing]
             some == LET eligible == {n \in job.seen : inventory[n].eligible} IN
                     IF Cardinality(eligible) > 1 THEN {n \in eligible : ~inventory[n].sample} ELSE {}
  <2>1. /\ job.pc = "walks" /\ mounted /\ UNCHANGED <<nas, mounted, archiving, wear>>
        /\ inventory' = [n \in Names |-> IF n \in job.seen THEN inventory[n] ELSE gone(n)]
        /\ job' = [job EXCEPT !.pc = "samples", !.report = inventory', !.todo = some]
    BY <1>3 DEF ScanMarksMissing, StillThere
  <2>2. \A n \in Names : gone(n) \in Row /\ Recorded(file, wear.clock, gone(n))
    <3>1. \A n \in Names : /\ gone(n) \in Row /\ gone(n).inode = inventory[n].inode /\ gone(n).mtime = inventory[n].mtime
                           /\ gone(n).ctime = inventory[n].ctime /\ gone(n).full = Nothing
      BY <1>0 DEF Row
    <3> HIDE DEF gone
    <3>2. QED
      BY <1>0, <3>1, RestatedRow
  <2>3. some \subseteq Names
    BY <1>0 DEF Job
  <2> HIDE DEF gone, some
  <2>4. RowsOK(file, wear.clock, inventory')
    BY <1>0, <2>1, <2>2 DEF RowsOK
  <2>5. inventory' \in [Names -> Row]
    BY <2>4 DEF RowsOK
  <2>6. /\ job' \in Job /\ job'.pc = "samples" /\ job'.report = inventory' /\ job'.digest = job.digest
        /\ job'.blind = job.blind /\ job'.kind = job.kind
    BY <1>0, <2>1, <2>3, <2>5 DEF Job
  <2>7. QED
    BY <1>0, <1>a, <2>1, <2>4, <2>6 DEF JobOK
<1>4. ASSUME NEW n \in Names, ScanSamples(n) PROVE ArchiveInv'
  <2> DEFINE r == inventory[n]
             u == IF ~SameIdentity(r, job.report[n]) THEN r
                  ELSE IF mounted /\ Matches(r, n) THEN [r EXCEPT !.sample = TRUE]
                  ELSE [r EXCEPT !.eligible = FALSE, !.sample = FALSE, !.full = Nothing]
  <2>1. /\ job.pc = "samples" /\ UNCHANGED <<nas, mounted, archiving, wear>>
        /\ inventory' = [inventory EXCEPT ![n] = u] /\ job' = [job EXCEPT !.todo = @ \ {n}]
    BY <1>4 DEF ScanSamples
  <2>2. u \in Row /\ u.inode = r.inode /\ u.mtime = r.mtime /\ u.ctime = r.ctime /\ u.full \in {Nothing, r.full}
    BY <1>0 DEF Row
  <2>3. Recorded(file, wear.clock, r) /\ Vouches(file, r, r.full)
    BY <1>0 DEF Recorded
  <2> HIDE DEF u
  <2>4. Recorded(file, wear.clock, u)
    BY <2>2, <2>3, RestatedRow
  <2>5. RowsOK(file, wear.clock, inventory')
    BY <1>0, <2>1, <2>2, <2>4 DEF RowsOK
  <2>6. /\ job' \in Job /\ job'.pc = "samples" /\ job'.report = job.report /\ job'.digest = job.digest
        /\ job'.blind = job.blind /\ job'.kind = job.kind
    BY <1>0, <2>1 DEF Job
  <2>7. QED
    BY <1>0, <1>a, <2>1, <2>5, <2>6 DEF JobOK
<1>5. CASE ScanEnds
  BY <1>5, <1>0, JobLeaves DEF ScanEnds, Ends, FilesOK
<1>6. QED
  BY <1>1, <1>2, <1>3, <1>4, <1>5

LEMMA VerifyKeeps ==
  ASSUME ArchiveInv, VerifyBegins \/ VerifyCommits \/ \E n \in Names : VerifyHashes(n)
  PROVE  ArchiveInv'
<1>0. /\ FilesOK /\ RowsOK(file, wear.clock, inventory) /\ JobOK /\ LinkOK /\ job \in Job
      /\ inventory \in [Names -> Row] /\ \A n \in Names : Recorded(file, wear.clock, inventory[n])
      /\ \A n \in Names : Recorded(file, wear.clock, job.report[n])
  BY DEF ArchiveInv, JobOK, RowsOK
<1>1. CASE VerifyBegins
  <2>1. /\ job.pc = "queued" /\ job' = [job EXCEPT !.pc = "hashes", !.seen = job.todo]
        /\ UNCHANGED <<nas, mounted, archiving, inventory, wear>>
    BY <1>1 DEF VerifyBegins
  <2>2. /\ job' \in Job /\ job'.pc = "hashes" /\ job'.report = job.report /\ job'.digest = job.digest
        /\ job'.blind = job.blind
    BY <1>0, <2>1 DEF Job
  <2>3. ~job.blind /\ \A n \in Names : job.digest[n] = Nothing
    BY <1>0, <2>1 DEF JobOK
  <2>4. QED
    BY <2>1, <2>2, <2>3, JobMoves DEF Linking, Vouches
<1>2. ASSUME NEW n \in Names, VerifyHashes(n) PROVE ArchiveInv'
  <2> DEFINE h == IF job.report[n].full # Nothing THEN job.report[n].full ELSE Content(n)
             next == IF job.pc = "hashes" /\ job.todo = {n} THEN "commits" ELSE job.pc
  <2>1. /\ job.pc = "hashes" /\ Matches(job.report[n], n) /\ UNCHANGED <<nas, mounted, archiving, inventory, wear>>
        /\ job' = [job EXCEPT !.todo = @ \ {n}, !.pc = next, !.digest[n] = h]
    BY <1>2 DEF VerifyHashes
  <2>2. name[n] \in Inodes /\ file[name[n]].content \in Contents
    BY <1>0, <2>1 DEF FilesOK, Matches, Inodes, NasFile
  <2>3. h \in Contents \cup {Nothing} /\ next \in {"hashes", "commits"}
    BY <1>0, <2>1, <2>2 DEF Content, Recorded, Row
  <2>4. Vouches(file, job.report[n], h)
    BY <1>0, <2>1, <2>2 DEF Vouches, Recorded, Content, Matches
  <2> HIDE DEF h, next
  <2>5. /\ job' \in Job /\ job'.pc = next /\ job'.report = job.report /\ job'.blind = job.blind
        /\ job'.digest = [job.digest EXCEPT ![n] = h]
    BY <1>0, <2>1, <2>3 DEF Job
  <2>6. \A m \in Names : job'.digest[m] = (IF m = n THEN h ELSE job.digest[m])
    BY <1>0, <2>5 DEF Job
  <2>7. \A m \in Names : Vouches(file, job.report[m], job'.digest[m])
    BY <1>0, <2>4, <2>6 DEF JobOK
  <2>8. ~job.blind
    BY <1>0, <2>1 DEF JobOK
  <2>9. QED
    BY <2>1, <2>3, <2>5, <2>7, <2>8, JobMoves DEF Linking
<1>3. CASE VerifyCommits
  <2> DEFINE u(n) == [inventory[n] EXCEPT !.full = job.digest[n]]
  <2>1. Ends /\ UNCHANGED <<nas, mounted, archiving, wear>>
    BY <1>3 DEF VerifyCommits
  <2>2. CASE /\ \A n \in job.seen : SameIdentity(inventory[n], job.report[n])
             /\ inventory' = [n \in Names |-> IF n \in job.seen THEN u(n) ELSE inventory[n]]
    <3>1. \A n \in Names : /\ u(n) \in Row /\ u(n).inode = inventory[n].inode /\ u(n).mtime = inventory[n].mtime
                           /\ u(n).ctime = inventory[n].ctime /\ u(n).full = job.digest[n]
      BY <1>0 DEF Row, Job
    <3> HIDE DEF u
    <3>2. \A n \in Names : n \in job.seen => Vouches(file, inventory[n], job.digest[n])
      BY <1>0, <2>2 DEF JobOK, Vouches, SameIdentity
    <3>3. \A n \in Names : n \in job.seen => Recorded(file, wear.clock, u(n))
      BY <1>0, <3>1, <3>2, RestatedRow
    <3>4. RowsOK(file, wear.clock, inventory')
      BY <1>0, <2>2, <3>1, <3>3 DEF RowsOK
    <3>5. FilesOK' /\ RowsOK(file', wear'.clock, inventory')
      BY <1>0, <2>1, <3>4 DEF FilesOK, nas
    <3>6. JobOK' /\ LinkOK'
      BY <2>1, <3>5, JobGone, ArchiveAssumption DEF Ends, ArchiveAssumption
    <3>7. QED
      BY <3>5, <3>6 DEF ArchiveInv
  <2>3. CASE inventory' = inventory
    BY <1>0, <2>1, <2>3, JobLeaves DEF Ends, FilesOK
  <2>4. QED
    BY <1>3, <2>2, <2>3 DEF VerifyCommits
<1>4. QED
  BY <1>1, <1>2, <1>3

(***************************************************************************)
(* run_hardlink                                                            *)
(***************************************************************************)

\* A link gives files another change time, and nothing else.
LEMMA FilesLinked ==
  ASSUME ArchiveInv, file' \in [Inodes -> NasFile], Now \in Clock, wear' = [wear EXCEPT !.clock = Now],
         \A i \in Inodes : file'[i] = file[i] \/ file'[i].ctime = Now,
         \A i \in Inodes : file'[i].content = file[i].content /\ file'[i].mtime = file[i].mtime,
         name' \in [Names -> 0..MaxInode], temp' \in 0..MaxInode, UNCHANGED <<mounted, archiving, inventory>>
  PROVE  /\ FilesOK' /\ RowsOK(file', wear'.clock, inventory')
         /\ RowsOK(file', wear'.clock, job.report)
<1>0. FilesOK /\ RowsOK(file, wear.clock, inventory) /\ RowsOK(file, wear.clock, job.report)
  BY DEF ArchiveInv, JobOK
<1>1. wear' \in Wear /\ wear'.clock = Now
  BY <1>0, WearGrows DEF FilesOK, Wear
<1>2. PICK N \in Nat : Clock = 0..N
  BY ClockIsNat
<1>3. \A i \in Inodes : file[i].mtime <= Now
  <2>1. wear.clock \in 0..N /\ \A i \in Inodes : file[i].mtime \in 0..N /\ file[i].mtime <= wear.clock
    BY <1>0, <1>2 DEF FilesOK, Wear, NasFile
  <2>2. QED
    BY <2>1 DEF Now
<1>4. \A i \in Inodes : file'[i] = file[i] \/ (file'[i].ctime = Now /\ file'[i].mtime <= Now)
  BY <1>3
<1>5. FilesOK'
  BY <1>0, <1>1, <1>4, FilesElapse DEF FilesOK
<1>6. QED
  BY <1>0, <1>1, <1>5, RowsElapse

\* The job's own record while it links, when it keeps its report.
LEMMA LinkJobKeeps ==
  ASSUME ArchiveInv, Linking, job.pc \notin {"hashes", "commits"}, job' \in Job, job'.report = job.report,
         job'.keeper = job.keeper, job'.digest = job.digest, job'.blind = job.blind,
         job'.pc \in {"compares", "links", "replaces", "refreshes"}, UNCHANGED inventory,
         RowsOK(file', wear'.clock, job.report)
  PROVE  /\ JobOK'
         /\ Linking' /\ job'.keeper \in Names /\ \A n \in Names : inventory'[n].full \in {Nothing, job'.report[n].full}
<1>1. \A n \in Names : job'.digest[n] = Nothing
  BY DEF ArchiveInv, JobOK
<1>2. ~job'.blind
  BY DEF ArchiveInv, JobOK, Linking
<1>3. JobOK'
  BY <1>1, <1>2 DEF JobOK, Vouches
<1>4. QED
  BY <1>3 DEF ArchiveInv, LinkOK, Linking

LEMMA LinkBeginsKeeps == ASSUME ArchiveInv, LinkBegins PROVE ArchiveInv'
<1>1. /\ job.kind = "archive_hardlink" /\ job.pc = "queued" /\ job' = [job EXCEPT !.pc = "compares", !.todo = @ \ {job.keeper}]
      /\ UNCHANGED <<nas, mounted, archiving, inventory, wear>> /\ job \in Job
  BY DEF LinkBegins, ArchiveInv, JobOK
<1>2. /\ job' \in Job /\ job'.pc = "compares" /\ job'.report = job.report /\ job'.keeper = job.keeper
      /\ job'.digest = job.digest /\ job'.blind = job.blind
  BY <1>1 DEF Job
<1>3. FilesOK' /\ RowsOK(file', wear'.clock, inventory') /\ RowsOK(file', wear'.clock, job.report)
  BY <1>1 DEF ArchiveInv, FilesOK, JobOK, nas
<1>4. /\ JobOK' /\ job'.keeper \in Names
      /\ \A n \in Names : inventory'[n].full \in {Nothing, job'.report[n].full}
  BY <1>1, <1>2, <1>3, LinkJobKeeps DEF Linking
<1>5. QED
  BY <1>2, <1>3, <1>4 DEF ArchiveInv, LinkOK

LEMMA LinkComparesKeeps == ASSUME ArchiveInv, NEW n \in Names, LinkCompares(n) PROVE ArchiveInv'
<1> DEFINE k == job.keeper
<1>1. /\ job.pc = "compares" /\ Matches(job.report[k], k) /\ Matches(job.report[n], n)
      /\ UNCHANGED <<nas, mounted, archiving, inventory, wear>> /\ job \in Job
  BY DEF LinkCompares, ArchiveInv, JobOK
<1>2. FilesOK' /\ RowsOK(file', wear'.clock, inventory') /\ RowsOK(file', wear'.clock, job.report)
  BY <1>1 DEF ArchiveInv, FilesOK, JobOK, nas
<1>3. k \in Names
  BY <1>1 DEF ArchiveInv, LinkOK, Linking
<1>4. /\ name[k] \in Inodes /\ name[n] \in Inodes
      /\ job.report[k].inode = name[k] /\ job.report[k].mtime = file[name[k]].mtime
      /\ job.report[n].inode = name[n] /\ job.report[n].mtime = file[name[n]].mtime
  BY <1>1, <1>3 DEF ArchiveInv, FilesOK, Matches, Inodes
<1>5. job.report[k].full # Nothing => file[name[k]].content = job.report[k].full
  BY <1>1, <1>3, <1>4 DEF ArchiveInv, JobOK, RowsOK, Recorded, Vouches, Matches
<1>6. Content(k) = file[name[k]].content /\ Content(n) = file[name[n]].content
  BY <1>4 DEF Content, Inodes
<1>7. ASSUME NEW next \in {"links", "refreshes"}, job' = [job EXCEPT !.pc = next, !.target = n, !.old = name[n]],
             file[name[k]].content = file[name[n]].content, next = "refreshes" => name[k] = name[n]
      PROVE  ArchiveInv'
  <2>1. /\ job' \in Job /\ job'.pc = next /\ job'.report = job.report /\ job'.keeper = k /\ job'.target = n
        /\ job'.old = name[n] /\ job'.digest = job.digest /\ job'.blind = job.blind
    <3>1. name[n] \in 0..MaxInode
      BY DEF ArchiveInv, FilesOK
    <3>2. QED
      BY <1>1, <1>7, <3>1 DEF Job
  <2>2. /\ JobOK' /\ job'.keeper \in Names
        /\ \A m \in Names : inventory'[m].full \in {Nothing, job'.report[m].full}
    BY <1>1, <1>2, <1>7, <2>1, LinkJobKeeps DEF Linking
  <2>3. UNCHANGED <<file, name>>
    BY <1>1 DEF nas
  <2> HIDE DEF k
  <2>4. PairOK'
    BY <1>4, <1>5, <1>7, <2>1, <2>3 DEF PairOK
  <2>5. job'.pc = "refreshes" =>
          /\ job.report[k].mtime = file'[job.report[k].inode].mtime /\ job.report[n].mtime = file'[job.report[n].inode].mtime
          /\ name'[n] = job.report[k].inode
    BY <1>4, <1>7, <2>1, <2>3
  <2>6. LinkOK'
    BY <2>1, <2>2, <2>4, <2>5 DEF LinkOK
  <2>7. QED
    BY <1>2, <2>2, <2>6 DEF ArchiveInv
<1>8. CASE Ends
  BY <1>1, <1>8, JobLeaves DEF Ends, ArchiveInv, FilesOK
<1>9. QED
  BY <1>6, <1>7, <1>8 DEF LinkCompares, Identical

LEMMA LinkCreatesKeeps == ASSUME ArchiveInv, LinkCreates PROVE ArchiveInv'
<1> DEFINE k == job.keeper
           i == name[k]
           f == [file[i] EXCEPT !.ctime = Now]
<1>1. /\ job.pc = "links" /\ i # 0 /\ temp' = i /\ file' = [file EXCEPT ![i].ctime = Now]
      /\ Now \in Clock /\ wear' = [wear EXCEPT !.clock = Now] /\ job' = [job EXCEPT !.pc = "replaces"]
      /\ UNCHANGED <<name, mounted, archiving, inventory>> /\ job \in Job
  BY DEF LinkCreates, ClockTicks, ArchiveInv, JobOK
<1>2. FilesOK /\ k \in Names /\ PairOK
  BY <1>1 DEF ArchiveInv, LinkOK, Linking
<1>3. i \in Inodes /\ i \in 0..MaxInode /\ name' \in [Names -> 0..MaxInode]
  BY <1>1, <1>2 DEF FilesOK, Inodes
<1>4. file[i] \in NasFile
  BY <1>2, <1>3 DEF FilesOK
<1>5. f \in NasFile /\ f.content = file[i].content /\ f.mtime = file[i].mtime /\ f.ctime = Now
  BY <1>1, <1>4 DEF NasFile
<1>6. file' = [file EXCEPT ![i] = f]
  BY <1>1
<1> HIDE DEF f
<1>7. file' \in [Inodes -> NasFile] /\ \A o \in Inodes : file'[o] = (IF o = i THEN f ELSE file[o])
  BY <1>2, <1>3, <1>5, <1>6 DEF FilesOK
<1>8. /\ \A o \in Inodes : file'[o] = file[o] \/ file'[o].ctime = Now
      /\ \A o \in Inodes : file'[o].content = file[o].content /\ file'[o].mtime = file[o].mtime
  BY <1>5, <1>7
<1>9. FilesOK' /\ RowsOK(file', wear'.clock, inventory') /\ RowsOK(file', wear'.clock, job.report)
  BY <1>1, <1>3, <1>7, <1>8, FilesLinked
<1>10. /\ job' \in Job /\ job'.pc = "replaces" /\ job'.report = job.report /\ job'.keeper = job.keeper
       /\ job'.target = job.target /\ job'.old = job.old /\ job'.digest = job.digest /\ job'.blind = job.blind
  BY <1>1 DEF Job
<1>11. /\ JobOK' /\ job'.keeper \in Names
       /\ \A n \in Names : inventory'[n].full \in {Nothing, job'.report[n].full}
  BY <1>1, <1>9, <1>10, LinkJobKeeps DEF Linking
<1>12. PairOK'
  BY <1>2, <1>8, <1>10 DEF PairOK
<1>13. QED
  BY <1>9, <1>10, <1>11, <1>12 DEF ArchiveInv, LinkOK

LEMMA LinkReplacesKeeps == ASSUME ArchiveInv, LinkReplaces PROVE ArchiveInv'
<1> DEFINE k == job.keeper
           n == job.target
<1>1. /\ job.pc = "replaces" /\ temp' = 0 /\ UNCHANGED <<mounted, archiving, inventory>> /\ job \in Job
  BY DEF LinkReplaces, ArchiveInv, JobOK
<1>2. FilesOK /\ k \in Names /\ PairOK /\ n \in Names /\ job.old = job.report[n].inode /\ job.old \in Inodes
      /\ job.report[k].inode \in Inodes
  BY <1>1 DEF ArchiveInv, LinkOK, Linking, PairOK
<1>3. 0 \in 0..MaxInode
  BY ArchiveAssumption DEF ArchiveAssumption
<1>4. CASE Ends /\ UNCHANGED <<name, file, wear>>
  <2>1. FilesOK' /\ RowsOK(file', wear'.clock, inventory')
    BY <1>1, <1>3, <1>4 DEF ArchiveInv, FilesOK
  <2>2. JobOK' /\ LinkOK'
    BY <1>4, <2>1, JobGone, ArchiveAssumption DEF Ends, ArchiveAssumption
  <2>3. QED
    BY <2>1, <2>2 DEF ArchiveInv
<1>5. CASE /\ SameContent(job.report[k], temp) /\ Unchanged(n)
           /\ name' = [name EXCEPT ![n] = temp] /\ ClockTicks
           /\ file' = [file EXCEPT ![job.old].ctime = Now, ![temp].ctime = Now]
           /\ job' = [job EXCEPT !.pc = "refreshes"]
  <2> DEFINE old == job.old
             f == [file[old] EXCEPT !.ctime = Now]
             g == [file EXCEPT ![old] = f]
             h == [g[temp] EXCEPT !.ctime = Now]
  <2>1. /\ job.report[k].inode = temp /\ job.report[k].mtime = file[temp].mtime /\ temp \in Inodes
        /\ job.report[n].inode = old /\ job.report[n].mtime = file[old].mtime
        /\ Now \in Clock /\ wear' = [wear EXCEPT !.clock = Now]
    BY <1>2, <1>5 DEF SameContent, Unchanged, Matches, ClockTicks
  <2>2. file[old] \in NasFile
    BY <1>2 DEF FilesOK
  <2>3. f \in NasFile /\ f.content = file[old].content /\ f.mtime = file[old].mtime /\ f.ctime = Now
    BY <2>1, <2>2 DEF NasFile
  <2>4. file' = [g EXCEPT ![temp].ctime = Now]
    BY <1>5
  <2>5. file' = [g EXCEPT ![temp] = h]
    BY <2>4
  <2> HIDE DEF f, old
  <2>6. g \in [Inodes -> NasFile] /\ \A o \in Inodes : g[o] = (IF o = old THEN f ELSE file[o])
    BY <1>2, <2>3 DEF FilesOK, old
  <2> HIDE DEF g
  <2>7. h \in NasFile /\ h.content = g[temp].content /\ h.mtime = g[temp].mtime /\ h.ctime = Now
    BY <2>1, <2>6 DEF NasFile
  <2> HIDE DEF h
  <2>8. file' \in [Inodes -> NasFile] /\ \A o \in Inodes : file'[o] = (IF o = temp THEN h ELSE g[o])
    BY <2>1, <2>5, <2>6, <2>7
  <2>9. /\ \A o \in Inodes : file'[o] = file[o] \/ file'[o].ctime = Now
        /\ \A o \in Inodes : file'[o].content = file[o].content /\ file'[o].mtime = file[o].mtime
    BY <2>3, <2>6, <2>7, <2>8
  <2>10. name' \in [Names -> 0..MaxInode] /\ name'[n] = temp
    BY <1>2, <1>5, <2>1 DEF FilesOK
  <2>11. FilesOK' /\ RowsOK(file', wear'.clock, inventory') /\ RowsOK(file', wear'.clock, job.report)
    BY <1>1, <1>3, <2>1, <2>8, <2>9, <2>10, FilesLinked
  <2>12. /\ job' \in Job /\ job'.pc = "refreshes" /\ job'.report = job.report /\ job'.keeper = job.keeper
         /\ job'.target = job.target /\ job'.old = job.old /\ job'.digest = job.digest /\ job'.blind = job.blind
    BY <1>1, <1>5 DEF Job
  <2>13. /\ JobOK' /\ job'.keeper \in Names
         /\ \A m \in Names : inventory'[m].full \in {Nothing, job'.report[m].full}
    BY <1>1, <2>11, <2>12, LinkJobKeeps DEF Linking
  <2>14. PairOK'
    BY <1>2, <2>9, <2>12 DEF PairOK
  <2>15. /\ job.report[k].mtime = file'[job.report[k].inode].mtime /\ job.report[n].mtime = file'[job.report[n].inode].mtime
         /\ name'[n] = job.report[k].inode
    BY <1>2, <2>1, <2>9, <2>10 DEF old
  <2>16. LinkOK'
    BY <2>12, <2>13, <2>14, <2>15 DEF LinkOK
  <2>17. QED
    BY <2>11, <2>13, <2>16 DEF ArchiveInv
<1>6. QED
  BY <1>4, <1>5 DEF LinkReplaces

LEMMA LinkRefreshesKeeps == ASSUME ArchiveInv, LinkRefreshes PROVE ArchiveInv'
<1> DEFINE k == job.keeper
           a == job.report[k].inode
           affected == {m \in Names : inventory[m].inode \in {a, job.old} \/ m = job.target}
           u(m) == Updated(inventory[m], m, FALSE)
           v(m) == [u(m) EXCEPT !.sample = inventory[m].sample, !.full = inventory[k].full]
           linked(m) == name[m] = a \/ (name[m] = inventory[m].inode /\ file[name[m]].mtime = inventory[m].mtime)
           proof == [m \in Names |-> IF linked(m) THEN v(m) ELSE u(m)]
<1>1. /\ job.pc = "refreshes" /\ UNCHANGED <<nas, mounted, archiving, wear>> /\ job \in Job
      /\ FilesOK /\ RowsOK(file, wear.clock, inventory) /\ PairOK /\ k \in Names
      /\ inventory[k].full \in {Nothing, job.report[k].full} /\ inventory \in [Names -> Row]
  BY DEF LinkRefreshes, ArchiveInv, LinkOK, Linking, JobOK, RowsOK
<1>2. /\ a \in Inodes /\ job.old \in Inodes /\ job.target \in Names /\ name[job.target] = a
      /\ file[a].content = file[job.old].content
      /\ job.report[k].full # Nothing => file[a].content = job.report[k].full
  BY <1>1 DEF ArchiveInv, LinkOK, PairOK
<1>3. FilesOK'
  BY <1>1 DEF FilesOK, nas
<1>4. CASE UNCHANGED inventory /\ Ends
  BY <1>1, <1>4, JobLeaves DEF Ends, FilesOK
<1>5. CASE /\ \A m \in affected : name[m] # 0
           /\ inventory' = [m \in Names |-> IF m \in affected THEN proof[m] ELSE inventory[m]]
           /\ \/ Ends
              \/ job' = [job EXCEPT !.pc = "compares", !.todo = @ \ {job.target}, !.report = inventory']
  <2>1. ASSUME NEW m \in affected PROVE Recorded(file, wear.clock, proof[m])
    <3>1. m \in Names /\ name[m] # 0 /\ Recorded(file, wear.clock, inventory[m]) /\ FALSE \in BOOLEAN
      BY <1>1, <1>5, <2>1 DEF RowsOK
    <3>2. Recorded(file, wear.clock, u(m)) /\ u(m).inode = name[m]
      BY <1>1, <3>1, StatedRow
    <3> HIDE DEF u
    <3>3. ASSUME linked(m), inventory[k].full # Nothing PROVE file[name[m]].content = inventory[k].full
      <4>1. file[a].content = inventory[k].full
        BY <1>1, <1>2, <3>3
      <4>2. name[m] \in {a, job.old}
        BY <1>2, <2>1, <3>3
      <4>3. QED
        BY <1>2, <4>1, <4>2
    <3>4. /\ v(m) \in Row /\ v(m).inode = u(m).inode /\ v(m).mtime = u(m).mtime /\ v(m).ctime = u(m).ctime
          /\ v(m).full = inventory[k].full
      BY <1>1, <3>1, <3>2 DEF Recorded, Row
    <3> HIDE DEF v
    <3>5. ASSUME linked(m) PROVE v(m).full = Nothing \/ Vouches(file, u(m), v(m).full)
      BY <3>2, <3>3, <3>4, <3>5 DEF Vouches
    <3> HIDE DEF linked
    <3>6. linked(m) => Recorded(file, wear.clock, v(m))
      BY <3>2, <3>4, <3>5, RestatedRow
    <3>7. QED
      BY <3>1, <3>2, <3>6
  <2> HIDE DEF proof, affected
  <2>2. RowsOK(file, wear.clock, inventory')
    BY <1>1, <1>5, <2>1 DEF RowsOK, Recorded
  <2>3. RowsOK(file', wear'.clock, inventory')
    BY <1>1, <2>2 DEF nas
  <2>4. CASE Ends
    <3>1. JobOK' /\ LinkOK'
      BY <1>3, <2>4, JobGone, ArchiveAssumption DEF Ends, ArchiveAssumption
    <3>2. QED
      BY <1>3, <2>3, <3>1 DEF ArchiveInv
  <2>5. CASE job' = [job EXCEPT !.pc = "compares", !.todo = @ \ {job.target}, !.report = inventory']
    <3>1. inventory' \in [Names -> Row]
      BY <2>2 DEF RowsOK
    <3>2. /\ job' \in Job /\ job'.pc = "compares" /\ job'.report = inventory' /\ job'.keeper = k
          /\ job'.digest = job.digest /\ job'.blind = job.blind
      BY <1>1, <2>5, <3>1 DEF Job
    <3>3. ~job.blind /\ \A m \in Names : job.digest[m] = Nothing
      BY <1>1 DEF ArchiveInv, JobOK
    <3>4. JobOK'
      BY <2>3, <3>2, <3>3 DEF JobOK, Vouches
    <3>5. LinkOK'
      BY <1>1, <3>2 DEF LinkOK
    <3>6. QED
      BY <1>3, <2>3, <3>4, <3>5 DEF ArchiveInv
  <2>6. QED
    BY <1>5, <2>4, <2>5
<1>6. QED
  BY <1>4, <1>5 DEF LinkRefreshes

\* The state of the disk before the first scan.
LEMMA ArchiveInvInit == ArchiveInit => ArchiveInv
<1> SUFFICES ASSUME ArchiveInit PROVE ArchiveInv
  OBVIOUS
<1> DEFINE C == Cardinality(Names)
           One == [Names -> 1..C]
<1>1. C \in Nat /\ C < MaxInode /\ MaxInode \in Nat
  BY ArchiveAssumption, FS_CardinalityType DEF ArchiveAssumption
<1>2. \E f \in One : \A n, m \in Names : f[n] = f[m] => n = m
  <2>1. PICK g : g \in Bijection(1..C, Names)
    BY ArchiveAssumption, FS_CardinalityType DEF ArchiveAssumption, ExistsBijection
  <2>2. /\ g \in [1..C -> Names] /\ \A n \in Names : \E i \in 1..C : g[i] = n
    BY <2>1 DEF Bijection, Surjection
  <2> DEFINE f == [n \in Names |-> CHOOSE i \in 1..C : g[i] = n]
  <2>3. \A n \in Names : f[n] \in 1..C /\ g[f[n]] = n
    BY <2>2
  <2> HIDE DEF C
  <2>4. f \in One
    BY <2>3
  <2> HIDE DEF f
  <2>5. \A n, m \in Names : f[n] = f[m] => n = m
    BY <2>3
  <2>6. QED
    BY <2>4, <2>5
<1>3. name \in One
  BY <1>2 DEF ArchiveInit
<1>4. name \in [Names -> 0..MaxInode]
  BY <1>1, <1>3
<1>5. (CHOOSE x \in Contents : TRUE) \in Contents
  BY ArchiveAssumption DEF ArchiveAssumption
<1>6. PICK c \in [1..C -> Contents] :
         file = [i \in Inodes |-> [content |-> IF i \in DOMAIN c THEN c[i] ELSE CHOOSE x \in Contents : TRUE,
                                   mtime |-> 0, ctime |-> 0]]
  BY DEF ArchiveInit
<1>7. \A i \in 1..C : c[i] \in Contents
  OBVIOUS
<1>8. DOMAIN c = 1..C
  OBVIOUS
<1>9. file \in [Inodes -> NasFile] /\ \A i \in Inodes : file[i].mtime = 0 /\ file[i].ctime = 0
  BY <1>5, <1>6, <1>7, <1>8, NoTimeAtAll DEF NasFile
<1>10. wear \in Wear /\ wear.clock = 0
  BY NoTimeAtAll, ArchiveAssumption DEF ArchiveInit, Wear, ArchiveAssumption
<1>11. temp \in 0..MaxInode /\ mounted \in BOOLEAN /\ archiving \in [Names -> {"done", "begun", "sent"}]
  BY <1>1 DEF ArchiveInit
<1>12. \A i \in Inodes : file[i].mtime <= wear.clock /\ file[i].ctime <= wear.clock
  BY <1>9, <1>10
<1>13. FilesOK
  BY <1>4, <1>9, <1>10, <1>11, <1>12 DEF FilesOK
<1>14. Unlisted \in Row /\ Unlisted.inode = 0 /\ Unlisted.mtime = 0 /\ Unlisted.ctime = 0
  BY <1>1, NoTimeAtAll DEF Unlisted, Row
<1>15. Recorded(file, wear.clock, Unlisted)
  BY <1>10, <1>14 DEF Recorded, Vouches, Inodes
<1>16. RowsOK(file, wear.clock, Unread)
  BY <1>14, <1>15 DEF RowsOK, Unread
<1>17. job = NoJob(Unread) /\ inventory = Unread
  BY DEF ArchiveInit
<1>18. /\ job.report = Unread /\ job.pc = "idle" /\ job.kind = "none" /\ ~job.blind
       /\ job.digest = [n \in Names |-> Nothing]
  BY <1>17 DEF NoJob
<1>19. job \in Job
  BY <1>1, <1>14, <1>17 DEF NoJob, Job, Unread
<1>20. QED
  BY <1>13, <1>16, <1>17, <1>18, <1>19 DEF ArchiveInv, JobOK, LinkOK, Linking, Vouches

LEMMA ArchiveInvStep == ArchiveInv /\ [ArchiveNext]_archiveVars => ArchiveInv'
<1> SUFFICES ASSUME ArchiveInv, [ArchiveNext]_archiveVars PROVE ArchiveInv'
  OBVIOUS
<1>1. FilesOK /\ wear \in Wear
  BY DEF ArchiveInv, FilesOK
<1>2. CASE ArchiveFails \/ LinkRefuses
  BY <1>1, <1>2, JobLeaves DEF ArchiveFails, LinkRefuses, Ends
<1>3. CASE Crash
  <2>1. /\ job' = NoJob(Unread) /\ UNCHANGED <<nas, mounted, archiving, inventory>>
        /\ wear.outages < MaxUnmounts /\ wear' = [wear EXCEPT !.outages = @ + 1]
    BY <1>3 DEF Crash, Outage
  <2>2. wear' \in Wear /\ wear'.clock = wear.clock
    BY <1>1, <2>1, WearGrows DEF Wear
  <2>3. QED
    BY <2>1, <2>2, JobLeaves
<1>4. CASE JobStep
  BY <1>2, <1>4, ScanKeeps, VerifyKeeps, LinkBeginsKeeps, LinkComparesKeeps, LinkCreatesKeeps, LinkReplacesKeeps,
     LinkRefreshesKeeps DEF JobStep
<1>5. CASE UNCHANGED archiveVars
  <2>1. UNCHANGED <<name, file, temp, mounted, archiving, inventory, job, wear>>
    BY <1>5 DEF archiveVars
  <2>2. FilesOK' /\ RowsOK(file', wear'.clock, inventory')
    BY <2>1 DEF ArchiveInv, FilesOK
  <2>3. JobOK' /\ LinkOK'
    BY <1>1, <2>1, JobWaits DEF ArchiveInv
  <2>4. QED
    BY <2>2, <2>3 DEF ArchiveInv
<1>6. QED
  BY <1>3, <1>4, <1>5, OthersKeep, EnqueueKeeps DEF ArchiveNext

LEMMA ArchiveInvHolds == ArchiveSpec => []ArchiveInv
  BY ArchiveInvInit, ArchiveInvStep, PTL DEF ArchiveSpec

\* Every variable of the archive stays of its type, the rows of archive_models.py among them.
THEOREM ArchiveTypes == ArchiveSpec => []ArchiveTypeOK
<1>1. ArchiveInv => ArchiveTypeOK
  BY DEF ArchiveInv, ArchiveTypeOK, FilesOK, RowsOK, JobOK, Job, Wear, NasFile
<1>2. QED
  BY <1>1, ArchiveInvHolds, PTL

\* A full hash stays true of every file whose identity its row still has, for every number of
\* paths, contents and changes, whatever walks, verifications, links and uploads are under way.
THEOREM HashesAreProofs == ArchiveSpec => []VerifiedIsProof
<1>1. ArchiveInv => VerifiedIsProof
  <2> SUFFICES ASSUME ArchiveInv, NEW n \in Names, inventory[n].full # Nothing, Matches(inventory[n], n)
               PROVE  inventory[n].full = Content(n)
    BY DEF VerifiedIsProof
  <2>1. name[n] \in Inodes
    BY DEF ArchiveInv, FilesOK, Matches, Inodes
  <2>2. Vouches(file, inventory[n], inventory[n].full)
    BY DEF ArchiveInv, RowsOK, Recorded
  <2>3. QED
    BY <2>1, <2>2 DEF Vouches, Matches, Content, Inodes
<1>2. QED
  BY <1>1, ArchiveInvHolds, PTL

LEMMA JobStepKeepsContent ==
  ASSUME ArchiveInv, JobStep
  PROVE  \A n \in Names : Content(n)' = Content(n)
<1>0. FilesOK
  BY DEF ArchiveInv
<1>1. CASE UNCHANGED <<name, file>>
  BY <1>1 DEF Content
<1>2. CASE LinkCreates
  <2>1. /\ file' = [file EXCEPT ![name[job.keeper]].ctime = Now] /\ UNCHANGED name
        /\ job.pc = "links" /\ name[job.keeper] # 0
    BY <1>2 DEF LinkCreates
  <2>2. job.keeper \in Names
    BY <2>1 DEF ArchiveInv, LinkOK, Linking
  <2>3. name[job.keeper] \in Inodes
    BY <1>0, <2>1, <2>2 DEF FilesOK, Inodes
  <2>4. \A i \in Inodes : file'[i].content = file[i].content
    BY <1>0, <2>1, <2>3 DEF FilesOK, NasFile
  <2>5. \A n \in Names : name[n] # 0 => name[n] \in Inodes
    BY <1>0 DEF FilesOK, Inodes
  <2>6. QED
    BY <2>1, <2>4, <2>5 DEF Content
<1>3. CASE LinkReplaces
  <2> DEFINE k == job.keeper
             n == job.target
             old == job.old
  <2>1. job.pc = "replaces"
    BY <1>3 DEF LinkReplaces
  <2>2. /\ k \in Names /\ n \in Names /\ job.report[k].inode \in Inodes /\ old \in Inodes /\ old = job.report[n].inode
        /\ (job.report[k].mtime = file[job.report[k].inode].mtime /\ job.report[n].mtime = file[old].mtime) =>
             file[job.report[k].inode].content = file[old].content
    BY <2>1 DEF ArchiveInv, LinkOK, Linking, PairOK
  <2>3. CASE UNCHANGED <<name, file>>
    BY <1>1, <2>3
  <2>4. CASE /\ SameContent(job.report[k], temp) /\ Unchanged(n) /\ name' = [name EXCEPT ![n] = temp]
             /\ file' = [file EXCEPT ![old].ctime = Now, ![temp].ctime = Now]
    <3>1. /\ job.report[k].inode = temp /\ job.report[k].mtime = file[temp].mtime
          /\ name[n] = old /\ job.report[n].mtime = file[old].mtime /\ name[n] # 0
      BY <2>2, <2>4 DEF SameContent, Unchanged, Matches
    <3>2. temp \in Inodes /\ file[temp].content = file[old].content
      BY <2>2, <3>1
    <3> HIDE DEF old, n
    <3>3. \A i \in Inodes : file'[i].content = file[i].content
      <4> DEFINE g == [file EXCEPT ![old].ctime = Now]
      <4>1. g \in [Inodes -> [content : Contents, mtime : Clock, ctime : Clock \cup {Now}]]
            /\ \A i \in Inodes : g[i].content = file[i].content
        BY <1>0, <2>2 DEF FilesOK, NasFile
      <4>2. file' = [g EXCEPT ![temp].ctime = Now]
        BY <2>4
      <4> HIDE DEF g
      <4>3. QED
        BY <3>2, <4>1, <4>2
    <3>4. \A m \in Names : name'[m] = (IF m = n THEN temp ELSE name[m]) /\ (name[m] # 0 => name[m] \in Inodes)
      BY <1>0, <2>4 DEF FilesOK, Inodes
    <3>5. 0 \notin Inodes
      BY DEF Inodes
    <3>6. QED
      BY <3>1, <3>2, <3>3, <3>4, <3>5 DEF Content
  <2>5. QED
    BY <1>3, <2>3, <2>4 DEF LinkReplaces
<1>4. QED
  BY <1>1, <1>2, <1>3 DEF JobStep, nas, ScanBegins, ScanMarksMissing, ScanEnds, VerifyBegins, VerifyCommits, LinkBegins,
     LinkRefuses, LinkRefreshes, ArchiveFails, ScanVisits, ScanSamples, VerifyHashes, LinkCompares

\* No step of a scan, a verification or a hardlink changes what a path holds, for every number of
\* paths and changes by other clients: run_hardlink replaces a file only by its equal.
THEOREM JobsLoseNothing == ArchiveSpec => JobsKeepEveryFile
<1> DEFINE Body == JobStep => \A n \in Names : Content(n)' = Content(n)
<1>1. ArchiveInv /\ [ArchiveNext]_archiveVars => [Body]_archiveVars
  BY JobStepKeepsContent
<1> HIDE DEF Body
<1>2. ArchiveSpec => [][Body]_archiveVars
  BY <1>1, ArchiveInvHolds, PTL DEF ArchiveSpec
<1>3. QED
  BY <1>2 DEF JobsKeepEveryFile, Body

LEMMA BlindKeeps ==
  ASSUME ArchiveInv, ArchiveNext, job.blind
  PROVE  \A n \in Names : inventory[n].present => inventory'[n].present
<1>0. job.pc = "walks" /\ ~mounted /\ inventory \in [Names -> Row]
  BY DEF ArchiveInv, JobOK, RowsOK
<1>1. CASE UNCHANGED inventory
  BY <1>1
<1>2. ASSUME NEW n \in Names, ScanVisits(n) PROVE UNCHANGED inventory
  BY <1>0, <1>2 DEF ScanVisits
<1>3. ASSUME NEW n \in Names, UploadRecords(n) PROVE UNCHANGED inventory
  BY <1>0, <1>3 DEF UploadRecords
<1>4. ~ScanMarksMissing /\ ~VerifyCommits /\ ~LinkRefreshes /\ \A n \in Names : ~ScanSamples(n)
  BY <1>0 DEF ScanMarksMissing, VerifyCommits, LinkRefreshes, ScanSamples, StillThere
<1>5. CASE JobStep
  BY <1>1, <1>2, <1>4, <1>5 DEF JobStep, ScanBegins, ScanEnds, VerifyBegins, LinkBegins, LinkRefuses, LinkCreates,
     LinkReplaces, ArchiveFails, VerifyHashes, LinkCompares
<1>6. CASE Unmount \/ Mount \/ Crash
  BY <1>1, <1>6 DEF Unmount, Mount, Crash
<1>7. ASSUME NEW kind, NEW group, NEW keeper, Enqueue(kind, group, keeper) PROVE UNCHANGED inventory
  BY <1>7 DEF Enqueue
<1>8. ASSUME NEW n \in Names, ClientRemoves(n) \/ UploadBegins(n) PROVE UNCHANGED inventory
  BY <1>8 DEF ClientRemoves, UploadBegins
<1>9. ASSUME NEW n \in Names, NEW c \in Contents, ClientWrites(n, c) \/ ClientReplaces(n, c) \/ UploadPublishes(n, c)
      PROVE  UNCHANGED inventory
  BY <1>9 DEF ClientWrites, ClientReplaces, UploadPublishes
<1>10. QED
  BY <1>1, <1>3, <1>5, <1>6, <1>7, <1>8, <1>9 DEF ArchiveNext

\* Once a walk has met the empty mount point it marks nothing missing, and neither does anything
\* else while it stands: an unplugged NAS cannot erase the cache.
THEOREM CacheOutlastsOutages == ArchiveSpec => UnpluggedKeepsCache
<1> DEFINE Body == job.blind => \A n \in Names : inventory[n].present => inventory'[n].present
<1>1. ArchiveInv /\ [ArchiveNext]_archiveVars => [Body]_archiveVars
  BY BlindKeeps
<1> HIDE DEF Body
<1>2. ArchiveSpec => [][Body]_archiveVars
  BY <1>1, ArchiveInvHolds, PTL DEF ArchiveSpec
<1>3. QED
  BY <1>2 DEF UnpluggedKeepsCache, Body
=============================================================================
