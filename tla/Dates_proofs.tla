---------------------------- MODULE Dates_proofs ----------------------------
(***************************************************************************)
(* Theorems of the recording dates: corrections and the moves they make    *)
(* (DateCorrection), and the scans that find the doubtful dates            *)
(* (DateReview).                                                           *)
(***************************************************************************)
EXTENDS DateCorrection, DateReview, FiniteSetTheorems, WellFoundedInduction, TLAPS

(***************************************************************************)
(* DateCorrection: who may work, and in which order the plans were made.   *)
(***************************************************************************)

Running(p)  == jst[p] = "running"
Agreed(p)   == plan[p].st \in {"confirmed", "done"}
Previewed(p) == plan[p].st # "none"

\* One job at a time holds the semaphore, or the upload that sends.
OneWorks ==
  /\ \A p, q \in Plans : Running(p) /\ Running(q) => p = q
  /\ semaphoreHolder = "job" <=> jpc # "idle"
  /\ semaphoreHolder = "job" <=> \E p \in Plans : Running(p)
  /\ semaphoreHolder = "upload" <=> up.pc = "copy"

\* A preview is of a revision below its own number.
InOrder ==
  /\ \A p \in Plans : plan[p].rev < p
  /\ \A p \in Plans : ~Previewed(p) => row.rev < p
  /\ \A p, q \in Plans : Previewed(p) /\ ~Previewed(q) => p < q

\* What is moved goes where its plan says; what is sent has a folder.
Targets ==
  /\ \A p \in Plans : plan[p].move # NoMove => plan[p].move.new = plan[p].date
  /\ \A p \in Plans : Running(p) /\ move # NoMove => move.new = plan[p].date
  /\ jpc \in {"link", "publish", "unlink"} => move # NoMove
  /\ jpc \in {"idle", "row", "adopt"} => move = NoMove
  /\ up.pc # "idle" => up.to \in Place

\* A plan has a job from its confirmation on; only a preview is being confirmed.
JobsOfPlans ==
  /\ \A p \in Plans : jst[p] # "none" <=> Agreed(p)
  /\ asked # NoPlanYet => plan[asked].st = "preview"

WorkInv == DatesTypeOK /\ OneWorks /\ InOrder /\ Targets /\ JobsOfPlans

\* How a job that is done, or has failed, leaves the others.
LEMMA JobEndsType ==
  ASSUME WorkInv, NEW p \in Plans, Running(p), NEW st \in {"failed", "ended"}, JobEnds(p, st)
  PROVE  /\ jst' \in [Plans -> {"none", "queued", "running", "failed", "ended"}]
         /\ jpc' = "idle" /\ move' \in Moves /\ semaphoreHolder' = "nobody"
         /\ \A q \in Plans : jst'[q] # "running"
         /\ semaphoreHolder = "job" /\ up.pc # "copy"
  BY DEF WorkInv, DatesTypeOK, OneWorks, Running, JobEnds, Moves, NoMove

LEMMA WorkInvInit == DatesInit => WorkInv
<1> SUFFICES ASSUME DatesInit PROVE WorkInv
  OBVIOUS
<1>1. NoPlanYet \in 0 .. MaxPlans /\ 0 \in 0 .. MaxDateTroubles /\ Original \in Dates
  BY DateCorrectionAssumption DEF DateCorrectionAssumption, NoPlanYet
<1>2. NoPlan \in [st : {"none", "preview", "confirmed", "done"}, rev : 0 .. MaxPlans,
                  date : Dates, move : Moves, candidate : BOOLEAN]
  BY <1>1 DEF NoPlan, Moves, NoMove, NoPlanYet
<1>3. Home \in Place
  BY <1>1 DEF DatesInit, Home, Place
<1>4. DatesTypeOK
  <2>1. row \in [st : {"review", "trusted", "applying", "confirmed"}, date : Dates,
                  rev : 0 .. MaxPlans, corr : Plans \cup {NoPlanYet}]
    BY <1>1 DEF DatesInit, NoPlanYet
  <2>2. /\ clip \in [st : {"none", "uploading", "done", "error"}, at : Place \cup {"nowhere"}]
        /\ copies \subseteq Place
    BY <1>1, <1>3 DEF DatesInit, Place
  <2>3. plan \in [Plans -> [st : {"none", "preview", "confirmed", "done"},
                            rev : 0 .. MaxPlans, date : Dates, move : Moves, candidate : BOOLEAN]]
    BY <1>2 DEF DatesInit
  <2>4. up \in [pc : {"idle", "check", "wait", "copy", "sent", "good", "bad"},
                to : Place \cup {"nowhere"}, date : Dates]
    BY <1>1 DEF DatesInit
  <2>5. move \in Moves
    BY DEF DatesInit, Moves, NoMove
  <2>6. QED
    BY <1>1, <2>1, <2>2, <2>3, <2>4, <2>5 DEF DatesInit, DatesTypeOK
<1>5. OneWorks
  BY DEF DatesInit, OneWorks, Running
<1>6. InOrder
  BY DateCorrectionAssumption DEF DateCorrectionAssumption, DatesInit, InOrder, Previewed, NoPlan, Plans
<1>7. Targets
  BY DEF DatesInit, Targets, NoPlan, Running
<1>8. JobsOfPlans
  BY DEF DatesInit, JobsOfPlans, NoPlan, Agreed
<1>9. QED
  BY <1>4, <1>5, <1>6, <1>7, <1>8 DEF WorkInv

\* A job that fails leaves the rest as it was.
LEMMA JobEndsKeeps ==
  ASSUME WorkInv, NEW p \in Plans, Running(p), JobEnds(p, "failed"), InOrder',
         UNCHANGED <<row, clip, copies, plan, asked, up, overlap>>,
         dateTroubles' \in 0 .. MaxDateTroubles
  PROVE  WorkInv'
<1>1. DatesTypeOK'
  BY JobEndsType DEF WorkInv, DatesTypeOK
<1>2. OneWorks'
  BY JobEndsType DEF WorkInv, OneWorks, Running
<1>3. Targets'
  BY JobEndsType DEF JobEnds, WorkInv, Targets, Running
<1>4. JobsOfPlans'
  BY DEF JobEnds, WorkInv, DatesTypeOK, JobsOfPlans, Agreed, Running
<1>5. QED
  BY <1>1, <1>2, <1>3, <1>4 DEF WorkInv

LEMMA WorkInvStep == WorkInv /\ [DatesNext]_datesVars => WorkInv'
<1> SUFFICES ASSUME WorkInv, [DatesNext]_datesVars PROVE WorkInv'
  OBVIOUS
<1> USE DEF datesVars, requested, jobState
<1>a. Plans \subseteq Nat /\ (\A p \in Plans : p \in 0 .. MaxPlans) /\ NoPlanYet \in 0 .. MaxPlans
      /\ MaxPlans \in Nat /\ Original \in Dates
  BY DateCorrectionAssumption DEF DateCorrectionAssumption, Plans, NoPlanYet
<1>1. ASSUME NEW p \in Plans, NEW d \in Dates, Preview(p, d) PROVE WorkInv'
  <2> DEFINE m == [st |-> "preview", rev |-> row.rev, date |-> d,
                   move |-> IF clip.st = "done" THEN [old |-> clip.at, new |-> d] ELSE NoMove,
                   candidate |-> Original \in copies]
  <2>1. plan' = [plan EXCEPT ![p] = m]
    BY <1>1 DEF Preview
  <2>2. m.move \in Moves
    BY <1>1 DEF WorkInv, DatesTypeOK, Moves, NoMove, Place
  <2>3. m \in [st : {"none", "preview", "confirmed", "done"}, rev : 0 .. MaxPlans,
               date : Dates, move : Moves, candidate : BOOLEAN]
    BY <2>2, <1>1 DEF WorkInv, DatesTypeOK
  <2>4. m.st = "preview" /\ m.rev = row.rev
    OBVIOUS
  <2> HIDE DEF m
  <2>5. DatesTypeOK'
    BY <1>1, <2>1, <2>3 DEF Preview, WorkInv, DatesTypeOK
  <2>6. OneWorks'
    BY <1>1 DEF Preview, WorkInv, OneWorks, Running, Targets, JobsOfPlans, Agreed
  <2>7. InOrder'
    <3>1. ~Previewed(p) /\ \A q \in Plans : q < p => Previewed(q)
      BY <1>1 DEF Preview, Previewed
    <3>2. \A q \in Plans : plan'[q] = IF q = p THEN m ELSE plan[q]
      BY <2>1 DEF WorkInv, DatesTypeOK
    <3>3. row' = row /\ row.rev \in Nat
      BY <1>1 DEF Preview, WorkInv, DatesTypeOK
    <3>4. QED
      BY <1>a, <2>4, <3>1, <3>2, <3>3 DEF WorkInv, InOrder, Previewed
  <2>9. Targets'
    <3>1. \A q \in Plans : plan'[q] = IF q = p THEN m ELSE plan[q]
      BY <2>1 DEF WorkInv, DatesTypeOK
    <3>2. m.move # NoMove => m.move.new = m.date
      BY DEF m
    <3>3. ~Running(p)
      BY <1>1 DEF Preview, WorkInv, JobsOfPlans, Agreed, Running
    <3>4. QED
      BY <1>1, <3>1, <3>2, <3>3 DEF Preview, WorkInv, Targets, Running
  <2>10. JobsOfPlans'
    <3>1. \A q \in Plans : plan'[q] = IF q = p THEN m ELSE plan[q]
      BY <2>1 DEF WorkInv, DatesTypeOK
    <3>2. QED
      BY <1>1, <2>4, <3>1 DEF Preview, WorkInv, DatesTypeOK, JobsOfPlans, Agreed
  <2>8. QED
    BY <2>5, <2>6, <2>7, <2>9, <2>10 DEF WorkInv
\* The other steps make no preview: they keep the order unless they raise the revision.
<1>b. ASSUME row'.rev = row.rev,
             \A p \in Plans : plan'[p].rev = plan[p].rev /\ (Previewed(p)' <=> Previewed(p))
      PROVE  InOrder'
  BY <1>b, <1>a DEF WorkInv, InOrder
<1>c. ASSUME plan' = plan PROVE \A p \in Plans : plan'[p].rev = plan[p].rev /\ (Previewed(p)' <=> Previewed(p))
  BY <1>c DEF Previewed
<1>2. ASSUME NEW p \in Plans, ConfirmCheck(p) PROVE WorkInv'
  BY <1>2, <1>b, <1>c DEF ConfirmCheck, WorkInv, DatesTypeOK, OneWorks, Running, Targets, JobsOfPlans, Agreed
<1>3. CASE ConfirmCommit
  <2>1. asked \in Plans
    BY <1>3 DEF ConfirmCommit, WorkInv, DatesTypeOK
  <2>2. \A p \in Plans : plan'[p].rev = plan[p].rev /\ (plan'[p].st = plan[p].st \/ p = asked)
                         /\ plan'[asked].st = "confirmed"
    BY <1>3, <2>1 DEF ConfirmCommit, WorkInv, DatesTypeOK
  <2>3. DatesTypeOK'
    BY <1>3, <1>a, <2>1 DEF ConfirmCommit, WorkInv, DatesTypeOK
  <2>4. \A p \in Plans : /\ plan'[p].date = plan[p].date /\ plan'[p].move = plan[p].move
                         /\ jst'[p] = IF p = asked THEN "queued" ELSE jst[p]
    BY <1>3, <2>1 DEF ConfirmCommit, WorkInv, DatesTypeOK
  <2>5. ~Running(asked) /\ Previewed(asked)
    BY <1>3, <2>1 DEF ConfirmCommit, WorkInv, JobsOfPlans, Agreed, Running, Previewed
  <2>6. \A p \in Plans : Running(p)' <=> Running(p)
    BY <2>4, <2>5 DEF Running
  <2>7. OneWorks' /\ Targets'
    BY <1>3, <2>4, <2>6 DEF ConfirmCommit, WorkInv, OneWorks, Targets
  <2>8. JobsOfPlans'
    BY <1>3, <2>1, <2>2, <2>4 DEF ConfirmCommit, WorkInv, JobsOfPlans, Agreed
  <2>9. InOrder'
    BY <1>3, <1>b, <2>1, <2>2, <2>5 DEF ConfirmCommit, WorkInv, DatesTypeOK, Previewed
  <2>10. QED
    BY <2>3, <2>7, <2>8, <2>9 DEF WorkInv
<1>4. ASSUME NEW p \in Plans, Retry(p) PROVE WorkInv'
  BY <1>4, <1>b, <1>c DEF Retry, WorkInv, DatesTypeOK, OneWorks, Running, Targets, JobsOfPlans, Agreed
<1>5. CASE Doubt
  BY <1>5, <1>b, <1>c DEF Doubt, WorkInv, DatesTypeOK, OneWorks, Running, Targets, JobsOfPlans, Agreed
<1>6. ASSUME NEW p \in Plans, JobBegin(p) PROVE WorkInv'
  BY <1>6, <1>b, <1>c DEF JobBegin, WorkInv, DatesTypeOK, OneWorks, Running, Targets, JobsOfPlans, Agreed
<1>7. ASSUME NEW p \in Plans, JobRow(p) PROVE WorkInv'
  <2>1. CASE MayApply(p)
    <3>1. JobMove(p) \in Moves /\ (JobMove(p) # NoMove => JobMove(p).new = plan[p].date)
      BY <1>a DEF JobMove, WorkInv, DatesTypeOK, Targets, Moves, Place
    <3>2. row' = [row EXCEPT !.date = plan[p].date, !.corr = p] /\ plan[p].date \in Dates
      BY <1>7, <2>1 DEF JobRow, WorkInv, DatesTypeOK
    <3>3. /\ move' = JobMove(p) /\ jpc' \in {"adopt", "journal"} /\ jpc = "row" /\ Running(p)
          /\ jpc' = "adopt" => move' = NoMove
          /\ UNCHANGED <<jst, semaphoreHolder, clip, copies, plan, asked, up, overlap, dateTroubles>>
      BY <1>7, <2>1 DEF JobRow, Running
    <3> HIDE DEF JobMove
    <3>4. DatesTypeOK'
      BY <3>1, <3>2, <3>3 DEF WorkInv, DatesTypeOK
    <3>5. OneWorks' /\ JobsOfPlans'
      BY <3>3 DEF WorkInv, OneWorks, Running, JobsOfPlans, Agreed
    <3>6. Targets'
      BY <3>1, <3>3 DEF WorkInv, OneWorks, Running, Targets
    <3>7. row'.rev = row.rev
      BY <3>2 DEF WorkInv, DatesTypeOK
    <3>8. QED
      BY <1>b, <1>c, <3>3, <3>4, <3>5, <3>6, <3>7 DEF WorkInv
  <2>2. CASE ~MayApply(p)
    <3>1. JobEnds(p, "failed") /\ Running(p) /\ UNCHANGED <<row, clip, copies, plan, asked, up, overlap, dateTroubles>>
      BY <1>7, <2>2 DEF JobRow, Running
    <3>2. QED
      <4>1. InOrder' /\ dateTroubles' \in 0 .. MaxDateTroubles
        BY <1>b, <1>c, <3>1 DEF WorkInv, DatesTypeOK
      <4>2. QED
        BY <3>1, <4>1, JobEndsKeeps
  <2>3. QED
    BY <2>1, <2>2
<1>8. ASSUME NEW p \in Plans, JobAdopt(p) PROVE WorkInv'
  BY <1>8, <1>a, <1>b, <1>c DEF JobAdopt, WorkInv, DatesTypeOK, OneWorks, Running, Targets, JobsOfPlans, Agreed, Moves, Place
<1>9. ASSUME NEW p \in Plans, JobJournal(p) PROVE WorkInv'
  <2>1. \A q \in Plans : plan'[q].rev = plan[q].rev /\ plan'[q].st = plan[q].st
    BY <1>9 DEF JobJournal, WorkInv, DatesTypeOK
  <2>2. DatesTypeOK'
    BY <1>9 DEF JobJournal, JobGoes, WorkInv, DatesTypeOK
  <2>3. OneWorks' /\ Targets' /\ JobsOfPlans'
    <3>1. \A q \in Plans : plan'[q].date = plan[q].date
                           /\ plan'[q].move = IF q = p THEN move ELSE plan[q].move
      BY <1>9 DEF JobJournal, WorkInv, DatesTypeOK
    <3>2. QED
      BY <1>9, <2>1, <3>1 DEF JobJournal, JobGoes, WorkInv, OneWorks, Running, Targets, JobsOfPlans, Agreed
  <2>4. QED
    BY <1>9, <1>b, <2>1, <2>2, <2>3 DEF JobJournal, WorkInv, Previewed
<1>10. ASSUME NEW p \in Plans, JobLink(p) PROVE WorkInv'
  <2>1. move.new \in Dates
    BY <1>10 DEF JobLink, WorkInv, DatesTypeOK, Targets, Running
  <2>2. copies' \subseteq Place
    BY <1>10, <2>1 DEF JobLink, WorkInv, DatesTypeOK, Place
  <2>3. clip' \in [st : {"none", "uploading", "done", "error"}, at : Place \cup {"nowhere"}]
    BY <1>10 DEF JobLink, WorkInv, DatesTypeOK
  <2>4. jpc' \in {"confirm", "publish"} /\ UNCHANGED <<jst, move>>
    BY <1>10 DEF JobLink, JobGoes
  <2>5. QED
    BY <1>10, <1>b, <1>c, <2>2, <2>3, <2>4 DEF JobLink, WorkInv, DatesTypeOK, OneWorks, Running, Targets, JobsOfPlans, Agreed
<1>11. ASSUME NEW p \in Plans, JobPublish(p) PROVE WorkInv'
  BY <1>11, <1>b, <1>c DEF JobPublish, JobGoes, WorkInv, DatesTypeOK, OneWorks, Running, Targets, JobsOfPlans, Agreed, Moves, Place
<1>12. ASSUME NEW p \in Plans, JobUnlink(p) PROVE WorkInv'
  BY <1>12, <1>b, <1>c DEF JobUnlink, JobGoes, WorkInv, DatesTypeOK, OneWorks, Running, Targets, JobsOfPlans, Agreed
<1>13. ASSUME NEW p \in Plans, JobConfirm(p) PROVE WorkInv'
  <2>1. row' = [row EXCEPT !.st = "confirmed", !.rev = plan[p].rev + 1]
    BY <1>13 DEF JobConfirm
  <2>2. plan[p].rev \in Nat /\ plan[p].rev < p
    BY DEF WorkInv, DatesTypeOK, InOrder
  <2>3. plan[p].rev + 1 \in 0 .. MaxPlans /\ plan[p].rev + 1 <= p
    BY <1>a, <2>2
  <2>4. DatesTypeOK'
    BY <1>13, <2>1, <2>3 DEF JobConfirm, JobGoes, WorkInv, DatesTypeOK
  <2>5. Previewed(p)
    BY <1>13 DEF JobConfirm, WorkInv, JobsOfPlans, Agreed, Previewed
  <2>6. row'.rev = plan[p].rev + 1 /\ plan' = plan
    BY <1>13, <2>1 DEF JobConfirm, WorkInv, DatesTypeOK
  <2>7. InOrder'
    <3>1. \A q \in Plans : Previewed(q)' <=> Previewed(q)
      BY <2>6 DEF Previewed
    <3>2. ASSUME NEW q \in Plans, ~Previewed(q), q <= p PROVE FALSE
      BY <2>5, <3>2, <1>a DEF WorkInv, InOrder, Previewed
    <3>3. \A q \in Plans : ~Previewed(q) => row'.rev < q
      BY <2>3, <2>6, <3>2, <1>a
    <3>4. QED
      BY <2>6, <3>1, <3>3 DEF WorkInv, InOrder
  <2>8. OneWorks' /\ Targets' /\ JobsOfPlans'
    BY <1>13 DEF JobConfirm, JobGoes, WorkInv, OneWorks, Running, Targets, JobsOfPlans, Agreed
  <2>9. QED
    BY <2>4, <2>7, <2>8 DEF WorkInv
<1>14. ASSUME NEW p \in Plans, JobFinish(p) PROVE WorkInv'
  <2>1. JobEnds(p, "ended") /\ Running(p)
    BY <1>14 DEF JobFinish, Running
  <2>2. \A q \in Plans : plan'[q].rev = plan[q].rev /\ plan'[q].move = plan[q].move
                         /\ plan'[q].date = plan[q].date
                         /\ plan'[q].st = IF q = p THEN "done" ELSE plan[q].st
    BY <1>14 DEF JobFinish, WorkInv, DatesTypeOK
  <2>3. Previewed(p) /\ Agreed(p)
    BY <2>1 DEF WorkInv, JobsOfPlans, Running, Agreed, Previewed
  <2>4. DatesTypeOK'
    BY <1>14, <2>1, JobEndsType DEF JobFinish, WorkInv, DatesTypeOK
  <2>5. OneWorks'
    BY <1>14, <2>1, JobEndsType DEF JobFinish, WorkInv, OneWorks, Running
  <2>8. Targets'
    BY <1>14, <2>1, <2>2, JobEndsType DEF JobFinish, JobEnds, WorkInv, Targets, Running
  <2>9. \A q \in Plans : jst'[q] = IF q = p THEN "ended" ELSE jst[q]
    BY <2>1 DEF JobEnds, WorkInv, DatesTypeOK
  <2>10. JobsOfPlans'
    BY <1>14, <2>2, <2>3, <2>9 DEF JobFinish, WorkInv, DatesTypeOK, JobsOfPlans, Agreed
  <2>6. InOrder'
    BY <1>14, <1>b, <2>2, <2>3 DEF JobFinish, Previewed
  <2>7. QED
    BY <2>4, <2>5, <2>6, <2>8, <2>10 DEF WorkInv
<1>15. CASE UploadBegin
  <2>1. Home \in Place
    BY DEF Home, WorkInv, DatesTypeOK, Place
  <2>2. QED
    BY <1>15, <1>b, <1>c, <2>1 DEF UploadBegin, WorkInv, DatesTypeOK, OneWorks, Running, Targets, JobsOfPlans, Agreed
<1>16. CASE UploadCheck
  BY <1>16, <1>b, <1>c DEF UploadCheck, UpGoes, WorkInv, DatesTypeOK, OneWorks, Running, Targets, JobsOfPlans, Agreed
<1>17. CASE UploadAcquire
  BY <1>17, <1>b, <1>c DEF UploadAcquire, UpGoes, WorkInv, DatesTypeOK, OneWorks, Running, Targets, JobsOfPlans, Agreed
<1>18. CASE UploadSend
  BY <1>18, <1>b, <1>c DEF UploadSend, UpGoes, WorkInv, DatesTypeOK, OneWorks, Running, Targets, JobsOfPlans, Agreed
<1>19. CASE UploadVerify
  BY <1>19, <1>b, <1>c DEF UploadVerify, UpGoes, WorkInv, DatesTypeOK, OneWorks, Running, Targets, JobsOfPlans, Agreed
<1>20. CASE UploadRecord
  BY <1>20, <1>b, <1>c DEF UploadRecord, UpGoes, WorkInv, DatesTypeOK, OneWorks, Running, Targets, JobsOfPlans, Agreed
<1>21. CASE DateTrouble
  <2>1. dateTroubles' \in 0 .. MaxDateTroubles
    BY <1>21, DateCorrectionAssumption DEF DateCorrectionAssumption, DateTrouble, WorkInv, DatesTypeOK
  <2>2. CASE DatesCrash
    BY <1>b, <1>c, <2>1, <2>2
       DEF DatesCrash, Interrupted, UpGoes, WorkInv, DatesTypeOK, OneWorks, Running, Targets, JobsOfPlans, Agreed, Moves, NoMove
  <2>3. ASSUME NEW p \in Plans, JobFails(p) PROVE WorkInv'
    <3>1. JobEnds(p, "failed") /\ Running(p)
      BY <2>3 DEF JobFails, Running
    <3>2. QED
      BY <1>b, <1>c, <2>1, <2>3, <3>1, JobEndsKeeps DEF JobFails
  <2>4. QED
    BY <1>21, <2>2, <2>3 DEF DateTrouble
<1>22. CASE UNCHANGED datesVars
  BY <1>22, <1>b, <1>c DEF WorkInv, DatesTypeOK, OneWorks, Running, Targets, JobsOfPlans, Agreed
<1>23. QED
  BY <1>1, <1>2, <1>3, <1>4, <1>5, <1>6, <1>7, <1>8, <1>9, <1>10, <1>11, <1>12, <1>13, <1>14,
     <1>15, <1>16, <1>17, <1>18, <1>19, <1>20, <1>21, <1>22
     DEF DatesNext, CorrectionStep, UploadStep

LEMMA WorkInvHolds == DatesSpec => []WorkInv
  BY WorkInvInit, WorkInvStep, PTL DEF DatesSpec

\* For any dates, previews and failures, the rows, the plans and the jobs have their types; a
\* revision grows at most as often as there are previews.
THEOREM DatesTypes == DatesSpec => []DatesTypeOK
<1>1. WorkInv => DatesTypeOK
  BY DEF WorkInv
<1>2. QED
  BY <1>1, WorkInvHolds, PTL

(***************************************************************************)
(* Which correction a recording has, and which ones can no longer touch    *)
(* it: those of a revision that one which is done has left behind.         *)
(***************************************************************************)

Overtaken(q) == /\ plan[q].rev < row.rev
                 /\ \A p \in Plans : p # q /\ Previewed(p) /\ plan[p].rev <= plan[q].rev => row.corr # p

RevisionInv ==
  /\ \A p \in Plans : Previewed(p) => plan[p].rev <= row.rev
  /\ row.corr # NoPlanYet =>
       Agreed(row.corr) /\ row.rev \in {plan[row.corr].rev, plan[row.corr].rev + 1}
  /\ \A p \in Plans : Running(p) /\ jpc # "row" => row.corr = p
  /\ \A p \in Plans : Running(p) /\ jpc = "finish" => row.rev = plan[p].rev + 1
  /\ \A p \in Plans : jst[p] = "ended" => plan[p].st = "done"
  /\ \A p \in Plans : Running(p) => plan[p].st # "done"
  /\ \A q \in Plans : plan[q].st = "done" => Overtaken(q)
  /\ \A p \in Plans : Agreed(p) => row.st \in {"applying", "confirmed"}
  /\ row.st = "confirmed" => row.corr # NoPlanYet
  /\ OneOfTwoPreviews

LEMMA RevisionInit == DatesInit => RevisionInv
  BY DEF DatesInit, RevisionInv, Previewed, Agreed, Running, NoPlan, OneOfTwoPreviews

\* A step that changes neither the plans' states nor what is on record of the last correction.
LEMMA RevisionKept ==
  ASSUME RevisionInv, row'.rev = row.rev, row'.corr = row.corr,
         row'.st = row.st \/ (row.st = "trusted" /\ row'.st = "review"),
         \A p \in Plans : plan'[p].st = plan[p].st /\ plan'[p].rev = plan[p].rev,
         \A p \in Plans : jst'[p] = "ended" => jst[p] = "ended" \/ plan[p].st = "done",
         \A p \in Plans : Running(p)' => plan[p].st # "done" /\ (jpc' = "row" \/ (Running(p) /\ jpc # "row")),
         jpc' # "finish" \/ jpc' = jpc, row.corr \in Plans \cup {NoPlanYet}
  PROVE  RevisionInv'
  BY DEF RevisionInv, Overtaken, Previewed, Agreed, Running, OneOfTwoPreviews

LEMMA RevisionStep == WorkInv /\ RevisionInv /\ [DatesNext]_datesVars => RevisionInv'
<1> SUFFICES ASSUME WorkInv, RevisionInv, [DatesNext]_datesVars PROVE RevisionInv'
  OBVIOUS
<1> USE DEF datesVars, requested, jobState
<1>a. /\ row.rev \in Nat /\ NoPlanYet \notin Plans
      /\ \A p \in Plans : plan[p].rev \in Nat
      /\ row.corr \in Plans \cup {NoPlanYet}
  BY DEF WorkInv, DatesTypeOK, Plans, NoPlanYet
<1>b. ASSUME plan' = plan PROVE \A p \in Plans : plan'[p].st = plan[p].st /\ plan'[p].rev = plan[p].rev
  BY <1>b
<1>1. ASSUME NEW p \in Plans, NEW d \in Dates, Preview(p, d) PROVE RevisionInv'
  <2>1. \A q \in Plans : IF q = p THEN plan'[q].st = "preview" /\ plan'[q].rev = row.rev
                                    ELSE plan'[q] = plan[q]
    BY <1>1 DEF Preview, WorkInv, DatesTypeOK
  <2>2. ~Agreed(p) /\ jst[p] = "none" /\ row.corr # p
    BY <1>1, <1>a DEF Preview, Agreed, WorkInv, JobsOfPlans, RevisionInv
  <2>3. UNCHANGED <<row, jst, jpc>>
    BY <1>1 DEF Preview
  <2>4. QED
    BY <1>a, <2>1, <2>2, <2>3 DEF RevisionInv, Overtaken, Previewed, Agreed, Running, OneOfTwoPreviews
<1>2. ASSUME NEW p \in Plans, ConfirmCheck(p) PROVE RevisionInv'
  BY <1>2, <1>a, <1>b, RevisionKept DEF ConfirmCheck, RevisionInv, Running
<1>3. CASE ConfirmCommit
  <2>1. asked \in Plans /\ plan[asked].st = "preview"
    BY <1>3 DEF ConfirmCommit, WorkInv, DatesTypeOK, JobsOfPlans
  <2>2. \A p \in Plans : plan'[p].rev = plan[p].rev
                         /\ plan'[p].st = IF p = asked THEN "confirmed" ELSE plan[p].st
    BY <1>3, <2>1 DEF ConfirmCommit, WorkInv, DatesTypeOK
  <2>3. \A p \in Plans : jst'[p] = IF p = asked THEN "queued" ELSE jst[p]
    BY <1>3, <2>1 DEF ConfirmCommit, WorkInv, DatesTypeOK
  <2>4. row'.rev = row.rev /\ row'.corr = row.corr /\ row'.st = "applying" /\ jpc' = jpc
    BY <1>3 DEF ConfirmCommit, WorkInv, DatesTypeOK
  <2>5. QED
    BY <2>1, <2>2, <2>3, <2>4, <1>a DEF RevisionInv, Overtaken, Previewed, Agreed, Running, OneOfTwoPreviews
<1>4. ASSUME NEW p \in Plans, Retry(p) PROVE RevisionInv'
  BY <1>4, <1>a, <1>b, RevisionKept DEF Retry, RevisionInv, Running, WorkInv, DatesTypeOK
<1>5. CASE Doubt
  <2>1. row' = [row EXCEPT !.st = "review"] /\ row.st = "trusted" /\ UNCHANGED <<plan, jst, jpc>>
    BY <1>5 DEF Doubt
  <2>2. row'.rev = row.rev /\ row'.corr = row.corr /\ row'.st = "review"
    BY <2>1 DEF WorkInv, DatesTypeOK
  <2>3. QED
    BY <2>1, <2>2, <1>a, <1>b, RevisionKept DEF RevisionInv, Running
<1>6. ASSUME NEW p \in Plans, JobBegin(p) PROVE RevisionInv'
  <2>1. ~(\E q \in Plans : Running(q)) /\ jpc = "idle"
    BY <1>6 DEF JobBegin, WorkInv, OneWorks
  <2>2. CASE plan[p].st = "done"
    BY <1>6, <2>1, <2>2, <1>a, <1>b, RevisionKept DEF JobBegin, RevisionInv, Running, WorkInv, DatesTypeOK
  <2>3. CASE plan[p].st # "done"
    BY <1>6, <2>1, <2>3, <1>a, <1>b, RevisionKept DEF JobBegin, RevisionInv, Running, WorkInv, DatesTypeOK
  <2>4. QED
    BY <2>2, <2>3
\* Where a job ends, none runs.
<1>c. ASSUME NEW p \in Plans, Running(p), JobEnds(p, "failed"), UNCHANGED <<row, plan>> PROVE RevisionInv'
  <2>1. \A q \in Plans : jst'[q] # "running" /\ (jst'[q] = "ended" => jst[q] = "ended")
    BY <1>c, JobEndsType DEF JobEnds, WorkInv, DatesTypeOK
  <2>2. QED
    BY <1>c, <1>b, <2>1, <1>a, RevisionKept DEF JobEnds, Running
<1>7. ASSUME NEW p \in Plans, JobRow(p) PROVE RevisionInv'
  <2>1. CASE MayApply(p)
    <3>1. row' = [row EXCEPT !.date = plan[p].date, !.corr = p] /\ UNCHANGED <<plan, jst>>
          /\ jpc' \in {"adopt", "journal"} /\ Running(p)
      BY <1>7, <2>1 DEF JobRow, Running
    <3>2. row'.rev = row.rev /\ row'.corr = p /\ row'.st = row.st
      BY <3>1 DEF WorkInv, DatesTypeOK
    <3>3. Agreed(p) /\ Previewed(p) /\ \A q \in Plans : Running(q) => q = p
      BY <3>1 DEF WorkInv, JobsOfPlans, OneWorks, Running, Agreed, Previewed
    <3>4. row.rev \in {plan[p].rev, plan[p].rev + 1}
      BY <2>1, <1>a DEF MayApply, RevisionInv
    <3>5. \A q \in Plans : plan[q].st = "done" => q # p /\ ~(plan[p].rev <= plan[q].rev)
      BY <2>1, <3>1, <3>3, <1>a DEF MayApply, RevisionInv, Overtaken
    <3>6. \A q \in Plans : plan[q].st = "done" => Overtaken(q)'
      BY <3>1, <3>2, <3>5 DEF RevisionInv, Overtaken, Previewed
    <3>7. QED
      BY <1>a, <3>1, <3>2, <3>3, <3>4, <3>6 DEF RevisionInv, Previewed, Agreed, Running, OneOfTwoPreviews
  <2>2. CASE ~MayApply(p)
    BY <1>7, <2>2, <1>c DEF JobRow, Running
  <2>3. QED
    BY <2>1, <2>2
<1>d. ASSUME NEW p \in Plans, Running(p), jpc \notin {"idle", "row"}, jpc' \notin {"idle", "row", "finish"},
             UNCHANGED <<row, jst>>, \A q \in Plans : plan'[q].st = plan[q].st /\ plan'[q].rev = plan[q].rev
      PROVE  RevisionInv'
  BY <1>a, <1>d, RevisionKept DEF RevisionInv, Running
<1>8. ASSUME NEW p \in Plans, JobAdopt(p) PROVE RevisionInv'
  BY <1>8, <1>b, <1>d DEF JobAdopt, Running
<1>9. ASSUME NEW p \in Plans, JobJournal(p) PROVE RevisionInv'
  <2>1. \A q \in Plans : plan'[q].rev = plan[q].rev /\ plan'[q].st = plan[q].st
    BY <1>9 DEF JobJournal, WorkInv, DatesTypeOK
  <2>2. QED
    BY <1>9, <1>d, <2>1 DEF JobJournal, JobGoes, Running
<1>10. ASSUME NEW p \in Plans, JobLink(p) PROVE RevisionInv'
  BY <1>10, <1>b, <1>d DEF JobLink, JobGoes, Running
<1>11. ASSUME NEW p \in Plans, JobPublish(p) PROVE RevisionInv'
  BY <1>11, <1>b, <1>d DEF JobPublish, JobGoes, Running
<1>12. ASSUME NEW p \in Plans, JobUnlink(p) PROVE RevisionInv'
  BY <1>12, <1>b, <1>d DEF JobUnlink, JobGoes, Running
<1>13. ASSUME NEW p \in Plans, JobConfirm(p) PROVE RevisionInv'
  <2>1. row' = [row EXCEPT !.st = "confirmed", !.rev = plan[p].rev + 1] /\ UNCHANGED <<plan, jst>>
        /\ Running(p) /\ jpc = "confirm" /\ jpc' = "finish"
    BY <1>13 DEF JobConfirm, JobGoes, Running
  <2>2. row.corr = p /\ Agreed(p) /\ row.rev <= plan[p].rev + 1
    BY <2>1, <1>a DEF RevisionInv
  <2>3. row'.rev = plan[p].rev + 1 /\ row'.corr = p /\ row'.st = "confirmed"
    BY <2>1, <2>2 DEF WorkInv, DatesTypeOK
  <2>4. \A q \in Plans : Running(q) => q = p
    BY <2>1 DEF WorkInv, OneWorks
  <2>5. QED
    BY <1>a, <2>1, <2>2, <2>3, <2>4 DEF RevisionInv, Overtaken, Previewed, Agreed, Running, OneOfTwoPreviews
<1>14. ASSUME NEW p \in Plans, JobFinish(p) PROVE RevisionInv'
  <2>1. JobEnds(p, "ended") /\ Running(p) /\ jpc = "finish" /\ row' = row
    BY <1>14 DEF JobFinish, Running
  <2>2. \A q \in Plans : plan'[q].rev = plan[q].rev /\ plan'[q].st = IF q = p THEN "done" ELSE plan[q].st
    BY <1>14 DEF JobFinish, WorkInv, DatesTypeOK
  <2>3. \A q \in Plans : jst'[q] = (IF q = p THEN "ended" ELSE jst[q]) /\ jst'[q] # "running"
    BY <2>1, JobEndsType DEF JobEnds, WorkInv, DatesTypeOK
  <2>4. row.corr = p /\ row.rev = plan[p].rev + 1 /\ Agreed(p)
    BY <2>1, <1>a DEF RevisionInv
  <2>5. QED
    BY <1>a, <2>1, <2>2, <2>3, <2>4 DEF RevisionInv, Overtaken, Previewed, Agreed, Running, OneOfTwoPreviews
<1>15. CASE UploadBegin
  BY <1>15, <1>a, <1>b, RevisionKept DEF UploadBegin, RevisionInv, Running
<1>16. CASE UploadStep
  BY <1>16, <1>a, <1>b, RevisionKept
     DEF UploadStep, UploadCheck, UploadAcquire, UploadSend, UploadVerify, UploadRecord, RevisionInv, Running
<1>17. CASE DateTrouble
  <2>1. CASE DatesCrash
    <3>1. \A q \in Plans : jst'[q] # "running" /\ (jst'[q] = "ended" => jst[q] = "ended")
      BY <2>1 DEF DatesCrash, Interrupted, WorkInv, DatesTypeOK
    <3>2. QED
      BY <2>1, <3>1, <1>a, <1>b, RevisionKept DEF DatesCrash, Running
  <2>2. ASSUME NEW p \in Plans, JobFails(p) PROVE RevisionInv'
    BY <2>2, <1>c DEF JobFails, Running
  <2>3. QED
    BY <1>17, <2>1, <2>2 DEF DateTrouble
<1>18. CASE UNCHANGED datesVars
  BY <1>18, <1>a, <1>b, RevisionKept DEF RevisionInv, Running
<1>19. QED
  BY <1>1, <1>2, <1>3, <1>4, <1>5, <1>6, <1>7, <1>8, <1>9, <1>10, <1>11, <1>12, <1>13, <1>14,
     <1>15, <1>16, <1>17, <1>18 DEF DatesNext, CorrectionStep

(***************************************************************************)
(* Where the recording lies, as long as no upload and no job were under    *)
(* way together.                                                           *)
(***************************************************************************)

Filed(m) == (clip.st = "done" => clip.at = row.date) /\ Old(m) \cap copies = {}

PlacesInv ==
  /\ up.pc # "idle" => jpc = "idle"
  /\ clip.st = "done" => clip.at \in copies
  /\ up.pc = "good" => up.to \in copies
  /\ jpc = "adopt" => Original \in copies
  /\ jpc \in {"publish", "unlink"} => move.new \in copies
  /\ jpc = "unlink" => clip.at = move.new
  /\ jpc = "journal" /\ move = NoMove => clip.st # "done"
  /\ jpc \in {"confirm", "finish"} => Filed(move)
  /\ \A p \in Plans : Running(p) /\ jpc \notin {"row", "adopt", "journal"} => plan[p].move = move
  /\ row.corr # NoPlanYet => row.date = plan[row.corr].date
  /\ row.corr # NoPlanYet /\ plan[row.corr].st = "done" =>
       Filed(plan[row.corr].move) /\ (up.pc # "idle" => up.to = row.date)

LEMMA PlacesInit == DatesInit => SendsToCurrentFolder /\ PlacesInv
<1> SUFFICES ASSUME DatesInit PROVE SendsToCurrentFolder /\ PlacesInv
  OBVIOUS
<1>1. clip.st = "done" => clip.at \in copies
  BY DEF DatesInit
<1>2. QED
  BY <1>1 DEF DatesInit, SendsToCurrentFolder, PlacesInv, Running

LEMMA FolderNames ==
  /\ "nowhere" \notin Place /\ "Holding" \notin Dates /\ Original \in Dates
  /\ Home \in {row.date, "Holding"} /\ (row.st \in APPROVED => Home = row.date)
  BY DateCorrectionAssumption DEF DateCorrectionAssumption, Place, Home

LEMMA SendsStep == WorkInv /\ SendsToCurrentFolder /\ [DatesNext]_datesVars => SendsToCurrentFolder'
<1> SUFFICES ASSUME WorkInv, SendsToCurrentFolder, [DatesNext]_datesVars PROVE SendsToCurrentFolder'
  OBVIOUS
<1> USE DEF datesVars, requested, jobState, SendsToCurrentFolder
<1>1. ASSUME UNCHANGED up, row'.date = row.date, row'.st = row.st \/ row'.st # "confirmed" PROVE SendsToCurrentFolder'
  BY <1>1
<1>2. CASE ConfirmCommit \/ Doubt
  BY <1>1, <1>2 DEF ConfirmCommit, Doubt, WorkInv, DatesTypeOK
<1>3. ASSUME NEW p \in Plans, JobRow(p) \/ JobConfirm(p) PROVE SendsToCurrentFolder'
  BY <1>3 DEF JobRow, JobConfirm, WorkInv, OneWorks
<1>4. CASE UploadAcquire
  <2>1. CASE StillCurrent
    <3>1. row.st \notin APPROVED => Home = "Holding"
      BY DEF Home
    <3>2. up' = [up EXCEPT !.pc = "copy"] /\ row' = row
      BY <1>4, <2>1 DEF UploadAcquire, UpGoes
    <3>3. up'.to = Home /\ up'.date = row.date
      BY <2>1, <3>2 DEF StillCurrent, WorkInv, DatesTypeOK
    <3>4. Home # "nowhere" /\ row.date \in Dates
      BY FolderNames DEF WorkInv, DatesTypeOK, Place
    <3>5. QED
      BY <3>2, <3>3, <3>4, FolderNames DEF APPROVED
  <2>2. CASE ~StillCurrent
    BY <1>4, <2>2 DEF UploadAcquire, UpGoes, WorkInv, DatesTypeOK
  <2>3. QED
    BY <2>1, <2>2
<1>5. CASE UploadBegin \/ UploadCheck \/ UploadSend \/ UploadVerify \/ UploadRecord \/ DatesCrash
  BY <1>5 DEF UploadBegin, UploadCheck, UploadSend, UploadVerify, UploadRecord, DatesCrash, UpGoes,
              WorkInv, DatesTypeOK
<1>6. CASE UNCHANGED <<up, row>>
  BY <1>6
<1>7. ASSUME NEW p \in Plans,
             \/ \E d \in Dates : Preview(p, d)
             \/ ConfirmCheck(p) \/ Retry(p) \/ CorrectionStep(p) \/ JobFails(p)
      PROVE  UNCHANGED <<up, row>> \/ JobRow(p) \/ JobConfirm(p)
  BY <1>7 DEF Preview, ConfirmCheck, Retry, CorrectionStep, JobFails, JobBegin, JobAdopt, JobJournal,
              JobLink, JobPublish, JobUnlink, JobFinish
<1>8. QED
  BY <1>2, <1>3, <1>4, <1>5, <1>6, <1>7 DEF DatesNext, UploadStep, DateTrouble

LEMMA PlacesStep ==
  ASSUME WorkInv, RevisionInv, PlacesInv, ~overlap, [DatesNext]_datesVars, ~overlap'
  PROVE  PlacesInv'
<1> USE DEF datesVars, requested, jobState
<1>a. /\ row.corr \in Plans \cup {NoPlanYet} /\ NoPlanYet \notin Plans
      /\ row.corr # NoPlanYet => Agreed(row.corr) /\ row.st \in {"applying", "confirmed"}
  BY DEF WorkInv, DatesTypeOK, Plans, NoPlanYet, RevisionInv
\* Steps that move nothing: a preview, a confirmation, a job that begins or fails.
<1>b. ASSUME UNCHANGED <<clip, copies>>, up'.pc = "idle" \/ up' = up,
             row'.date = row.date, row'.corr = row.corr,
             \A p \in Plans : Agreed(p) => plan'[p].date = plan[p].date /\ plan'[p].move = plan[p].move
                                           /\ (plan'[p].st = "done" <=> plan[p].st = "done"),
             \/ jpc' = jpc /\ move' = move /\ \A p \in Plans : Running(p)' => Running(p)
             \/ jpc' = "row" /\ up.pc = "idle"
             \/ jpc' = "idle" /\ \A p \in Plans : ~Running(p)'
      PROVE  PlacesInv'
  <2>2. \A p \in Plans : Running(p) => Agreed(p)
    BY DEF WorkInv, JobsOfPlans, Running
  <2>3. QED
    BY <1>a, <1>b, <2>2 DEF PlacesInv, Filed
<1>c. ASSUME plan' = plan
      PROVE  \A p \in Plans : Agreed(p) => plan'[p].date = plan[p].date /\ plan'[p].move = plan[p].move
                                           /\ (plan'[p].st = "done" <=> plan[p].st = "done")
  BY <1>c
<1>1. ASSUME NEW p \in Plans, NEW d \in Dates, Preview(p, d) PROVE PlacesInv'
  <2>1. \A q \in Plans : q # p => plan'[q] = plan[q]
    BY <1>1 DEF Preview, WorkInv, DatesTypeOK
  <2>2. ~Agreed(p)
    BY <1>1 DEF Preview, Agreed
  <2>3. QED
    BY <1>1, <1>b, <2>1, <2>2 DEF Preview, Running
<1>2. ASSUME NEW p \in Plans, ConfirmCheck(p) PROVE PlacesInv'
  BY <1>2, <1>b, <1>c DEF ConfirmCheck, Running
<1>3. CASE ConfirmCommit
  <2>1. asked \in Plans /\ plan[asked].st = "preview"
    BY <1>3 DEF ConfirmCommit, WorkInv, DatesTypeOK, JobsOfPlans
  <2>2. \A p \in Plans : p # asked => plan'[p] = plan[p]
    BY <1>3, <2>1 DEF ConfirmCommit, WorkInv, DatesTypeOK
  <2>3. ~Agreed(asked) /\ \A p \in Plans : Running(p)' => Running(p)
    BY <1>3, <2>1 DEF ConfirmCommit, Agreed, Running, WorkInv, DatesTypeOK
  <2>4. row'.date = row.date /\ row'.corr = row.corr
    BY <1>3 DEF ConfirmCommit, WorkInv, DatesTypeOK
  <2>5. QED
    BY <1>3, <1>b, <2>2, <2>3, <2>4 DEF ConfirmCommit
<1>4. ASSUME NEW p \in Plans, Retry(p) PROVE PlacesInv'
  BY <1>4, <1>b, <1>c DEF Retry, Running, WorkInv, DatesTypeOK
<1>5. CASE Doubt
  BY <1>5, <1>b, <1>c DEF Doubt, Running, WorkInv, DatesTypeOK
<1>6. ASSUME NEW p \in Plans, JobBegin(p) PROVE PlacesInv'
  <2>1. up.pc = "idle"
    BY <1>6 DEF JobBegin
  <2>2. CASE plan[p].st = "done"
    BY <1>6, <1>b, <1>c, <2>1, <2>2 DEF JobBegin, Running, WorkInv, DatesTypeOK
  <2>3. CASE plan[p].st # "done"
    BY <1>6, <1>b, <1>c, <2>1, <2>3 DEF JobBegin
  <2>4. QED
    BY <2>2, <2>3
<1>d. ASSUME NEW p \in Plans, Running(p), JobEnds(p, "failed"), UNCHANGED <<row, clip, copies, plan, up>>
      PROVE  PlacesInv'
  BY <1>d, <1>b, <1>c, JobEndsType DEF Running
\* What the job that runs knows.
<1>e. ASSUME NEW p \in Plans, Running(p)
      PROVE  /\ up.pc = "idle" /\ plan[p].st # "done" /\ Agreed(p) /\ \A q \in Plans : Running(q) => q = p
             /\ jpc # "row" => row.corr = p /\ row.date = plan[p].date /\ p # NoPlanYet
             /\ move # NoMove => move.new = plan[p].date
  BY <1>e, <1>a DEF WorkInv, OneWorks, JobsOfPlans, Agreed, Targets, Running, PlacesInv, RevisionInv
<1>7. ASSUME NEW p \in Plans, JobRow(p) PROVE PlacesInv'
  <2>1. CASE MayApply(p)
    <3>1. row' = [row EXCEPT !.date = plan[p].date, !.corr = p] /\ UNCHANGED <<clip, copies, plan, up, jst>>
          /\ move' = JobMove(p) /\ Running(p)
          /\ jpc' = IF move' = NoMove /\ plan[p].candidate /\ Original \in copies THEN "adopt" ELSE "journal"
      BY <1>7, <2>1 DEF JobRow, Running
    <3>2. row'.date = plan[p].date /\ row'.corr = p
      BY <3>1 DEF WorkInv, DatesTypeOK
    <3>3. move' = NoMove => clip.st # "done"
      BY <3>1, FolderNames DEF JobMove, NoMove, WorkInv, DatesTypeOK, Place
    <3>4. up.pc = "idle" /\ plan[p].st # "done"
      BY <3>1, <1>e
    <3> HIDE DEF JobMove
    <3>5. QED
      BY <3>1, <3>2, <3>3, <3>4 DEF PlacesInv, Running
  <2>2. CASE ~MayApply(p)
    BY <1>7, <2>2, <1>d DEF JobRow, Running
  <2>3. QED
    BY <2>1, <2>2
<1>8. ASSUME NEW p \in Plans, JobAdopt(p) PROVE PlacesInv'
  <2>1. move'.new = plan[p].date /\ move' # NoMove
    BY <1>8, FolderNames DEF JobAdopt, NoMove, WorkInv, DatesTypeOK, Place
  <2>2. QED
    BY <1>8, <1>e, <2>1 DEF JobAdopt, PlacesInv, Running
<1>9. ASSUME NEW p \in Plans, JobJournal(p) PROVE PlacesInv'
  <2>1. /\ plan'[p].move = move /\ plan'[p].date = plan[p].date /\ plan'[p].st = plan[p].st
        /\ Running(p) /\ jpc = "journal" /\ jpc' = (IF move = NoMove THEN "confirm" ELSE "link")
        /\ UNCHANGED <<row, clip, copies, up, jst, move>>
    BY <1>9 DEF JobJournal, JobGoes, Running, WorkInv, DatesTypeOK
  <2>2. Old(NoMove) = {}
    BY DEF Old, NoMove
  <2>3. move = NoMove => Filed(move)'
    BY <2>1, <2>2 DEF Filed, PlacesInv
  <2>4. QED
    BY <1>e, <2>1, <2>3 DEF PlacesInv, Running
<1>10. ASSUME NEW p \in Plans, JobLink(p) PROVE PlacesInv'
  <2>1. /\ Running(p) /\ jpc = "link" /\ UNCHANGED <<row, plan, up, jst, move>> /\ move # NoMove
    BY <1>10 DEF JobLink, JobGoes, Running, WorkInv, Targets
  <2>2. CASE {move.old, move.new} \cap copies = {}
    <3>1. clip' = [clip EXCEPT !.st = "error"] /\ jpc' = "confirm" /\ copies' = copies
      BY <1>10, <2>2 DEF JobLink, JobGoes
    <3>2. clip'.st = "error" /\ clip'.at = clip.at
      BY <3>1 DEF WorkInv, DatesTypeOK
    <3>3. Filed(move)'
      BY <2>1, <2>2, <3>1, <3>2 DEF Filed, Old
    <3>4. QED
      BY <1>e, <2>1, <3>1, <3>2, <3>3 DEF PlacesInv, Running
  <2>3. CASE ~({move.old, move.new} \cap copies = {})
    <3>1. clip' = clip /\ jpc' = "publish" /\ copies' = copies \cup {move.new}
      BY <1>10, <2>3 DEF JobLink, JobGoes
    <3>2. QED
      BY <1>e, <2>1, <3>1 DEF PlacesInv, Running
  <2>4. QED
    BY <2>2, <2>3
<1>11. ASSUME NEW p \in Plans, JobPublish(p) PROVE PlacesInv'
  <2>1. /\ Running(p) /\ jpc = "publish" /\ jpc' = "unlink" /\ UNCHANGED <<row, copies, plan, up, jst, move>>
        /\ clip'.at = move.new /\ clip'.st = clip.st
    BY <1>11 DEF JobPublish, JobGoes, Running, WorkInv, DatesTypeOK
  <2>2. QED
    BY <1>e, <2>1 DEF PlacesInv, Running
<1>12. ASSUME NEW p \in Plans, JobUnlink(p) PROVE PlacesInv'
  <2>1. /\ Running(p) /\ jpc = "unlink" /\ jpc' = "confirm" /\ UNCHANGED <<row, clip, plan, up, jst, move>>
        /\ copies' = copies \ Old(move) /\ move # NoMove
    BY <1>12 DEF JobUnlink, JobGoes, Running, WorkInv, Targets
  <2>2. move.new \notin Old(move) /\ clip.at = move.new /\ move.new = row.date /\ move.new \in copies
    BY <1>e, <2>1 DEF Old, PlacesInv
  <2>3. Filed(move)' /\ clip'.at \in copies'
    BY <2>1, <2>2 DEF Filed, Old
  <2>4. QED
    BY <1>e, <2>1, <2>3 DEF PlacesInv, Running
<1>13. ASSUME NEW p \in Plans, JobConfirm(p) PROVE PlacesInv'
  <2>1. /\ Running(p) /\ jpc = "confirm" /\ jpc' = "finish" /\ UNCHANGED <<clip, copies, plan, up, jst, move>>
        /\ row'.date = row.date /\ row'.corr = row.corr
    BY <1>13 DEF JobConfirm, JobGoes, Running, WorkInv, DatesTypeOK
  <2>2. QED
    BY <1>e, <2>1 DEF PlacesInv, Filed, Running
<1>14. ASSUME NEW p \in Plans, JobFinish(p) PROVE PlacesInv'
  <2>1. /\ JobEnds(p, "ended") /\ Running(p) /\ jpc = "finish" /\ UNCHANGED <<row, clip, copies, up>>
        /\ plan'[p].move = plan[p].move /\ plan'[p].date = plan[p].date
    BY <1>14 DEF JobFinish, Running, WorkInv, DatesTypeOK
  <2>2. jpc' = "idle" /\ \A q \in Plans : ~Running(q)'
    BY <2>1, JobEndsType DEF Running
  <2>3. Filed(plan[p].move)
    BY <2>1 DEF PlacesInv
  <2>4. QED
    BY <1>e, <2>1, <2>2, <2>3 DEF PlacesInv, Filed
<1>15. CASE UploadBegin
  <2>1. /\ jpc = "idle" /\ up'.to = Home /\ up'.pc = "check" /\ clip'.st = "uploading"
        /\ UNCHANGED <<row, copies, plan, jst, jpc, move>> /\ row.st # "applying"
    BY <1>15 DEF UploadBegin, WorkInv, DatesTypeOK
  <2>2. row.corr # NoPlanYet => Home = row.date
    BY <1>a, <2>1, FolderNames DEF APPROVED
  <2>3. QED
    BY <1>a, <2>1, <2>2 DEF PlacesInv, Filed, Running
\* The upload goes on while no job runs.
<1>f. ASSUME UploadStep
      PROVE  /\ up.pc # "idle" /\ jpc = "idle" /\ UNCHANGED <<row, plan, jst, jpc, move>>
             /\ up'.to = up.to
             /\ row.corr # NoPlanYet /\ plan[row.corr].st = "done" => up.to = row.date
  BY <1>f DEF UploadStep, UploadCheck, UploadAcquire, UploadSend, UploadVerify, UploadRecord, UpGoes,
              PlacesInv, WorkInv, DatesTypeOK
<1>16. CASE UploadCheck
  <2>1. /\ copies' = copies /\ clip'.at = clip.at /\ (clip'.st = "done" => clip.st = "done")
        /\ up'.pc = "good" => up.to \in copies
    BY <1>16 DEF UploadCheck, UpGoes, WorkInv, DatesTypeOK
  <2>2. QED
    BY <1>16, <1>f, <2>1 DEF UploadStep, PlacesInv, Filed, Running
<1>17. CASE UploadAcquire
  <2>1. UNCHANGED <<clip, copies>> /\ up'.pc # "good"
    BY <1>17 DEF UploadAcquire, UpGoes, WorkInv, DatesTypeOK
  <2>2. QED
    BY <1>17, <1>f, <2>1 DEF UploadStep, PlacesInv, Filed, Running
<1>18. CASE UploadSend
  <2>1. clip' = clip /\ copies' = copies \cup {up.to} /\ up'.pc = "sent"
    BY <1>18 DEF UploadSend, UpGoes, WorkInv, DatesTypeOK
  <2>2. ASSUME row.corr # NoPlanYet, plan[row.corr].st = "done" PROVE row.date \notin Old(plan[row.corr].move)
    BY <1>a, <2>2, FolderNames DEF Old, NoMove, WorkInv, DatesTypeOK, Targets, PlacesInv, Place
  <2>3. QED
    BY <1>18, <1>f, <2>1, <2>2 DEF UploadStep, PlacesInv, Filed, Running
<1>19. CASE UploadVerify
  <2>1. UNCHANGED <<clip, copies>> /\ (up'.pc = "good" => up.to \in copies)
    BY <1>19 DEF UploadVerify, UpGoes, WorkInv, DatesTypeOK
  <2>2. QED
    BY <1>19, <1>f, <2>1 DEF UploadStep, PlacesInv, Filed, Running
<1>20. CASE UploadRecord
  <2>1. /\ copies' = copies /\ up'.pc = "idle"
        /\ clip'.st = "done" => clip'.at = up.to /\ up.pc = "good"
    BY <1>20 DEF UploadRecord, UpGoes, WorkInv, DatesTypeOK
  <2>2. QED
    BY <1>20, <1>f, <2>1 DEF UploadStep, PlacesInv, Filed, Running
<1>21. CASE DateTrouble
  <2>1. CASE DatesCrash
    <3>1. \A p \in Plans : ~Running(p)'
      BY <2>1 DEF DatesCrash, Interrupted, Running
    <3>2. up'.pc = "idle"
      BY <2>1 DEF DatesCrash, UpGoes, WorkInv, DatesTypeOK
    <3>3. QED
      BY <1>b, <1>c, <2>1, <3>1, <3>2 DEF DatesCrash
  <2>2. ASSUME NEW p \in Plans, JobFails(p) PROVE PlacesInv'
    BY <1>d, <2>2 DEF JobFails, Running
  <2>3. QED
    BY <1>21, <2>1, <2>2 DEF DateTrouble
<1>22. CASE UNCHANGED datesVars
  BY <1>b, <1>c, <1>22 DEF Running
<1>23. QED
  BY <1>1, <1>2, <1>3, <1>4, <1>5, <1>6, <1>7, <1>8, <1>9, <1>10, <1>11, <1>12, <1>13, <1>14,
     <1>15, <1>16, <1>17, <1>18, <1>19, <1>20, <1>21, <1>22
     DEF DatesNext, CorrectionStep, UploadStep

DatesInv == WorkInv /\ RevisionInv /\ SendsToCurrentFolder /\ (~overlap => PlacesInv)

LEMMA DatesInvHolds == DatesSpec => []DatesInv
<1>1. DatesInit => DatesInv
  BY WorkInvInit, RevisionInit, PlacesInit DEF DatesInv
<1>2. DatesInv /\ [DatesNext]_datesVars => DatesInv'
  <2> SUFFICES ASSUME DatesInv, [DatesNext]_datesVars PROVE DatesInv'
    OBVIOUS
  <2>1. ~overlap' => ~overlap
    BY DEF DatesNext, datesVars, Preview, ConfirmCheck, ConfirmCommit, Retry, Doubt, CorrectionStep, JobBegin,
           JobRow, JobAdopt, JobJournal, JobLink, JobPublish, JobUnlink, JobConfirm, JobFinish, JobFails,
           UploadBegin, UploadStep, UploadCheck, UploadAcquire, UploadSend, UploadVerify, UploadRecord,
           DateTrouble, DatesCrash
  <2>2. ~overlap' => PlacesInv'
    BY <2>1, PlacesStep DEF DatesInv
  <2>3. QED
    BY <2>2, WorkInvStep, RevisionStep, SendsStep DEF DatesInv
<1>3. QED
  BY <1>1, <1>2, PTL DEF DatesSpec

\* For any dates, plans, retries and restarts: bytes are sent only to the folder that the date
\* calls for (handle_upload looks again under the semaphore).
THEOREM NeverAnOldFolder == DatesSpec => []SendsToCurrentFolder
<1>1. DatesInv => SendsToCurrentFolder
  BY DEF DatesInv
<1>2. QED
  BY <1>1, DatesInvHolds, PTL

\* However often a correction is interrupted, repeated or overtaken by another one, the file that
\* the ledger names is there, unless an upload ran beside the job.
THEOREM NothingLostSightOf == DatesSpec => []ArchiveStaysReachable
<1>1. DatesInv => ArchiveStaysReachable
  BY DEF DatesInv, PlacesInv, ArchiveStaysReachable
<1>2. QED
  BY <1>1, DatesInvHolds, PTL

\* For any number of previews, failures and restarts: of two corrections of one revision one is
\* applied, a later one stands, and the recording is filed under its date and nowhere else.
THEOREM CorrectionsAgree == DatesSpec => []CorrectionsApply
<1>1. DatesInv => OneOfTwoPreviews
  BY DEF DatesInv, RevisionInv
<1>2. DatesInv => LaterOneStands
  <2> SUFFICES ASSUME DatesInv, NEW p \in Plans, NEW q \in Plans, plan[q].st = "done",
                      plan[q].rev > plan[p].rev, row.corr = p
               PROVE  FALSE
    BY DEF LaterOneStands
  <2>1. plan[p].rev \in Nat /\ plan[q].rev \in Nat /\ Previewed(p) /\ p # q
    BY DEF DatesInv, WorkInv, DatesTypeOK, RevisionInv, Agreed, Previewed, Plans, NoPlanYet
  <2>2. QED
    BY <2>1 DEF DatesInv, RevisionInv, Overtaken
<1>3. DatesInv => MovedAsPlanned
  <2> SUFFICES ASSUME DatesInv, ~overlap PROVE MovedAsPlanned
    BY DEF MovedAsPlanned
  <2>1. FiledUnderItsDate
    <3> SUFFICES ASSUME AtRest, row.st = "confirmed", clip.st = "done" PROVE clip.at = row.date
      BY DEF FiledUnderItsDate
    <3>1. row.corr \in Plans /\ Agreed(row.corr)
      BY DEF DatesInv, WorkInv, DatesTypeOK, RevisionInv
    <3>2. plan[row.corr].st = "done"
      BY <3>1 DEF AtRest, DatesInv, WorkInv, JobsOfPlans, RevisionInv
    <3>3. QED
      BY <3>1, <3>2 DEF DatesInv, PlacesInv, Filed, RevisionInv
  <2>2. \A p \in Plans : plan[p].st = "done" /\ row.corr = p => Old(plan[p].move) \cap copies = {}
    BY DEF DatesInv, PlacesInv, Filed, Plans, NoPlanYet
  <2>3. QED
    BY <2>1, <2>2 DEF MovedAsPlanned
<1>4. QED
  BY <1>1, <1>2, <1>3, DatesInvHolds, PTL DEF CorrectionsApply

(***************************************************************************)
(* DateReview: the first and the last of some recordings.  Any set of      *)
(* numbers has a least one, a finite one a greatest one.                   *)
(***************************************************************************)

LEMMA LeastOf ==
  ASSUME NEW T, T \subseteq Nat, T # {}
  PROVE  \E n \in T : \A m \in T : n <= m
<1>1. PICK n \in T : \A m \in T : ~(<<m, n>> \in OpToRel(<, Nat))
  BY WFMin, NatLessThanWellFounded, Zenon
<1>2. ASSUME NEW m \in T PROVE n <= m
  <2>1. ~(<<m, n>> \in {ss \in Nat \X Nat : ss[1] < ss[2]})
    BY <1>1, Zenon DEF OpToRel
  <2>2. QED
    BY <2>1
<1>3. QED
  BY <1>2

LEMMA GreatestOf ==
  ASSUME NEW T, T \subseteq Nat, T # {}, IsFiniteSet(T)
  PROVE  \E n \in T : \A m \in T : m <= n
<1> DEFINE above(n) == {m \in T : n < m}
           counts == {Cardinality(above(n)) : n \in T}
<1>1. \A n \in T : IsFiniteSet(above(n)) /\ Cardinality(above(n)) \in Nat
  BY FS_Subset, FS_CardinalityType
<1>2. counts \subseteq Nat /\ counts # {}
  BY <1>1
<1>3. PICK n \in T : \A m \in T : Cardinality(above(n)) <= Cardinality(above(m))
  <2>1. PICK c \in counts : \A d \in counts : c <= d
    BY <1>2, LeastOf
  <2>2. QED
    BY <2>1
<1>4. ASSUME NEW m \in T, n < m PROVE FALSE
  <2>0. m \in Nat /\ n \in Nat /\ T \subseteq Nat
    OBVIOUS
  <2>4. ASSUME NEW k \in above(m) PROVE k \in above(n)
    <3>1. k \in T /\ k \in Nat /\ m < k
      BY <2>0, <2>4
    <3>2. QED
      BY <1>4, <2>0, <3>1
  <2>5. m \in above(n) /\ m \notin above(m)
    BY <1>4, <2>0
  <2>1. above(m) \subseteq above(n) /\ m \in above(n) /\ m \notin above(m)
    BY <2>4, <2>5
  <2>2. Cardinality(above(m)) <= Cardinality(above(n)) /\ Cardinality(above(m)) # Cardinality(above(n))
    BY <1>1, <2>1, FS_Subset
  <2>3. QED
    BY <1>1, <1>3, <2>2
<1>5. QED
  BY <1>4

LEMMA TakeTypes ==
  /\ \A r \in Takes : Counter(r) \in Counters /\ Counter(r) \in Nat
  /\ Counters \subseteq Nat /\ IsFiniteSet(Counters) /\ Today \in Nat
  BY DateReviewAssumption DEF DateReviewAssumption, Takes, Counter

LEMMA FirstTakeIsFirst ==
  ASSUME NEW recs, recs \subseteq Takes, recs # {}
  PROVE  FirstTake(recs) \in recs /\ \A q \in recs : Counter(FirstTake(recs)) <= Counter(q)
<1> DEFINE T == {Counter(r) : r \in recs}
<1>1. T \subseteq Nat /\ T # {}
  BY TakeTypes
<1>2. \E r \in recs : \A q \in recs : Counter(r) <= Counter(q)
  <2>1. PICK n \in T : \A m \in T : n <= m
    BY <1>1, LeastOf
  <2>2. QED
    BY <2>1
<1>3. QED
  BY <1>2 DEF FirstTake

LEMMA LastTakeIsLast ==
  ASSUME NEW recs, recs \subseteq Takes, recs # {}
  PROVE  LastTake(recs) \in recs /\ \A q \in recs : Counter(q) <= Counter(LastTake(recs))
<1> DEFINE T == {Counter(r) : r \in recs}
<1>1. T \subseteq Counters /\ T # {}
  BY TakeTypes
<1>2. T \subseteq Nat /\ IsFiniteSet(T)
  BY <1>1, TakeTypes, FS_Subset
<1>3. \E r \in recs : \A q \in recs : Counter(q) <= Counter(r)
  <2>1. PICK n \in T : \A m \in T : m <= n
    BY <1>1, <1>2, GreatestOf
  <2>2. QED
    BY <2>1
<1>4. QED
  BY <1>3 DEF LastTake

(***************************************************************************)
(* DateReview: one scan at a time, and while it reads nothing else makes a *)
(* recording known.                                                        *)
(***************************************************************************)

DateRow == [st : {"none", "review", "trusted", "applying", "confirmed"}, at : Nat,
            meta : BOOLEAN, to : Int, moved : BOOLEAN, reuse : BOOLEAN]

\* A name stands for one recording.
OneEach(recs) == \A r, q \in recs : Counter(r) = Counter(q) => r = q

ReviewInv ==
  /\ ReviewTypeOK
  /\ OneEach(onCard) /\ OneEach(scan.before) /\ OneEach(observed)
  /\ scanJobs <= 1
  /\ scan.pc = "reading" => scanJobs = 1 /\ scan.old = Known
  /\ caller # {} => scanJobs = 0
  /\ \A c, d \in caller : c = d

LEMMA AnalysedType ==
  ASSUME NEW recs \in SUBSET Takes, NEW rows \in [recs -> DateRow], NEW r \in recs, NEW new, NEW prior,
         r \in new => rows[r].st = "review"
  PROVE  Analysed(r, rows, new, prior) \in DateRow
<1> DEFINE trusted == [rows[r] EXCEPT !.st = "trusted", !.to = Carried(r, rows), !.moved = TRUE, !.reuse = TRUE]
<1>1. rows[r] \in DateRow /\ DOMAIN rows = recs
  OBVIOUS
<1>2. CASE rows[r].st \in {"confirmed", "applying"}
  BY <1>1, <1>2 DEF Analysed
<1>3. CASE rows[r].st \notin {"confirmed", "applying"} /\ r \in new /\ rows[r].meta /\ Carries(rows, new, prior)
  <2>1. Calibrated(rows) # {} /\ Calibrated(rows) \subseteq recs
    BY <1>1, <1>3 DEF Carries, Calibrated
  <2>2. LastTake(Calibrated(rows)) \in recs
    BY <2>1, LastTakeIsLast
  <2>3. rows[LastTake(Calibrated(rows))] \in DateRow
    BY <2>2
  <2>4. Carried(r, rows) \in Int
    BY <1>1, <2>3 DEF Carried, Offset, DateRow
  <2>5. trusted \in DateRow
    BY <1>1, <2>4 DEF DateRow
  <2>6. QED
    BY <1>3, <2>5 DEF Analysed
<1>4. CASE rows[r].st \notin {"confirmed", "applying"} /\ ~(r \in new /\ rows[r].meta /\ Carries(rows, new, prior))
  <2>1. Analysed(r, rows, new, prior) = [rows[r] EXCEPT !.st =
         IF Warned(r, rows, new) \/ Doubtful(r, rows, new, prior) THEN "review" ELSE "trusted"]
    BY <1>4 DEF Analysed
  <2>2. QED
    BY <1>1, <2>1 DEF DateRow
<1>5. QED
  BY <1>2, <1>3, <1>4

\* What the user has decided, and a warning, stay.
LEMMA AnalysedKeeps ==
  ASSUME NEW recs, NEW rows \in [recs -> DateRow], NEW r \in recs, NEW new, NEW prior, r \notin new
  PROVE  /\ rows[r].st \in {"applying", "confirmed"} => Analysed(r, rows, new, prior) = rows[r]
         /\ rows[r].st = "review" => Analysed(r, rows, new, prior).st = "review"
<1>1. rows[r] \in DateRow
  OBVIOUS
<1>2. QED
  BY <1>1 DEF Analysed, Warned, DateRow

LEMMA ReviewInvInit == ReviewInit => ReviewInv
<1> SUFFICES ASSUME ReviewInit PROVE ReviewInv
  OBVIOUS
<1>1. NoDate \in DateRow /\ Today \in Nat
  BY TakeTypes DEF NoDate, DateRow
<1>2. date \in [Takes -> DateRow] /\ header \in [Takes -> [made : BOOLEAN, at : Nat, meta : BOOLEAN]]
  BY <1>1 DEF ReviewInit
<1>3. dateTally \in [changes : 0..MaxCardChanges, decisions : 0..MaxDecisions, scans : 0..MaxAsked]
  BY DateReviewAssumption DEF DateReviewAssumption, ReviewInit
<1>4. QED
  BY <1>2, <1>3 DEF OneEach, ReviewInit, ReviewInv, ReviewTypeOK, DateRow, NoScan

\* A step that makes one row another one, both of them known.
LEMMA RowDecided ==
  ASSUME ReviewInv, NEW r \in Takes, NEW m \in DateRow, date' = [date EXCEPT ![r] = m],
         date[r].st # "none", m.st # "none", UNCHANGED <<onCard, header, observed, scan, scanJobs, caller>>,
         dateTally' \in [changes : 0..MaxCardChanges, decisions : 0..MaxDecisions, scans : 0..MaxAsked]
  PROVE  ReviewInv'
<1>1. date' \in [Takes -> DateRow] /\ \A q \in Takes : date'[q] = IF q = r THEN m ELSE date[q]
  BY DEF OneEach, ReviewInv, ReviewTypeOK, DateRow
<1>2. Known' = Known
  BY <1>1 DEF Known
<1>3. QED
  BY <1>1, <1>2 DEF OneEach, ReviewInv, ReviewTypeOK, DateRow

LEMMA TallyStep ==
  ASSUME ReviewInv
  PROVE  LET T == [changes : 0..MaxCardChanges, decisions : 0..MaxDecisions, scans : 0..MaxAsked]
         IN  /\ dateTally.changes < MaxCardChanges => [dateTally EXCEPT !.changes = @ + 1] \in T
             /\ dateTally.decisions < MaxDecisions => [dateTally EXCEPT !.decisions = @ + 1] \in T
             /\ dateTally.scans < MaxAsked => [dateTally EXCEPT !.scans = @ + 1] \in T
             /\ dateTally \in T
  BY DateReviewAssumption DEF OneEach, DateReviewAssumption, ReviewInv, ReviewTypeOK

\* What a commit makes of the rows: those that were known stay as the user left them.
LEMMA CommitRows ==
  ASSUME ReviewInv, ScanCommits
  PROVE  /\ date' \in [Takes -> DateRow] /\ Known \subseteq Known' /\ observed' \subseteq Known'
         /\ \A r \in Takes :
              /\ date[r].st \in {"applying", "confirmed"} => date'[r] = date[r]
              /\ date[r].st = "review" => date'[r].st = "review"
<1> DEFINE new  == scan.before \ scan.old
           rows == [r \in scan.before |->
                      IF r \in new THEN [NoDate EXCEPT !.st = "review", !.at = header[r].at,
                                                       !.meta = header[r].meta, !.to = header[r].at]
                      ELSE Reread(r)]
<1>1. /\ date \in [Takes -> DateRow] /\ header \in [Takes -> [made : BOOLEAN, at : Nat, meta : BOOLEAN]]
      /\ scan.before \in SUBSET Takes /\ scan.old = Known
  BY DEF OneEach, ReviewInv, ReviewTypeOK, DateRow, ScanCommits
<1>2. NoDate \in DateRow
  BY TakeTypes DEF NoDate, DateRow
<1>3. ASSUME NEW r \in scan.before
      PROVE  rows[r] \in DateRow /\ rows[r].st # "none" /\ (r \in new => rows[r].st = "review")
             /\ (r \notin new => rows[r] = date[r])
  <2>1. r \in Takes /\ header[r].at \in Nat /\ header[r].meta \in BOOLEAN
    BY <1>1, <1>3
  <2>2. CASE r \in new
    <3>1. rows[r] = [NoDate EXCEPT !.st = "review", !.at = header[r].at, !.meta = header[r].meta,
                                   !.to = header[r].at]
      BY <1>3, <2>2
    <3>2. header[r].at \in Int
      BY <2>1
    <3>3. rows[r] \in DateRow /\ rows[r].st = "review"
      BY <1>2, <2>1, <3>1, <3>2, Zenon DEF DateRow, NoDate
    <3>4. QED
      BY <2>2, <3>3
  <2>3. CASE r \notin new
    <3>1. rows[r] = date[r] /\ r \in Known
      BY <1>1, <1>3, <2>3 DEF Reread
    <3>2. QED
      BY <1>1, <2>1, <2>3, <3>1 DEF Known
  <2>4. QED
    BY <2>2, <2>3
<1>4. rows \in [scan.before -> DateRow]
  BY <1>3
<1>5. /\ date' = [r \in Takes |-> IF r \in scan.before THEN Analysed(r, rows, new, scan.old) ELSE date[r]]
      /\ observed' = scan.before
  BY DEF ScanCommits
<1> HIDE DEF rows
<1>6. \A r \in scan.before : Analysed(r, rows, new, scan.old) \in DateRow
  BY <1>1, <1>3, <1>4, AnalysedType
<1>7. \A r \in scan.before : Analysed(r, rows, new, scan.old).st # "none"
  BY <1>3, <1>4 DEF Analysed, DateRow
<1>8. ASSUME NEW r \in scan.before, r \notin new
      PROVE  /\ date[r].st \in {"applying", "confirmed"} => Analysed(r, rows, new, scan.old) = date[r]
             /\ date[r].st = "review" => Analysed(r, rows, new, scan.old).st = "review"
  BY <1>3, <1>4, <1>8, AnalysedKeeps
<1>9. \A r \in new : date[r].st = "none"
  BY <1>1 DEF Known
<1>10. date' \in [Takes -> DateRow]
  BY <1>1, <1>5, <1>6
<1>11. Known \subseteq Known' /\ observed' \subseteq Known'
  BY <1>1, <1>5, <1>7 DEF Known
<1>12. QED
  BY <1>1, <1>5, <1>8, <1>9, <1>10, <1>11

LEMMA ReviewInvStep == ReviewInv /\ [ReviewNext]_reviewVars => ReviewInv'
<1> SUFFICES ASSUME ReviewInv, [ReviewNext]_reviewVars PROVE ReviewInv'
  OBVIOUS
<1> USE DEF reviewVars
<1>a. ASSUME UNCHANGED date PROVE Known' = Known
  BY <1>a DEF Known
<1>1. ASSUME NEW c \in Askers, FindNoScan(c) PROVE ReviewInv'
  BY <1>1, <1>a, TallyStep DEF OneEach, FindNoScan, ReviewLockFree, ReviewInv, ReviewTypeOK
<1>2. ASSUME NEW c \in Askers, EnqueueScan(c) PROVE ReviewInv'
  BY <1>2, <1>a DEF OneEach, EnqueueScan, ReviewInv, ReviewTypeOK
<1>3. CASE ScanReads
  BY <1>3, <1>a DEF OneEach, ScanReads, ReviewInv, ReviewTypeOK
<1>4. CASE ScanCommits
  <2>1. UNCHANGED <<onCard, header, caller, dateTally>> /\ scan' = NoScan /\ scanJobs' = scanJobs - 1 /\ scanJobs = 1
    BY <1>4 DEF OneEach, ScanCommits, ReviewInv
  <2>2. QED
    <3>0. observed' = scan.before
      BY <1>4 DEF ScanCommits
    <3>1. scan'.pc = "idle" /\ scan'.before = {} /\ scan'.old = {} /\ observed' = scan.before
      BY <2>1, <3>0 DEF NoScan
    <3>2. ReviewTypeOK'
      BY <1>4, <2>1, <3>1, CommitRows DEF ReviewInv, ReviewTypeOK, DateRow
    <3>3. QED
      BY <2>1, <3>1, <3>2 DEF OneEach, ReviewInv
<1>5. CASE ScanFails
  BY <1>5, <1>a DEF OneEach, ScanFails, ReviewInv, ReviewTypeOK, NoScan
<1>6. ASSUME NEW r \in Takes, HoldDate(r) PROVE ReviewInv'
  <2> DEFINE m == [date[r] EXCEPT !.st = "applying"]
  <2>1. m \in DateRow /\ m.st = "applying"
    BY DEF OneEach, ReviewInv, ReviewTypeOK, DateRow
  <2>2. date' = [date EXCEPT ![r] = m]
    BY <1>6 DEF HoldDate
  <2> HIDE DEF m
  <2>3. QED
    BY <1>6, <2>1, <2>2, TallyStep, RowDecided DEF HoldDate
<1>7. ASSUME NEW r \in Takes, NEW day \in {Today - 1, Today}, NEW reuse \in BOOLEAN, ConfirmDate(r, day, reuse)
      PROVE  ReviewInv'
  <2> DEFINE m == [date[r] EXCEPT !.st = "confirmed", !.to = day, !.moved = TRUE, !.reuse = reuse]
  <2>0. day \in Int
    BY TakeTypes
  <2>1. m \in DateRow /\ m.st = "confirmed"
    <3>1. date[r] \in DateRow
      BY DEF ReviewInv, ReviewTypeOK, DateRow
    <3>2. QED
      BY <2>0, <3>1 DEF DateRow
  <2>2. date' = [date EXCEPT ![r] = m]
    BY <1>7 DEF ConfirmDate
  <2> HIDE DEF m
  <2>3. QED
    BY <1>7, <2>1, <2>2, TallyStep, RowDecided DEF ConfirmDate
<1>8. ASSUME NEW r \in Takes, NEW h \in Headers, RecordTake(r, h) PROVE ReviewInv'
  <2>1. h.at \in Nat /\ h.meta \in BOOLEAN
    BY DateReviewAssumption DEF DateReviewAssumption
  <2>2. header' \in [Takes -> [made : BOOLEAN, at : Nat, meta : BOOLEAN]]
    BY <1>8, <2>1 DEF OneEach, RecordTake, ReviewInv, ReviewTypeOK
  <2>3. onCard' \subseteq Takes
    BY <1>8 DEF OneEach, RecordTake, ReviewInv, ReviewTypeOK
  <2>4. QED
    BY <1>8, <1>a, <2>2, <2>3, TallyStep DEF OneEach, RecordTake, ChangeCard, ReviewInv, ReviewTypeOK
<1>9. ASSUME NEW r \in Takes, Erase(r) PROVE ReviewInv'
  BY <1>9, <1>a, TallyStep DEF OneEach, Erase, ChangeCard, ReviewInv, ReviewTypeOK
<1>10. CASE UNCHANGED reviewVars
  BY <1>10, <1>a DEF OneEach, ReviewInv, ReviewTypeOK
<1>11. QED
  BY <1>1, <1>2, <1>3, <1>4, <1>5, <1>6, <1>7, <1>8, <1>9, <1>10 DEF ReviewNext

LEMMA ReviewInvHolds == ReviewSpec => []ReviewInv
  BY ReviewInvInit, ReviewInvStep, PTL DEF ReviewSpec

\* For any card, headers and requests, the rows and the scan have their types.
THEOREM ReviewTypes == ReviewSpec => []ReviewTypeOK
<1>1. ReviewInv => ReviewTypeOK
  BY DEF ReviewInv
<1>2. QED
  BY <1>1, ReviewInvHolds, PTL

\* However many monitors and routes ask, a card has one scan at a time (lock in queue_check).
THEOREM OneScan == ReviewSpec => []OneScanEach
<1>1. ReviewInv => OneScanEach
  BY DEF ReviewInv, OneScanEach
<1>2. QED
  BY <1>1, ReviewInvHolds, PTL

\* A scan keeps every decision that was taken while it read, and every warning.
THEOREM DecisionsSurviveScans == ReviewSpec => ScansKeepDecisions
<1> DEFINE Keeps == scan.pc = "reading" /\ scan'.pc = "idle" =>
                      \A r \in Takes :
                        /\ date[r].st \in {"applying", "confirmed"} => date'[r] = date[r]
                        /\ date[r].st = "review" => date'[r].st = "review"
<1>1. ReviewInv /\ [ReviewNext]_reviewVars => [Keeps]_reviewVars
  <2> SUFFICES ASSUME ReviewInv, ReviewNext, scan.pc = "reading", scan'.pc = "idle"
               PROVE  ScanCommits \/ date' = date
    BY CommitRows DEF reviewVars
  <2>1. QED
    BY DEF ReviewNext, FindNoScan, EnqueueScan, ScanReads, ScanFails, HoldDate, ConfirmDate, RecordTake, Erase
<1>2. ReviewSpec => [][Keeps]_reviewVars
  BY <1>1, ReviewInvHolds, PTL DEF ReviewSpec
<1>3. QED
  BY <1>2 DEF ScansKeepDecisions

(***************************************************************************)
(* The dates that are suggested, for any rows of the last check.           *)
(***************************************************************************)

\* Where no recording of a range has an earlier time than the one before it, times do not go back
\* in it: the first one that did would follow one that did not.
LEMMA NoResetNoReturn ==
  ASSUME ReviewInv, NEW q \in observed, NEW r \in observed, Counter(q) <= Counter(r), ~BackBetween(q, r)
  PROVE  date[q].at <= date[r].at
<1>1. observed \subseteq Takes /\ \A a \in observed : Counter(a) \in Nat /\ date[a].at \in Nat
  BY TakeTypes DEF ReviewInv, ReviewTypeOK, Known
<1> DEFINE low == {a \in observed : Counter(q) <= Counter(a) /\ Counter(a) <= Counter(r) /\ date[a].at < date[q].at}
<1>2. CASE low = {}
  BY <1>1, <1>2
<1>3. CASE low # {}
  <2>1. PICK x \in low : \A a \in low : Counter(x) <= Counter(a)
    BY <1>1, <1>3, FirstTakeIsFirst
  <2> DEFINE before == {a \in observed : Counter(a) < Counter(x)}
  <2>2. CASE Counter(x) = Counter(q)
    BY <1>1, <2>1, <2>2 DEF ReviewInv, OneEach
  <2>3. CASE Counter(q) < Counter(x)
    <3>1. q \in before /\ before \subseteq Takes
      BY <1>1, <2>3
    <3>2. PICK y \in before : \A a \in before : Counter(a) <= Counter(y)
      BY <3>1, LastTakeIsLast
    <3>3. Follows(x, y, observed)
      BY <1>1, <2>1, <3>2 DEF Follows
    <3>4. Counter(q) <= Counter(y) /\ Counter(x) <= Counter(r)
      BY <2>1, <3>1, <3>2
    <3>5. y \notin low
      BY <1>1, <2>1, <3>2
    <3>6. date[x].at < date[y].at
      BY <1>1, <2>1, <3>2, <3>4, <3>5
    <3>7. QED
      BY <2>1, <3>2, <3>3, <3>4, <3>6 DEF BackBetween
  <2>4. QED
    BY <1>1, <2>1, <2>2, <2>3
<1>4. QED
  BY <1>2, <1>3

LEMMA EffectiveIsShifted ==
  ASSUME ReviewInv
  PROVE  \A q \in observed : /\ Effective(q) \in Int /\ Offset(date[q]) \in Int /\ date[q].at \in Int
                             /\ Effective(q) = date[q].at + Offset(date[q])
  BY DEF ReviewInv, ReviewTypeOK, Known, Effective, Offset

LEMMA FirstAndLastOfTwo ==
  ASSUME NEW q \in Takes, NEW p \in Takes, Counter(q) < Counter(p)
  PROVE  FirstTake({q, p}) = q /\ LastTake({q, p}) = p
<1>1. {q, p} \subseteq Takes /\ {q, p} # {} /\ Counter(q) \in Nat /\ Counter(p) \in Nat
  BY TakeTypes
<1>2. /\ FirstTake({q, p}) \in {q, p} /\ Counter(FirstTake({q, p})) <= Counter(q)
      /\ LastTake({q, p}) \in {q, p} /\ Counter(p) <= Counter(LastTake({q, p}))
  BY <1>1, FirstTakeIsFirst, LastTakeIsLast
<1>3. QED
  BY <1>1, <1>2

LEMMA NotOneOfTwo ==
  ASSUME NEW S, Cardinality(S) = 2
  PROVE  S # {} /\ \A a : S # {a}
<1>1. Cardinality({}) = 0 /\ \A a : Cardinality({a}) = 1
  BY FS_EmptySet, FS_Singleton
<1>2. S # {}
  BY <1>1
<1>3. ASSUME NEW a, S = {a} PROVE FALSE
  <2>1. Cardinality(S) = 1
    BY <1>1, <1>3, Zenon
  <2>2. QED
    BY <2>1
<1>4. QED
  BY <1>2, <1>3

\* For any card and any resets of its clock: a suggestion that rests on two approved recordings
\* lies between their dates (date_suggestions).
THEOREM SuggestionsAreBetween == ReviewSpec => []SuggestionsLieBetween
<1>1. ASSUME ReviewInv, NEW r \in observed, Undecided(r), Cardinality(Suggestion(r).anchors) = 2
      PROVE  LET s == Suggestion(r) IN
             /\ Effective(FirstTake(s.anchors)) <= s.day /\ s.day <= Effective(LastTake(s.anchors))
  <2> DEFINE s == Suggestion(r)
             near == CHOOSE q \in RunNeighbours(r) : TRUE
  <2>1. observed \subseteq Takes /\ \A a \in observed : Counter(a) \in Nat
    BY <1>1, TakeTypes DEF ReviewInv, ReviewTypeOK, Known
  <2>2. CASE \E q, p \in observed : Bounded(r, q, p)
    <3> DEFINE q == CHOOSE a \in observed : \E p \in observed : Bounded(r, a, p)
               p == CHOOSE b \in observed : Bounded(r, q, b)
    <3>1. s = [day |-> Effective(q), anchors |-> {q, p}]
      BY <2>2 DEF Suggestion
    <3>2. q \in observed /\ \E b \in observed : Bounded(r, q, b)
      BY <2>2
    <3>3. p \in observed /\ Bounded(r, q, p)
      BY <3>2
    <3> HIDE DEF q, p, s
    <3>4. Effective(q) = Effective(p) /\ Counter(q) < Counter(p)
      BY <2>1, <3>2, <3>3 DEF Bounded, Between
    <3>5. FirstTake({q, p}) = q /\ LastTake({q, p}) = p
      BY <2>1, <3>2, <3>3, <3>4, FirstAndLastOfTwo
    <3>6. Effective(q) \in Int
      BY <1>1, <3>2, EffectiveIsShifted
    <3>7. s.day = Effective(q) /\ s.anchors = {q, p}
      BY <3>1
    <3>8. Effective(FirstTake(s.anchors)) <= s.day /\ s.day <= Effective(LastTake(s.anchors))
      BY <3>4, <3>5, <3>6, <3>7
    <3>9. QED
      BY <3>8 DEF s
  <2>3. CASE /\ ~\E q, p \in observed : Bounded(r, q, p)
             /\ date[r].meta /\ RunNeighbours(r) # {} /\ Agree(r) /\ Plausible(Shifted(r, near))
    <3> DEFINE earlier == {q \in RunAnchors(r) : Counter(q) < Counter(r)}
               later   == {q \in RunAnchors(r) : Counter(r) < Counter(q)}
               q == LastTake(earlier)
               p == FirstTake(later)
    <3>1. s = [day |-> Shifted(r, near), anchors |-> RunNeighbours(r)]
      BY <2>3 DEF Suggestion
    <3>2. s.day = Shifted(r, near) /\ s.anchors = RunNeighbours(r)
      BY <3>1
    <3>3. RunNeighbours(r) = (IF earlier # {} THEN {q} ELSE {}) \cup (IF later # {} THEN {p} ELSE {})
      BY DEF RunNeighbours
    <3>4. earlier # {} /\ later # {}
      <4>1. Cardinality(RunNeighbours(r)) = 2
        BY <1>1, <3>2
      <4>2. RunNeighbours(r) # {q} /\ RunNeighbours(r) # {p} /\ RunNeighbours(r) # {}
        BY <4>1, NotOneOfTwo
      <4>3. QED
        BY <3>3, <4>2
    <3>5. earlier \subseteq Takes /\ later \subseteq Takes
      BY <2>1 DEF RunAnchors
    <3>6. q \in earlier /\ p \in later
      BY <3>4, <3>5, FirstTakeIsFirst, LastTakeIsLast
    <3>7. RunNeighbours(r) = {q, p}
      BY <3>3, <3>4
    <3>8. /\ q \in observed /\ p \in observed /\ Counter(q) < Counter(r) /\ Counter(r) < Counter(p)
          /\ OneRun(q, r) /\ OneRun(p, r)
      BY <3>6 DEF RunAnchors
    <3> HIDE DEF earlier, later, q, p
    <3>9. ~BackBetween(q, r) /\ ~BackBetween(r, p)
      BY <2>1, <3>8 DEF OneRun
    <3>10. date[q].at <= date[r].at /\ date[r].at <= date[p].at
      BY <1>1, <2>1, <3>8, <3>9, NoResetNoReturn
    <3>11. near \in RunNeighbours(r)
      BY <2>3
    <3>12. Shifted(r, near) = Shifted(r, q) /\ Shifted(r, near) = Shifted(r, p)
      BY <2>3, <3>7, <3>11 DEF Agree
    <3>13. Effective(q) <= Shifted(r, q) /\ Shifted(r, p) <= Effective(p)
      BY <1>1, <3>8, <3>10, EffectiveIsShifted DEF Shifted
    <3>14. FirstTake({q, p}) = q /\ LastTake({q, p}) = p
      BY <2>1, <3>8, FirstAndLastOfTwo
    <3>15. QED
      BY <3>2, <3>7, <3>12, <3>13, <3>14
  <2>4. CASE s.anchors = {}
    BY <1>1, <2>4, FS_EmptySet
  <2>5. QED
    BY <2>2, <2>3, <2>4 DEF Suggestion
<1>2. ReviewInv => SuggestionsLieBetween
  BY <1>1 DEF SuggestionsLieBetween
<1>3. QED
  BY <1>2, ReviewInvHolds, PTL
=============================================================================
