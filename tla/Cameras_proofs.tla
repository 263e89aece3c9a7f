---------------------------- MODULE Cameras_proofs ----------------------------
(***************************************************************************)
(* Theorems of reading camera files over the network (CameraRead) and of   *)
(* what becomes of them (Intake).                                          *)
(***************************************************************************)
EXTENDS CameraRead, Intake, FiniteSetTheorems, WellFoundedInduction, TLAPS

(***************************************************************************)
(* CameraRead: for any numbers of threads, parts, versions and breaks.     *)
(***************************************************************************)

Remote == [pc : {"closed", "open", "streams", "checks", "whole"}, want : 0..MaxVersions,
           position : 0..FileLength, got : SUBSET (1..MaxVersions)]

\* ReadTypeOK, but for the streams, about which what is read needs to know nothing.
RemoteTypes ==
  /\ cardFile \in [version : 1..MaxVersions, present : BOOLEAN]
  /\ table \in 0..MaxVersions /\ manifest \in 0..MaxVersions
  /\ reader \in [Readers -> Remote]
  /\ breaks \in 0..MaxBreaks

\* Nobody knows of a version that was not on the card.
NothingFromLater ==
  /\ table <= cardFile.version /\ manifest <= cardFile.version
  /\ \A r \in Readers : reader[r].want <= cardFile.version

\* The parts that were read are of the version that is wanted or of a later one; a stream has
\* parts to come, and whoever has come to the end has read one.
PartsRead(m) ==
  /\ \A v \in m.got : m.want <= v /\ v <= cardFile.version
  /\ m.pc = "streams" => m.position < FileLength
  /\ m.pc = "checks" => m.got # {}
  /\ m.pc = "whole" => m.got = {m.want}

ReadInv == RemoteTypes /\ NothingFromLater /\ \A r \in Readers : PartsRead(reader[r])

LEMMA ReadInvInit == ReadInit => ReadInv
  BY ReadAssumption
     DEF ReadAssumption, ReadInit, ReadInv, RemoteTypes, Remote, Closed, NothingFromLater, PartsRead

LEMMA AgentLossType ==
  ASSUME RemoteTypes, AgentLoss
  PROVE  breaks' \in 0..MaxBreaks
  BY ReadAssumption DEF ReadAssumption, RemoteTypes, AgentLoss

\* A file that is closed is as good as new.
LEMMA CloseKeeps ==
  ASSUME ReadInv, NEW r \in Readers, Close(r), UNCHANGED <<cardFile, table, manifest>>,
         breaks' \in 0..MaxBreaks
  PROVE  ReadInv'
  BY ReadAssumption
     DEF ReadAssumption, ReadInv, RemoteTypes, Remote, NothingFromLater, PartsRead, Close, Closed

\* The state of a file that is opened under the manifest's identity.
LEMMA StreamOpened ==
  ASSUME RemoteTypes
  PROVE  LET new == [Closed EXCEPT !.pc = "open", !.want = manifest] IN
         /\ new \in Remote
         /\ new.pc = "open" /\ new.want = manifest /\ new.got = {}
<1>1. Closed \in Remote /\ Closed.got = {}
  BY ReadAssumption DEF ReadAssumption, Remote, Closed
<1>2. QED
  BY <1>1 DEF RemoteTypes, Remote

LEMMA ReadInvStep == ReadInv /\ [ReadNext]_readVars => ReadInv'
<1> SUFFICES ASSUME ReadInv, [ReadNext]_readVars PROVE ReadInv'
  OBVIOUS
<1> USE DEF ReadInv, RemoteTypes, Remote, NothingFromLater, PartsRead
<1>1. CASE Rewrite
  <2>1. cardFile'.version \in 1..MaxVersions /\ cardFile'.version = cardFile.version + 1
    BY <1>1, ReadAssumption DEF Rewrite, ReadAssumption
  <2>2. QED
    BY <1>1, <2>1, ReadAssumption DEF Rewrite, ReadAssumption
<1>2. CASE TakeCamera \/ ReturnCamera
  BY <1>2, AgentLossType DEF TakeCamera, ReturnCamera
<1>3. CASE Walk
  BY <1>3, ReadAssumption DEF Walk, ReadAssumption
<1>4. CASE Tick
  BY <1>4, AgentLossType, ReadAssumption DEF Tick, ReadAssumption
<1>5. ASSUME NEW r \in Readers, OpenRemote(r) PROVE ReadInv'
  <2> DEFINE new == [Closed EXCEPT !.pc = "open", !.want = manifest]
  <2>1. /\ new \in Remote
        /\ new.pc = "open" /\ new.want = manifest /\ new.got = {}
    BY StreamOpened
  <2>2. reader' = [reader EXCEPT ![r] = new] /\ UNCHANGED <<cardFile, table, manifest, breaks>>
    BY <1>5 DEF OpenRemote
  <2> HIDE DEF new
  <2>3. QED
    BY <2>1, <2>2
<1>6. ASSUME NEW r \in Readers, Request(r) PROVE ReadInv'
  <2>1. CASE Close(r)
    BY <1>6, <2>1, CloseKeeps DEF Request
  <2>2. CASE ~Close(r)
    BY <1>6, <2>2 DEF Request
  <2>3. QED
    BY <2>1, <2>2
<1>7. ASSUME NEW r \in Readers, ReadPart(r) PROVE ReadInv'
  <2>1. CASE Close(r)
    BY <1>7, <2>1, CloseKeeps DEF ReadPart
  <2>2. CASE ~Close(r)
    BY <1>7, <2>2, ReadAssumption DEF ReadPart, ReadAssumption
  <2>3. QED
    BY <2>1, <2>2
<1>8. ASSUME NEW r \in Readers, Seek(r) PROVE ReadInv'
  BY <1>8, ReadAssumption DEF Seek, ReadAssumption
<1>9. ASSUME NEW r \in Readers, Break(r) PROVE ReadInv'
  BY <1>9, CloseKeeps, AgentLossType DEF Break
<1>10. ASSUME NEW r \in Readers, CheckEnd(r) PROVE ReadInv'
  <2>1. CASE Close(r)
    BY <1>10, <2>1, CloseKeeps DEF CheckEnd
  <2>2. CASE ~Close(r)
    <3>1. cardFile.version = reader[r].want
      BY <1>10, <2>2 DEF CheckEnd, EndHolds, SameOpenFile
    <3>2. reader[r].got = {reader[r].want}
      BY <1>10, <3>1, ReadAssumption DEF CheckEnd, ReadAssumption
    <3>3. QED
      BY <1>10, <2>2, <3>2 DEF CheckEnd
  <2>3. QED
    BY <2>1, <2>2
<1>11. ASSUME NEW r \in Readers, Finish(r) PROVE ReadInv'
  BY <1>11, CloseKeeps DEF Finish
<1>12. ASSUME NEW r \in Readers, HandlerEnds(r) PROVE ReadInv'
  BY <1>12 DEF HandlerEnds
<1>13. CASE UNCHANGED readVars
  BY <1>13 DEF readVars
<1>14. QED
  BY <1>1, <1>2, <1>3, <1>4, <1>5, <1>6, <1>7, <1>8, <1>9, <1>10, <1>11, <1>12, <1>13
     DEF ReadNext

\* A thread has no more streams than all of them together.
LEMMA OwnStreams ==
  ASSUME lent \in [Readers -> 0..Streams], NEW r \in Readers
  PROVE  InUse \in Nat /\ lent[r] <= InUse
<1> DEFINE own == {r} \X (1..lent[r])
<1>1. IsFiniteSet(LentStreams)
  <2>1. IsFiniteSet(Readers \X (1..Streams))
    <3>1. IsFiniteSet(Readers) /\ IsFiniteSet(1..Streams)
      BY FS_Interval, ReadAssumption DEF ReadAssumption
    <3>2. QED
      BY <3>1, FS_Product, Zenon
  <2>2. LentStreams \in SUBSET (Readers \X (1..Streams))
    BY DEF LentStreams
  <2>3. QED
    BY <2>1, <2>2, FS_Subset
<1>2. own \in SUBSET LentStreams
  BY ReadAssumption DEF ReadAssumption, LentStreams
<1>3. Cardinality(own) = lent[r]
  <2>1. IsFiniteSet({r}) /\ Cardinality({r}) = 1
    BY FS_Singleton
  <2>2. IsFiniteSet(1..lent[r]) /\ Cardinality(1..lent[r]) = lent[r]
    BY FS_Interval
  <2>3. Cardinality(own) = Cardinality({r}) * Cardinality(1..lent[r])
    BY <2>1, <2>2, FS_Product, Zenon
  <2>4. QED
    BY <2>1, <2>2, <2>3
<1>4. QED
  BY <1>1, <1>2, <1>3, FS_Subset, FS_CardinalityType DEF InUse

\* The agent lends a stream only when it has one left.
LEMMA StreamsStep ==
  ASSUME lent \in [Readers -> 0..Streams], [ReadNext]_readVars
  PROVE  lent' \in [Readers -> 0..Streams]
<1>1. ASSUME NEW r \in Readers, Request(r) PROVE lent' \in [Readers -> 0..Streams]
  <2>1. CASE InUse < Streams /\ lent' = [lent EXCEPT ![r] = @ + 1]
    <3>1. lent[r] + 1 \in 0..Streams
      BY <2>1, OwnStreams, ReadAssumption DEF ReadAssumption
    <3>2. QED
      BY <2>1, <3>1
  <2>2. CASE UNCHANGED lent
    BY <2>2
  <2>3. QED
    BY <1>1, <2>1, <2>2 DEF Request
<1>2. ASSUME NEW r \in Readers, HandlerEnds(r) PROVE lent' \in [Readers -> 0..Streams]
  <2>1. lent[r] - 1 \in 0..Streams
    BY <1>2, ReadAssumption DEF ReadAssumption, HandlerEnds
  <2>2. QED
    BY <1>2, <2>1 DEF HandlerEnds
<1>3. ASSUME NEW r \in Readers,
             \/ OpenRemote(r) \/ ReadPart(r) \/ Seek(r) \/ Break(r) \/ CheckEnd(r) \/ Finish(r)
      PROVE  UNCHANGED lent
  BY <1>3 DEF OpenRemote, ReadPart, Seek, Break, CheckEnd, Finish
<1>4. CASE Rewrite \/ TakeCamera \/ ReturnCamera \/ Walk \/ Tick
  BY <1>4 DEF Rewrite, TakeCamera, ReturnCamera, Walk, Tick
<1>5. CASE UNCHANGED readVars
  BY <1>5 DEF readVars
<1>6. QED
  BY <1>1, <1>2, <1>3, <1>4, <1>5 DEF ReadNext

\* camera_agents.py, camera_agent.py: card, inventory, manifest, files and streams keep their types;
\* no thread ever has more streams than the agent lends in all.
THEOREM ReadTypes == ReadSpec => []ReadTypeOK
<1> DEFINE StreamsType == lent \in [Readers -> 0..Streams]
<1>1. ReadInit => ReadInv /\ StreamsType
  BY ReadInvInit, ReadAssumption DEF ReadInit, ReadAssumption
<1>2. ReadInv /\ StreamsType /\ [ReadNext]_readVars => ReadInv' /\ StreamsType'
  BY ReadInvStep, StreamsStep
<1>3. ReadInv /\ StreamsType => ReadTypeOK
  BY DEF ReadInv, RemoteTypes, Remote, ReadTypeOK
<1> HIDE DEF StreamsType
<1>4. QED
  BY <1>1, <1>2, <1>3, PTL DEF ReadSpec

\* camera_agents.py: a file read to its end has parts of one version only, the manifest's.
THEOREM OneVersion == ReadSpec => []ReadsOneVersion
<1>1. ReadInv => ReadsOneVersion
  BY DEF ReadInv, PartsRead, ReadsOneVersion
<1>2. QED
  BY ReadInvInit, ReadInvStep, <1>1, PTL DEF ReadSpec

(***************************************************************************)
(* Intake: for any paths, recordings, cards, imports, items and mishaps.   *)
(***************************************************************************)

Stored(i)  == item[i] # NoItem
Covered(i) == i \in upload.tried \/ item[i].sum \in archived

\* Rows are of recordings, and uploads of rows.
RowsAreWhole ==
  /\ \A i \in Items : Stored(i) => item[i].sum \in Recordings
  /\ \A i \in Items : upload.active[i] > 0 => i \in upload.tried
  /\ \A i \in upload.tried : Stored(i)

\* A job that is not running is nowhere, and what it works on are rows.
Working(m) ==
  /\ m.pc # "idle" => m.status = "running"
  /\ \A i \in m.new \cup m.known \cup m.plan : Stored(i)

\* A file that is about to be stored: the row it was found to be is there, and is of the same
\* recording wherever the fingerprint will be written.
Storing(m) ==
  m.pc = "stores" =>
    /\ m.path \in Paths /\ m.sum \in Recordings
    /\ m.found # 0 => Stored(m.found) /\ (m.fingerprints => item[m.found].sum = m.sum)

\* Between a row and its upload stands the plan of the job, which is of the new rows after each
\* file and of the known ones at the end. The plan may have left out a row for its date.
Queueing(m) ==
  LET planned == IF m.pc \in {"plans", "inserts"} THEN m.plan ELSE {}
      Settled(i) == Covered(i) \/ i \in m.paused IN
  /\ \A i \in m.new \ planned : Settled(i)
  /\ m.pc \in {"plans", "inserts"} /\ m.path = "last" => \A i \in m.known \ planned : Settled(i)
  /\ m.status = "done" => \A i \in m.known : Settled(i)

\* The lock: one job inserts at a time, and none of what it inserts has an active upload.
Inserting ==
  \A j \in Imports : import[j].pc = "inserts" =>
    /\ \A k \in Imports : import[k].pc = "inserts" => j = k
    /\ \A i \in import[j].plan : upload.active[i] = 0

JobsAreRight ==
  \A j \in Imports : Working(import[j]) /\ Storing(import[j]) /\ Queueing(import[j])

IntakeInv ==
  IntakeTypeOK /\ RowsAreWhole /\ JobsAreRight /\ Inserting /\ OneUploadEach

\* The counters, the monitor's memory, and the corrections under way.
Counts  == [plugs : 0..MaxPlugs, asks : 0..MaxAsks, mishaps : 0..MaxMishaps]
Monitor == [pc : {"idle", "queues"}, connection : 0..MaxPlugs + MaxMishaps, imported : BOOLEAN,
            found : SUBSET Paths]
Redates == [applying : SUBSET (Paths \X Recordings), done : SUBSET Paths]

\* The lowest of some rows is one of them.
LEMMA LowestIsThere ==
  ASSUME NEW ids \in SUBSET Items
  PROVE  IF ids = {} THEN Lowest(ids) = 0 ELSE Lowest(ids) \in ids
<1>1. CASE ids = {}
  BY <1>1 DEF Lowest
<1>2. CASE ids # {}
  <2>1. ids \subseteq Nat
    BY DEF Items
  <2>2. PICK i \in ids : \A k \in ids : ~(<<k, i>> \in OpToRel(<, Nat))
    BY <1>2, <2>1, WFMin, NatLessThanWellFounded, Zenon
  <2>3. ASSUME NEW k \in ids PROVE i <= k
    <3>1. ~(<<k, i>> \in {ss \in Nat \X Nat : ss[1] < ss[2]})
      BY <2>2, Zenon DEF OpToRel
    <3>2. QED
      BY <2>1, <3>1
  <2>4. QED
    BY <1>2, <2>3 DEF Lowest
<1>3. QED
  BY <1>1, <1>2

LEMMA RowsAreNumbered == 1 \in Items /\ 0 \notin Items /\ Items \subseteq 0..MaxItems
  BY IntakeAssumption DEF IntakeAssumption, Items

LEMMA NoImportType == NoImport \in ImportJob
  BY IntakeAssumption, RowsAreNumbered DEF IntakeAssumption, NoImport, ImportJob

LEMMA QueuedType ==
  ASSUME NEW paths, NEW fingerprints, paths \subseteq Paths, fingerprints \in BOOLEAN
  PROVE  /\ QueuedImport(paths, fingerprints) \in ImportJob
         /\ QueuedImport(paths, fingerprints).status = "queued"
         /\ QueuedImport(paths, fingerprints).pc = "idle"
         /\ QueuedImport(paths, fingerprints).new = {}
         /\ QueuedImport(paths, fingerprints).known = {}
         /\ QueuedImport(paths, fingerprints).plan = {}
<1>1. /\ NoImport.pc = "idle"
      /\ NoImport.new = {} /\ NoImport.known = {} /\ NoImport.plan = {}
  BY DEF NoImport
<1>2. QED
  BY <1>1, NoImportType DEF QueuedImport, ImportJob

\* A job at its start, or one that was cancelled, owes nothing.
LEMMA FreshJob ==
  ASSUME NEW m \in ImportJob, m.pc = "idle", m.status # "done",
         m.new = {}, m.known = {}, m.plan = {}
  PROVE  Working(m) /\ Storing(m) /\ Queueing(m)
  BY DEF Working, Storing, Queueing

LEMMA MishapType ==
  ASSUME IntakeTypeOK, Mishap
  PROVE  used' \in Counts
  BY IntakeAssumption DEF IntakeAssumption, IntakeTypeOK, Mishap, Counts

LEMMA IntakeInvInit == IntakeInit => IntakeInv
<1> SUFFICES ASSUME IntakeInit PROVE IntakeInv
  OBVIOUS
<1>1. /\ Empty \in CardFiles
      /\ NoItem \in [path : Paths \cup {Missing, "retired"}, sum : Recordings \cup {Missing}]
  BY DEF Empty, CardFiles, NoItem
<1>2. /\ item \in [Items -> [path : Paths \cup {Missing, "retired"}, sum : Recordings \cup {Missing}]]
      /\ \A i \in Items : Stored(i) => item[i].sum \in Recordings
  BY <1>1, IntakeAssumption DEF IntakeAssumption, IntakeInit, Stored
<1>3. archived \subseteq Recordings
  <2>1. archived \subseteq {item[1].sum} /\ archived # {Missing}
    BY DEF IntakeInit
  <2>2. ASSUME NEW a \in archived PROVE a = item[1].sum /\ a # Missing
    <3>1. a = item[1].sum
      BY <2>1
    <3>2. ASSUME a = Missing PROVE archived = {Missing}
      BY <2>1, <3>1, <3>2
    <3>3. QED
      BY <2>1, <3>1, <3>2
  <2>3. item[1].sum # Missing => Stored(1)
    BY DEF Stored, NoItem
  <2>4. QED
    BY <1>2, <2>2, <2>3, RowsAreNumbered
<1>4. IntakeTypeOK
  BY <1>1, <1>2, <1>3, NoImportType, IntakeAssumption
     DEF IntakeAssumption, IntakeInit, IntakeTypeOK
<1>5. RowsAreWhole /\ OneUploadEach
  BY <1>2 DEF RowsAreWhole, OneUploadEach, IntakeInit
<1>6. JobsAreRight /\ Inserting
  BY NoImportType, FreshJob DEF JobsAreRight, Inserting, IntakeInit, NoImport
<1>7. QED
  BY <1>4, <1>5, <1>6 DEF IntakeInv

\* A step that leaves jobs, rows and uploads alone disturbs none of this.
LEMMA Elsewhere ==
  ASSUME IntakeInv, IntakeTypeOK', UNCHANGED <<import, item, upload, archived>>
  PROVE  IntakeInv'
  BY DEF IntakeInv, RowsAreWhole, JobsAreRight, Inserting, OneUploadEach, Working, Storing,
         Queueing, Stored, Covered

\* A step of one job that writes no row and no upload.
LEMMA OneJob ==
  ASSUME IntakeInv, NEW j \in Imports, NEW m \in ImportJob,
         import' = [import EXCEPT ![j] = m],
         UNCHANGED <<camera, node, item, upload, archived>>,
         watch' \in Monitor, used' \in Counts, redate' \in Redates,
         Working(m), Storing(m), Queueing(m),
         m.pc = "inserts" => /\ \A k \in Imports \ {j} : import[k].pc # "inserts"
                             /\ \A i \in m.plan : upload.active[i] = 0
  PROVE  IntakeInv'
<1>1. /\ import' \in [Imports -> ImportJob]
      /\ import'[j] = m
      /\ \A k \in Imports \ {j} : import'[k] = import[k]
  BY DEF IntakeInv, IntakeTypeOK
<1>2. IntakeTypeOK'
  BY <1>1 DEF IntakeInv, IntakeTypeOK, Counts, Monitor, Redates
<1>3. RowsAreWhole' /\ OneUploadEach'
  BY DEF IntakeInv, RowsAreWhole, OneUploadEach, Stored
<1>4. ASSUME NEW k \in Imports
      PROVE  Working(import[k])' /\ Storing(import[k])' /\ Queueing(import[k])'
  <2>1. Working(import'[k]) /\ Storing(import'[k]) /\ Queueing(import'[k])
    BY <1>1 DEF IntakeInv, JobsAreRight
  <2>2. QED
    BY <2>1 DEF Working, Storing, Queueing, Stored, Covered
<1>5. Inserting'
  BY <1>1 DEF IntakeInv, Inserting
<1>6. QED
  BY <1>2, <1>3, <1>4, <1>5 DEF IntakeInv, JobsAreRight

\* The counters, the monitor and the corrections as they are.
LEMMA OldTypes == IntakeInv => watch \in Monitor /\ used \in Counts /\ redate \in Redates
  BY DEF IntakeInv, IntakeTypeOK, Monitor, Counts, Redates

(***************************************************************************)
(* The steps of the camera, the agent and the monitor.                     *)
(***************************************************************************)

LEMMA CameraSteps ==
  ASSUME IntakeInv, Plug \/ Unplug \/ AgentReports \/ AgentFails \/ Scan
  PROVE  IntakeInv'
<1> USE DEF IntakeInv, IntakeTypeOK
<1>1. Empty \in CardFiles
  BY DEF Empty, CardFiles
<1>2. CASE Plug
  <2>1. camera' \in [plugged : BOOLEAN, files : CardFiles]
    BY <1>2, IntakeAssumption DEF Plug, IntakeAssumption
  <2>2. used' \in Counts
    BY <1>2, IntakeAssumption DEF Plug, IntakeAssumption, Counts
  <2>3. QED
    BY <1>2, <2>1, <2>2, Elsewhere DEF Plug, Counts
<1>3. CASE Unplug
  BY <1>3, Elsewhere DEF Unplug
<1>4. CASE AgentReports
  <2>1. NewConnection \in 0..MaxPlugs + MaxMishaps
    BY IntakeAssumption DEF NewConnection, IntakeAssumption
  <2>2. 0 \in 0..MaxPlugs + MaxMishaps
    BY IntakeAssumption DEF IntakeAssumption
  <2>3. node' \in [online : BOOLEAN, connection : 0..MaxPlugs + MaxMishaps, files : CardFiles]
    BY <1>1, <1>4, <2>1, <2>2 DEF AgentReports
  <2>4. QED
    BY <1>4, <2>3, Elsewhere DEF AgentReports
<1>5. CASE AgentFails
  <2>1. 0 \in 0..MaxPlugs + MaxMishaps
    BY IntakeAssumption DEF IntakeAssumption
  <2>2. node' \in [online : BOOLEAN, connection : 0..MaxPlugs + MaxMishaps, files : CardFiles]
    BY <1>5, <2>1 DEF AgentFails
  <2>3. QED
    BY <1>5, <2>2, MishapType, Elsewhere DEF AgentFails, Counts
<1>6. CASE Scan
  <2>1. 0 \in 0..MaxPlugs + MaxMishaps
    BY IntakeAssumption DEF IntakeAssumption
  <2>2. StillImported \in BOOLEAN
    BY DEF StillImported
  <2>3. watch' \in Monitor
    BY <1>6, <2>1, <2>2 DEF Scan, Monitor
  <2>4. QED
    BY <1>6, <2>3, Elsewhere DEF Scan, Monitor
<1>7. QED
  BY <1>2, <1>3, <1>4, <1>5, <1>6

\* A new import, whoever asks for it.
LEMMA EnqueuedKeeps ==
  ASSUME IntakeInv, NEW paths \in SUBSET Paths, NEW fingerprints \in BOOLEAN,
         Enqueued(paths, fingerprints), UNCHANGED <<camera, node, item, upload, archived>>,
         watch' \in Monitor, used' \in Counts, redate' \in Redates
  PROVE  IntakeInv'
<1> DEFINE m == QueuedImport(paths, fingerprints)
<1>1. PICK j \in Imports : import' = [import EXCEPT ![j] = m]
  BY DEF Enqueued
<1>2. /\ m \in ImportJob
      /\ m.status = "queued" /\ m.pc = "idle" /\ m.new = {} /\ m.known = {} /\ m.plan = {}
  BY QueuedType, Zenon
<1> HIDE DEF m
<1>3. Working(m) /\ Storing(m) /\ Queueing(m)
  BY <1>2, FreshJob
<1>4. QED
  BY <1>1, <1>2, <1>3, OneJob

LEMMA MonitorQueues ==
  ASSUME IntakeInv, QueueImport
  PROVE  IntakeInv'
<1>1. watch' \in Monitor
  BY DEF QueueImport, IntakeInv, IntakeTypeOK, Monitor
<1>2. CASE UNCHANGED import
  BY <1>1, <1>2, Elsewhere DEF QueueImport, IntakeInv, IntakeTypeOK, Monitor
<1>3. CASE Enqueued(watch.found, TRUE)
  BY <1>1, <1>3, EnqueuedKeeps, OldTypes DEF QueueImport, IntakeInv, IntakeTypeOK
<1>4. QED
  BY <1>2, <1>3 DEF QueueImport

LEMMA UserAsks ==
  ASSUME IntakeInv, NEW paths \in SUBSET Paths, AskImport(paths)
  PROVE  IntakeInv'
<1>1. used' \in Counts
  BY IntakeAssumption DEF AskImport, IntakeInv, IntakeTypeOK, IntakeAssumption, Counts
<1>2. QED
  BY <1>1, EnqueuedKeeps, OldTypes DEF AskImport

(***************************************************************************)
(* The steps of one job that write nothing.                                *)
(***************************************************************************)

LEMMA JobStarts ==
  ASSUME IntakeInv, NEW j \in Imports, Claim(j) \/ Loses(j) \/ CancelImport(j)
  PROVE  IntakeInv'
<1>1. import[j] \in ImportJob /\ Working(import[j]) /\ Queueing(import[j])
  BY DEF IntakeInv, IntakeTypeOK, JobsAreRight
<1>2. CASE Claim(j)
  <2> DEFINE m == [import[j] EXCEPT !.status = "running", !.pc = "reads", !.todo = import[j].paths]
  <2>1. /\ m \in ImportJob /\ m.pc = "reads" /\ m.status = "running"
        /\ m.new = import[j].new /\ m.known = import[j].known /\ m.plan = import[j].plan
        /\ m.paused = import[j].paused
    BY <1>1 DEF ImportJob
  <2>2. import' = [import EXCEPT ![j] = m]
    BY <1>2 DEF Claim
  <2> HIDE DEF m
  <2>3. import[j].pc = "idle"
    BY <1>1, <1>2 DEF Claim, Working
  <2>4. Working(m) /\ Storing(m) /\ Queueing(m)
    BY <1>1, <2>1, <2>3 DEF Working, Storing, Queueing
  <2>5. QED
    BY <1>2, <2>1, <2>2, <2>4, OldTypes, OneJob DEF Claim
<1>3. CASE Loses(j)
  <2>1. import[j].paths \subseteq Paths /\ import[j].fingerprints \in BOOLEAN
    BY <1>1 DEF ImportJob
  <2>2. /\ Again(j) \in ImportJob /\ Again(j).status = "queued" /\ Again(j).pc = "idle"
        /\ Again(j).new = {} /\ Again(j).known = {} /\ Again(j).plan = {}
    BY <2>1, QueuedType DEF Again
  <2>3. import' = [import EXCEPT ![j] = Again(j)]
    BY <1>3 DEF Loses
  <2>4. QED
    BY <1>3, <2>2, <2>3, FreshJob, OldTypes, OneJob DEF Loses
<1>4. CASE CancelImport(j)
  <2> DEFINE m == [NoImport EXCEPT !.status = "cancelled"]
  <2>1. /\ NoImport.pc = "idle"
        /\ NoImport.new = {} /\ NoImport.known = {} /\ NoImport.plan = {}
    BY DEF NoImport
  <2>2. /\ m \in ImportJob /\ m.status = "cancelled" /\ m.pc = "idle"
        /\ m.new = {} /\ m.known = {} /\ m.plan = {}
    BY <2>1, NoImportType DEF ImportJob
  <2>3. import' = [import EXCEPT ![j] = m]
    BY <1>4 DEF CancelImport
  <2>4. used' \in Counts
    BY <1>4, MishapType DEF CancelImport, IntakeInv
  <2> HIDE DEF m
  <2>5. QED
    BY <1>4, <2>2, <2>3, <2>4, FreshJob, OldTypes, OneJob DEF CancelImport
<1>5. QED
  BY <1>2, <1>3, <1>4

LEMMA JobSkips ==
  ASSUME IntakeInv, NEW j \in Imports, NEW p \in Paths, Skip(j, p)
  PROVE  IntakeInv'
<1> DEFINE m == [import[j] EXCEPT !.todo = @ \ {p}]
<1>1. import[j] \in ImportJob /\ Working(import[j]) /\ Queueing(import[j])
  BY DEF IntakeInv, IntakeTypeOK, JobsAreRight
<1>2. /\ import' = [import EXCEPT ![j] = m]
      /\ import[j].pc = "reads"
      /\ UNCHANGED <<camera, node, watch, item, upload, archived, redate, used>>
  BY DEF Skip
<1>3. /\ m \in ImportJob /\ m.pc = "reads" /\ m.status = import[j].status
      /\ m.new = import[j].new /\ m.known = import[j].known /\ m.plan = import[j].plan
      /\ m.paused = import[j].paused
  BY <1>1, <1>2 DEF ImportJob
<1> HIDE DEF m
<1>4. Working(m) /\ Storing(m) /\ Queueing(m)
  BY <1>1, <1>2, <1>3 DEF Working, Storing, Queueing
<1>5. QED
  BY <1>2, <1>3, <1>4, OldTypes, OneJob

\* A file that is found in the rows is found under its path, with its own fingerprint or without
\* looking at it, or else under its fingerprint.
LEMMA JobReads ==
  ASSUME IntakeInv, NEW j \in Imports, NEW p \in Paths, Read(j, p)
  PROVE  IntakeInv'
<1> DEFINE sum == node.files[p]
           byPath == WithPath(p)
           found == IF byPath # {} /\ ~Retires(j, p, sum) THEN Lowest(byPath)
                                                          ELSE Lowest(WithSum(sum))
           m == [import[j] EXCEPT !.pc = "stores", !.todo = @ \ {p}, !.path = p, !.sum = sum,
                                  !.found = found, !.wasKnown = byPath # {}]
<1>1. sum \in Recordings /\ found \in 0..MaxItems
  <2>1. sum \in Recordings
    BY DEF Read, IntakeInv, IntakeTypeOK, CardFiles
  <2>2. byPath \in SUBSET Items /\ WithSum(sum) \in SUBSET Items
    BY DEF WithPath, WithSum
  <2>3. 0 \in 0..MaxItems
    BY IntakeAssumption DEF IntakeAssumption
  <2>4. Lowest(byPath) \in 0..MaxItems /\ Lowest(WithSum(sum)) \in 0..MaxItems
    BY <2>2, <2>3, LowestIsThere, RowsAreNumbered
  <2>5. QED
    BY <2>1, <2>4
<1>2. found # 0 => Stored(found) /\ (import[j].fingerprints => item[found].sum = sum)
  <2>1. CASE byPath # {} /\ ~Retires(j, p, sum)
    <3>1. byPath \in SUBSET Items
      BY DEF WithPath
    <3>2. found \in byPath
      BY <2>1, <3>1, LowestIsThere
    <3>3. QED
      BY <2>1, <3>2 DEF Retires, WithPath, Stored
  <2>2. CASE ~(byPath # {} /\ ~Retires(j, p, sum))
    <3>1. WithSum(sum) \in SUBSET Items
      BY DEF WithSum
    <3>2. found # 0 => found \in WithSum(sum)
      BY <2>2, <3>1, LowestIsThere
    <3>3. QED
      BY <3>2 DEF WithSum, Stored
  <2>3. QED
    BY <2>1, <2>2
<1>3. /\ import' = [import EXCEPT ![j] = m]
      /\ import[j].pc = "reads"
      /\ UNCHANGED <<camera, node, watch, item, upload, archived, redate, used>>
  BY DEF Read
<1>4. import[j] \in ImportJob /\ Working(import[j]) /\ Queueing(import[j])
  BY DEF IntakeInv, IntakeTypeOK, JobsAreRight
<1>5. (byPath # {}) \in BOOLEAN
  OBVIOUS
<1> HIDE DEF sum, found, byPath
<1>6. /\ m \in ImportJob /\ m.pc = "stores" /\ m.path = p /\ m.sum = sum
      /\ m.found = found /\ m.fingerprints = import[j].fingerprints
      /\ m.status = import[j].status
      /\ m.new = import[j].new /\ m.known = import[j].known /\ m.plan = import[j].plan
      /\ m.paused = import[j].paused
  BY <1>1, <1>4, <1>5 DEF ImportJob
<1> HIDE DEF m
<1>7. Working(m) /\ Queueing(m) /\ Storing(m)
  BY <1>1, <1>2, <1>3, <1>4, <1>6 DEF Working, Queueing, Storing
<1>8. QED
  BY <1>3, <1>6, <1>7, OldTypes, OneJob

\* All files are done.
LEMMA JobLast ==
  ASSUME IntakeInv, NEW j \in Imports, Last(j)
  PROVE  IntakeInv'
<1> DEFINE m == [import[j] EXCEPT !.pc = "plans", !.plan = Follow(j), !.path = "last"]
<1>1. import[j] \in ImportJob /\ Working(import[j]) /\ Queueing(import[j])
  BY DEF IntakeInv, IntakeTypeOK, JobsAreRight
<1>2. /\ import' = [import EXCEPT ![j] = m] /\ import[j].pc = "reads"
      /\ UNCHANGED <<camera, node, watch, item, upload, archived, redate, used>>
  BY DEF Last
<1>3. /\ m \in ImportJob /\ m.pc = "plans" /\ m.path = "last" /\ m.status = import[j].status
      /\ m.new = import[j].new /\ m.known = import[j].known /\ m.plan = import[j].known
      /\ m.paused = import[j].paused
  BY <1>1 DEF ImportJob, Follow
<1> HIDE DEF m
<1>4. Working(m) /\ Storing(m) /\ Queueing(m)
  BY <1>1, <1>2, <1>3 DEF Working, Storing, Queueing
<1>5. QED
  BY <1>2, <1>3, <1>4, OldTypes, OneJob

\* What is dropped from the plan has an upload or had one that succeeded, or it is paused.
LEMMA JobPlans ==
  ASSUME IntakeInv, NEW j \in Imports, PlanUploads(j)
  PROVE  IntakeInv'
<1> DEFINE plan == {i \in import[j].plan :
                      ~DatePauses(i) /\ upload.active[i] = 0 /\ item[i].sum \notin archived}
           held == import[j].paused \cup {i \in import[j].plan : DatePauses(i)}
           m == [import[j] EXCEPT !.pc = "inserts", !.plan = plan, !.paused = held]
<1>1. import[j] \in ImportJob /\ Working(import[j]) /\ Queueing(import[j])
  BY DEF IntakeInv, IntakeTypeOK, JobsAreRight
<1>2. /\ import' = [import EXCEPT ![j] = m] /\ import[j].pc = "plans"
      /\ \A k \in Imports : import[k].pc # "inserts"
      /\ UNCHANGED <<camera, node, watch, item, upload, archived, redate, used>>
  BY DEF PlanUploads, QueueLockFree
<1>3. import[j].plan \subseteq Items
  BY <1>1 DEF ImportJob
<1>4. ASSUME NEW i \in import[j].plan PROVE i \in plan \/ Covered(i) \/ i \in held
  <2>1. upload.active[i] \in Nat /\ (upload.active[i] > 0 => i \in upload.tried)
    BY <1>3 DEF IntakeInv, IntakeTypeOK, RowsAreWhole
  <2>2. QED
    BY <2>1 DEF Covered
<1>5. /\ plan \subseteq import[j].plan /\ \A i \in plan : upload.active[i] = 0
      /\ import[j].paused \subseteq held /\ held \subseteq import[j].paused \cup import[j].plan
  OBVIOUS
<1> HIDE DEF plan, held
<1>6. /\ m \in ImportJob /\ m.pc = "inserts" /\ m.path = import[j].path
      /\ m.status = import[j].status
      /\ m.new = import[j].new /\ m.known = import[j].known /\ m.plan = plan
      /\ m.paused = held
  BY <1>1, <1>3, <1>5 DEF ImportJob
<1> HIDE DEF m
<1>7. Working(m) /\ Storing(m)
  BY <1>1, <1>2, <1>5, <1>6 DEF Working, Storing
<1>8. Queueing(m)
  <2>1. \A i \in m.new \ plan : Covered(i) \/ i \in held
    BY <1>1, <1>2, <1>4, <1>5, <1>6 DEF Queueing
  <2>2. m.path = "last" => \A i \in m.known \ plan : Covered(i) \/ i \in held
    BY <1>1, <1>2, <1>4, <1>5, <1>6 DEF Queueing
  <2>3. m.status # "done"
    BY <1>1, <1>2, <1>6 DEF Working
  <2>4. QED
    BY <1>6, <2>1, <2>2, <2>3 DEF Queueing
<1>9. QED
  BY <1>2, <1>5, <1>6, <1>7, <1>8, OldTypes, OneJob

(***************************************************************************)
(* A row is written.                                                       *)
(***************************************************************************)

\* The state of one job when another one, or the camera, changed only rows whose recordings stay.
LEMMA RowsMayMove ==
  ASSUME NEW m \in ImportJob, Working(m), Storing(m), Queueing(m),
         UNCHANGED <<upload, archived>>,
         \A i \in Items : Stored(i) => Stored(i)' /\ item'[i].sum = item[i].sum
  PROVE  Working(m)' /\ Storing(m)' /\ Queueing(m)'
<1>1. \A i \in m.new \cup m.known \cup m.plan : i \in Items
  BY DEF ImportJob
<1>2. m.found # 0 => m.found \in Items
  BY IntakeAssumption DEF ImportJob, Items, IntakeAssumption
<1>3. Working(m)'
  BY <1>1 DEF Working
<1>4. Storing(m)'
  BY <1>2 DEF Storing
<1>5. Queueing(m)'
  <2>1. \A i \in m.new \cup m.known : Covered(i) => Covered(i)'
    BY <1>1 DEF Covered, Working
  <2>2. QED
    BY <2>1 DEF Queueing
<1>6. QED
  BY <1>3, <1>4, <1>5

\* The row that a file is stored in, and what becomes of the other rows.
LEMMA StoreRows ==
  ASSUME IntakeInv, NEW j \in Imports, StoreItem(j)
  PROVE  /\ item' \in [Items -> [path : Paths \cup {Missing, "retired"}, sum : Recordings \cup {Missing}]]
         /\ \A i \in Items : Stored(i) => Stored(i)' /\ item'[i].sum = item[i].sum
         /\ \A i \in Items : Stored(i)' => item'[i].sum \in Recordings
         /\ RowFor(j) \in Items /\ item'[RowFor(j)] # NoItem
<1> DEFINE Row == [path : Paths \cup {Missing, "retired"}, sum : Recordings \cup {Missing}]
           job == import[j]
           rows == FreedRows(j)
           same == AtPath(j)
           id == RowFor(j)
<1>0. /\ job.pc = "stores" /\ id # 0
      /\ item' = IF job.found = 0 /\ same = {}
                   THEN [rows EXCEPT ![id] = [path |-> job.path, sum |-> job.sum]]
                 ELSE IF job.found = 0 THEN rows
                 ELSE [rows EXCEPT ![id] =
                        [path |-> IF same = {} /\ Gone(id) THEN job.path ELSE @.path,
                         sum |-> IF job.fingerprints /\ id \in same THEN job.sum ELSE @.sum]]
  BY DEF StoreItem
<1>1. /\ item \in [Items -> Row]
      /\ \A i \in Items : Stored(i) => item[i].sum \in Recordings
      /\ job.path \in Paths /\ job.sum \in Recordings /\ job.found \in 0..MaxItems
      /\ job.found # 0 => Stored(job.found) /\ (job.fingerprints => item[job.found].sum = job.sum)
  BY <1>0 DEF IntakeInv, IntakeTypeOK, RowsAreWhole, JobsAreRight, Storing, ImportJob
<1>2. NoItem \in Row /\ NoItem.sum = Missing /\ NoItem.path = Missing
  BY DEF NoItem
<1>3. Missing \notin Paths /\ Missing \notin Recordings /\ Missing # "retired"
  BY IntakeAssumption DEF IntakeAssumption
<1>4. \A r \in Row : r.sum \in Recordings => r # NoItem
  BY <1>2, <1>3
<1>5. /\ rows \in [Items -> Row]
      /\ \A i \in Items : rows[i].sum = item[i].sum /\ (rows[i] = NoItem <=> item[i] = NoItem)
  <2>1. CASE Retiring(j)
    <3>1. WithPath(job.path) # {} /\ WithPath(job.path) \in SUBSET Items
      BY <2>1 DEF Retiring, Retires, WithPath
    <3> DEFINE l == Lowest(WithPath(job.path))
    <3>2. l \in WithPath(job.path)
      BY <3>1, LowestIsThere
    <3>3. l \in Items /\ item[l] # NoItem
      BY <3>2 DEF WithPath
    <3>4. rows = [item EXCEPT ![l].path = "retired"]
      BY <2>1 DEF FreedRows
    <3> HIDE DEF l
    <3>5. item[l].sum \in Recordings
      BY <1>1, <3>3 DEF Stored
    <3>6. /\ rows \in [Items -> Row] /\ rows[l].sum = item[l].sum
          /\ \A i \in Items \ {l} : rows[i] = item[i]
      BY <1>1, <3>3, <3>4
    <3>7. rows[l] # NoItem
      BY <1>4, <3>3, <3>5, <3>6
    <3>8. QED
      BY <3>3, <3>6, <3>7
  <2>2. CASE ~Retiring(j)
    BY <1>1, <2>2 DEF FreedRows
  <2>3. QED
    BY <2>1, <2>2
<1>6. same \subseteq Items /\ \A i \in same : rows[i] # NoItem
  BY <1>1, <1>2, <1>3 DEF AtPath
<1> HIDE DEF rows, same
<1>7. CASE job.found = 0 /\ same = {}
  <2>1. {i \in Items : rows[i] = NoItem} \in SUBSET Items
    OBVIOUS
  <2>2. id \in Items /\ rows[id] = NoItem
    BY <1>0, <1>7, <2>1, LowestIsThere DEF RowFor, rows, same
  <2> DEFINE new == [path |-> job.path, sum |-> job.sum]
  <2>3. new \in Row /\ new.sum \in Recordings
    BY <1>1
  <2>4. item' = [rows EXCEPT ![id] = new]
    BY <1>0, <1>7
  <2> HIDE DEF new, Row
  <2>5. /\ item' \in [Items -> Row] /\ item'[id] = new
        /\ \A i \in Items \ {id} : item'[i] = rows[i]
    BY <1>5, <2>2, <2>3, <2>4
  <2>6. new # NoItem
    BY <1>4, <2>3
  <2>7. ASSUME NEW i \in Items, Stored(i) PROVE i # id
    BY <1>5, <2>2, <2>7 DEF Stored
  <2>8. QED
    BY <1>1, <1>5, <2>2, <2>3, <2>5, <2>6, <2>7 DEF Stored, Row
<1>8. CASE job.found = 0 /\ same # {}
  <2>1. id \in same
    BY <1>6, <1>8, LowestIsThere DEF RowFor, same
  <2>2. item' = rows
    BY <1>0, <1>8
  <2>3. QED
    BY <1>1, <1>5, <1>6, <2>1, <2>2 DEF Stored
<1>9. CASE job.found # 0
  <2>1. id = job.found /\ id \in Items
    <3>1. \A n \in 0..MaxItems : n # 0 => n \in Items
      BY IntakeAssumption DEF Items, IntakeAssumption
    <3>2. QED
      BY <1>1, <1>9, <3>1 DEF RowFor
  <2> DEFINE new == [path |-> IF same = {} /\ Gone(id) THEN job.path ELSE rows[id].path,
                     sum |-> IF job.fingerprints /\ id \in same THEN job.sum ELSE rows[id].sum]
  <2>2. item' = [rows EXCEPT ![id] = new]
    BY <1>0, <1>9
  <2>3. rows[id] \in Row /\ item[id].sum \in Recordings /\ rows[id].sum = item[id].sum
    BY <1>1, <1>5, <1>9, <2>1
  <2>4. /\ new \in Row
        /\ new.sum = IF job.fingerprints /\ id \in same THEN job.sum ELSE rows[id].sum
    BY <1>1, <2>3
  <2>5. new.sum = item[id].sum
    BY <1>1, <1>9, <2>1, <2>3, <2>4
  <2> HIDE DEF new, Row
  <2>6. /\ item' \in [Items -> Row] /\ item'[id] = new
        /\ \A i \in Items \ {id} : item'[i] = rows[i]
    <3>1. rows \in [Items -> Row] /\ new \in Row
      BY <1>5, <2>4
    <3>2. QED
      BY <2>1, <2>2, <3>1
  <2>7. new # NoItem
    BY <1>4, <2>3, <2>4, <2>5
  <2>8. QED
    BY <1>1, <1>5, <2>1, <2>3, <2>5, <2>6, <2>7 DEF Stored, Row
<1>10. QED
  BY <1>7, <1>8, <1>9

\* What StoreItem makes of its job.
LEMMA JobStores ==
  ASSUME IntakeInv, NEW j \in Imports, StoreItem(j)
  PROVE  /\ IntakeInv'
         /\ \A i \in Items : Stored(i) => item'[i].sum = item[i].sum
<1> DEFINE job == import[j]
           id == RowFor(j)
           isNew == ~job.wasKnown /\ id \notin job.new \cup job.known
           m == [job EXCEPT
                  !.pc = IF isNew THEN "plans" ELSE "reads", !.plan = IF isNew THEN {id} ELSE {},
                  !.new = IF isNew THEN @ \cup {id} ELSE @, !.path = Missing, !.sum = Missing,
                  !.found = 0,
                  !.known = IF job.wasKnown /\ id \notin job.new THEN @ \cup {id} ELSE @,
                  !.wasKnown = FALSE]
<1>1. /\ job.pc = "stores"
      /\ import' = [import EXCEPT ![j] = m]
      /\ UNCHANGED <<camera, node, watch, upload, archived, redate, used>>
  BY DEF StoreItem
<1>2. /\ item' \in [Items -> [path : Paths \cup {Missing, "retired"}, sum : Recordings \cup {Missing}]]
      /\ \A i \in Items : Stored(i) => Stored(i)' /\ item'[i].sum = item[i].sum
      /\ \A i \in Items : Stored(i)' => item'[i].sum \in Recordings
      /\ id \in Items /\ item'[id] # NoItem
  BY StoreRows
<1>3. job \in ImportJob /\ Working(job) /\ Storing(job) /\ Queueing(job)
  BY DEF IntakeInv, IntakeTypeOK, JobsAreRight
<1>4. isNew \in BOOLEAN
  OBVIOUS
<1> HIDE DEF id, isNew
<1>5. 0 \in 0..MaxItems
  BY IntakeAssumption DEF IntakeAssumption
<1>6. /\ m \in ImportJob /\ m.status = job.status
      /\ m.pc = (IF isNew THEN "plans" ELSE "reads") /\ m.path = Missing
      /\ m.plan = (IF isNew THEN {id} ELSE {})
      /\ m.new = (IF isNew THEN job.new \cup {id} ELSE job.new)
      /\ m.known \subseteq job.known \cup {id} /\ m.paused = job.paused
  BY <1>2, <1>3, <1>4, <1>5 DEF ImportJob
<1> HIDE DEF m
<1>7. /\ import' \in [Imports -> ImportJob] /\ import'[j] = m
      /\ \A k \in Imports \ {j} : import'[k] = import[k]
  BY <1>1, <1>6 DEF IntakeInv, IntakeTypeOK
<1>8. IntakeTypeOK'
  BY <1>1, <1>2, <1>7 DEF IntakeInv, IntakeTypeOK
<1>9. RowsAreWhole' /\ OneUploadEach' /\ Inserting'
  <2>1. upload.tried \subseteq Items
    BY DEF IntakeInv, IntakeTypeOK
  <2>2. RowsAreWhole' /\ OneUploadEach'
    BY <1>1, <1>2, <2>1 DEF IntakeInv, RowsAreWhole, OneUploadEach
  <2>3. Inserting'
    BY <1>1, <1>6, <1>7 DEF IntakeInv, Inserting
  <2>4. QED
    BY <2>2, <2>3
<1>10. Working(import[j])' /\ Storing(import[j])' /\ Queueing(import[j])'
  <2>1. m.status = "running" /\ Missing # "last"
    BY <1>1, <1>3, <1>6, IntakeAssumption DEF Working, IntakeAssumption
  <2>2. job.new \subseteq Items /\ job.known \subseteq Items
    BY <1>3 DEF ImportJob
  <2>3. \A i \in job.new \cup job.known \cup {id} : item'[i] # NoItem
    BY <1>2, <1>3, <2>2 DEF Working, Stored
  <2>4. \A i \in job.new : Covered(i)' \/ i \in m.paused
    BY <1>6, <1>1, <1>2, <1>3, <2>2 DEF Queueing, Covered, Working
  <2>5. Working(import[j])' /\ Storing(import[j])'
    BY <1>6, <1>7, <2>1, <2>3 DEF Working, Storing, Stored
  <2>6. Queueing(import[j])'
    BY <1>6, <1>7, <2>1, <2>4 DEF Queueing
  <2>7. QED
    BY <2>5, <2>6
<1>11. ASSUME NEW k \in Imports
       PROVE  Working(import[k])' /\ Storing(import[k])' /\ Queueing(import[k])'
  <2>1. CASE k = j
    BY <1>10, <2>1
  <2>2. CASE k # j
    <3>1. /\ import'[k] = import[k] /\ import[k] \in ImportJob
          /\ Working(import[k]) /\ Storing(import[k]) /\ Queueing(import[k])
      BY <1>7, <2>2 DEF IntakeInv, IntakeTypeOK, JobsAreRight
    <3> DEFINE n == import[k]
    <3>2. \A i \in n.new \cup n.known \cup n.plan : i \in Items
      BY <3>1 DEF ImportJob
    <3>3. QED
      BY <3>1, <1>1, <1>2, RowsMayMove DEF Working, Storing, Queueing, Stored, Covered
  <2>3. QED
    BY <2>1, <2>2
<1>12. QED
  BY <1>2, <1>8, <1>9, <1>11 DEF IntakeInv, JobsAreRight

(***************************************************************************)
(* A correction of a file's date begins, indexes the file, and ends.       *)
(***************************************************************************)

LEMMA RedateSteps ==
  ASSUME IntakeInv, NEW p \in Paths, Redate(p) \/ \E sum \in Recordings : RedateConfirms(p, sum)
  PROVE  IntakeInv'
<1>1. CASE Redate(p)
  <2>1. used' \in Counts
    BY <1>1, IntakeAssumption DEF Redate, IntakeInv, IntakeTypeOK, IntakeAssumption, Counts
  <2>2. node.files[p] \in Recordings
    BY <1>1 DEF Redate, IntakeInv, IntakeTypeOK, CardFiles
  <2>3. redate' \in Redates
    BY <1>1, <2>2, OldTypes DEF Redate, Redates
  <2>4. IntakeTypeOK'
    BY <1>1, <2>1, <2>3 DEF Redate, IntakeInv, IntakeTypeOK, Counts, Redates
  <2>5. QED
    BY <1>1, <2>4, Elsewhere DEF Redate
<1>2. ASSUME NEW sum \in Recordings, RedateConfirms(p, sum) PROVE IntakeInv'
  <2>1. redate' \in Redates
    BY <1>2, OldTypes DEF RedateConfirms, Redates
  <2>2. IntakeTypeOK'
    BY <1>2, <2>1 DEF RedateConfirms, IntakeInv, IntakeTypeOK, Redates
  <2>3. QED
    BY <1>2, <2>2, Elsewhere DEF RedateConfirms
<1>3. QED
  BY <1>1, <1>2

LEMMA RedateEnding ==
  ASSUME IntakeInv, NEW p \in Paths, RedateEnds(p)
  PROVE  IntakeInv'
<1>1. redate' \in Redates
  BY OldTypes DEF RedateEnds, Redates
<1>2. CASE UNCHANGED import
  <2>1. IntakeTypeOK'
    BY <1>1, <1>2 DEF RedateEnds, IntakeInv, IntakeTypeOK, Redates
  <2>2. QED
    BY <1>2, <2>1, Elsewhere DEF RedateEnds
<1>3. CASE Enqueued({p}, TRUE)
  BY <1>1, <1>3, EnqueuedKeeps, OldTypes DEF RedateEnds
<1>4. QED
  BY <1>2, <1>3 DEF RedateEnds

\* The row that a correction indexes its file in, and what becomes of the other rows.
LEMMA IndexRows ==
  ASSUME IntakeInv, NEW p \in Paths, RedateIndexes(p)
  PROVE  /\ item' \in [Items -> [path : Paths \cup {Missing, "retired"}, sum : Recordings \cup {Missing}]]
         /\ \A i \in Items : Stored(i) => Stored(i)' /\ item'[i].sum = item[i].sum
         /\ \A i \in Items : Stored(i)' => item'[i].sum \in Recordings
<1> DEFINE Row == [path : Paths \cup {Missing, "retired"}, sum : Recordings \cup {Missing}]
           sum == node.files[p]
           id == IndexRow(sum)
           l == Lowest(WithPath(p))
           rows == IF WithPath(p) = {} THEN item ELSE [item EXCEPT ![l].path = "retired"]
<1>1. /\ item \in [Items -> Row]
      /\ \A i \in Items : Stored(i) => item[i].sum \in Recordings
  BY DEF IntakeInv, IntakeTypeOK, RowsAreWhole
<1>2. sum \in Recordings
  BY <1>1 DEF RedateIndexes, IntakeInv, IntakeTypeOK
<1>3. \A r \in Row : r.sum \in Recordings => r # NoItem
  BY IntakeAssumption DEF IntakeAssumption, NoItem
<1>4. /\ rows \in [Items -> Row]
      /\ \A i \in Items : rows[i].sum = item[i].sum /\ (rows[i] = NoItem <=> item[i] = NoItem)
  <2>1. CASE WithPath(p) = {}
    BY <1>1, <2>1
  <2>2. CASE WithPath(p) # {}
    <3>1. WithPath(p) \in SUBSET Items
      BY DEF WithPath
    <3>2. l \in WithPath(p)
      BY <2>2, <3>1, LowestIsThere
    <3>3. l \in Items /\ item[l] # NoItem
      BY <3>2 DEF WithPath
    <3> HIDE DEF l
    <3>4. item[l].sum \in Recordings /\ rows = [item EXCEPT ![l].path = "retired"]
      BY <1>1, <2>2, <3>3 DEF Stored
    <3>5. /\ rows \in [Items -> Row] /\ rows[l].sum = item[l].sum
          /\ \A i \in Items \ {l} : rows[i] = item[i]
      BY <1>1, <3>3, <3>4
    <3>6. rows[l] # NoItem
      BY <1>3, <3>3, <3>4, <3>5
    <3>7. QED
      BY <3>3, <3>5, <3>6
  <2>3. QED
    BY <2>1, <2>2
<1>5. /\ id # 0
      /\ item' = IF WithSum(sum) # {} THEN [rows EXCEPT ![id].path = IF Gone(id) THEN p ELSE @]
                 ELSE [rows EXCEPT ![id] = [path |-> p, sum |-> sum]]
  BY DEF RedateIndexes, IndexedRows
<1>6. id \in Items /\ (IF WithSum(sum) # {} THEN Stored(id) ELSE ~Stored(id))
  <2>1. WithSum(sum) \in SUBSET Items /\ {i \in Items : item[i] = NoItem} \in SUBSET Items
    BY DEF WithSum
  <2>2. CASE WithSum(sum) # {}
    <3>1. id \in WithSum(sum)
      BY <2>1, <2>2, LowestIsThere DEF IndexRow
    <3>2. QED
      BY <2>2, <3>1 DEF WithSum, Stored
  <2>3. CASE WithSum(sum) = {}
    <3>1. id = Lowest({i \in Items : item[i] = NoItem})
      BY <2>3 DEF IndexRow
    <3>2. id \in {i \in Items : item[i] = NoItem}
      BY <1>5, <2>1, <3>1, LowestIsThere
    <3>3. QED
      BY <2>3, <3>2 DEF Stored
  <2>4. QED
    BY <2>2, <2>3
<1> HIDE DEF rows, id, sum
<1>7. CASE WithSum(sum) # {}
  <2> DEFINE path == IF Gone(id) THEN p ELSE rows[id].path
  <2>1. item' = [rows EXCEPT ![id].path = path]
    BY <1>5, <1>7
  <2>2. rows[id] \in Row /\ path \in Paths \cup {Missing, "retired"}
    BY <1>4, <1>6
  <2> HIDE DEF path
  <2>3. /\ item' \in [Items -> Row] /\ item'[id] \in Row /\ item'[id].sum = rows[id].sum
        /\ \A i \in Items \ {id} : item'[i] = rows[i]
    BY <1>4, <1>6, <2>1, <2>2
  <2>4. item[id].sum \in Recordings
    BY <1>1, <1>6, <1>7
  <2>5. item'[id] # NoItem
    BY <1>3, <1>4, <1>6, <2>3, <2>4
  <2> HIDE DEF Row
  <2>6. QED
    BY <1>1, <1>4, <1>6, <2>3, <2>4, <2>5 DEF Stored, Row
<1>8. CASE WithSum(sum) = {}
  <2> DEFINE new == [path |-> p, sum |-> sum]
  <2>1. item' = [rows EXCEPT ![id] = new]
    BY <1>5, <1>8
  <2>2. new \in Row /\ new.sum \in Recordings
    BY <1>2
  <2>3. new # NoItem
    BY <1>3, <2>2
  <2> HIDE DEF new, Row
  <2>4. /\ item' \in [Items -> Row] /\ item'[id] = new
        /\ \A i \in Items \ {id} : item'[i] = rows[i]
    BY <1>4, <1>6, <2>1, <2>2
  <2>5. QED
    BY <1>1, <1>4, <1>6, <1>8, <2>2, <2>3, <2>4 DEF Stored, Row
<1>9. QED
  BY <1>7, <1>8

LEMMA RedateIndexing ==
  ASSUME IntakeInv, NEW p \in Paths, RedateIndexes(p)
  PROVE  /\ IntakeInv'
         /\ \A i \in Items : Stored(i) => item'[i].sum = item[i].sum
<1>1. /\ item' \in [Items -> [path : Paths \cup {Missing, "retired"}, sum : Recordings \cup {Missing}]]
      /\ \A i \in Items : Stored(i) => Stored(i)' /\ item'[i].sum = item[i].sum
      /\ \A i \in Items : Stored(i)' => item'[i].sum \in Recordings
  BY IndexRows
<1>2. UNCHANGED <<camera, node, watch, import, upload, archived, redate, used>>
  BY DEF RedateIndexes
<1>3. IntakeTypeOK'
  BY <1>1, <1>2 DEF IntakeInv, IntakeTypeOK
<1>4. RowsAreWhole' /\ OneUploadEach' /\ Inserting'
  <2>1. upload.tried \subseteq Items
    BY DEF IntakeInv, IntakeTypeOK
  <2>2. QED
    BY <1>1, <1>2, <2>1 DEF IntakeInv, RowsAreWhole, OneUploadEach, Inserting
<1>5. ASSUME NEW k \in Imports
      PROVE  Working(import[k])' /\ Storing(import[k])' /\ Queueing(import[k])'
  <2>1. import[k] \in ImportJob /\ Working(import[k]) /\ Storing(import[k]) /\ Queueing(import[k])
    BY DEF IntakeInv, IntakeTypeOK, JobsAreRight
  <2> DEFINE n == import[k]
  <2>2. \A i \in n.new \cup n.known \cup n.plan : i \in Items
    BY <2>1 DEF ImportJob
  <2>3. QED
    BY <1>1, <1>2, <2>1, <2>2, RowsMayMove DEF Working, Storing, Queueing, Stored, Covered
<1>6. QED
  BY <1>1, <1>3, <1>4, <1>5 DEF IntakeInv, JobsAreRight

(***************************************************************************)
(* Uploads are queued and end, and the server restarts.                    *)
(***************************************************************************)

LEMMA JobInserts ==
  ASSUME IntakeInv, NEW j \in Imports, InsertUploads(j)
  PROVE  IntakeInv'
<1> DEFINE job == import[j]
           last == job.path = "last"
           m == [job EXCEPT !.pc = IF last THEN "idle" ELSE "reads",
                            !.status = IF last THEN "done" ELSE @, !.plan = {}, !.path = Missing]
<1>1. /\ job.pc = "inserts"
      /\ upload' = [active |-> [i \in Items |-> upload.active[i] + IF i \in job.plan THEN 1 ELSE 0],
                    tried |-> upload.tried \cup job.plan]
      /\ import' = [import EXCEPT ![j] = m]
      /\ UNCHANGED <<camera, node, watch, item, archived, redate, used>>
  BY DEF InsertUploads
<1>2. job \in ImportJob /\ Working(job) /\ Storing(job) /\ Queueing(job)
  BY DEF IntakeInv, IntakeTypeOK, JobsAreRight
<1>3. last \in BOOLEAN /\ job.plan \subseteq Items
  BY <1>2 DEF ImportJob
<1>4. /\ m \in ImportJob /\ m.pc = (IF last THEN "idle" ELSE "reads") /\ m.plan = {}
      /\ m.status = (IF last THEN "done" ELSE job.status) /\ m.path = Missing
      /\ m.new = job.new /\ m.known = job.known /\ m.paused = job.paused
  BY <1>2, <1>3 DEF ImportJob
<1> HIDE DEF m
<1>5. /\ import' \in [Imports -> ImportJob] /\ import'[j] = m
      /\ \A k \in Imports \ {j} : import'[k] = import[k]
  BY <1>1, <1>4 DEF IntakeInv, IntakeTypeOK
<1>6. upload.active \in [Items -> Nat] /\ upload.tried \in SUBSET Items
  BY DEF IntakeInv, IntakeTypeOK
<1>7. \A i \in Items : /\ i \in job.plan => upload.active[i] = 0 /\ upload'.active[i] = 1
                       /\ i \notin job.plan => upload'.active[i] = upload.active[i]
  BY <1>1, <1>6 DEF IntakeInv, Inserting
<1>8. /\ upload' \in [active : [Items -> Nat], tried : SUBSET Items]
      /\ upload'.tried = upload.tried \cup job.plan
  BY <1>1, <1>3, <1>6
<1>9. IntakeTypeOK'
  BY <1>1, <1>5, <1>8 DEF IntakeInv, IntakeTypeOK
<1>10. RowsAreWhole' /\ OneUploadEach'
  BY <1>1, <1>2, <1>7, <1>8 DEF IntakeInv, RowsAreWhole, OneUploadEach, Working, Stored
<1>11. Inserting'
  BY <1>1, <1>4, <1>5 DEF IntakeInv, Inserting
<1>12. Working(import[j])' /\ Storing(import[j])' /\ Queueing(import[j])'
  BY <1>1, <1>2, <1>4, <1>5, <1>8 DEF Working, Storing, Queueing, Stored, Covered
<1>13. ASSUME NEW k \in Imports
       PROVE  Working(import[k])' /\ Storing(import[k])' /\ Queueing(import[k])'
  <2>1. CASE k = j
    BY <1>12, <2>1
  <2>2. CASE k # j
    <3>1. /\ import'[k] = import[k]
          /\ Working(import[k]) /\ Storing(import[k]) /\ Queueing(import[k])
      BY <1>5, <2>2 DEF IntakeInv, JobsAreRight
    <3>2. QED
      BY <3>1, <1>1, <1>8 DEF Working, Storing, Queueing, Stored, Covered
  <2>3. QED
    BY <2>1, <2>2
<1>14. QED
  BY <1>9, <1>10, <1>11, <1>13 DEF IntakeInv, JobsAreRight

LEMMA UploadEnding ==
  ASSUME IntakeInv, NEW i \in Items, UploadEnds(i)
  PROVE  IntakeInv'
<1>1. /\ upload.active \in [Items -> Nat] /\ upload.tried \in SUBSET Items
      /\ upload.active[i] > 0 /\ upload' = [upload EXCEPT !.active[i] = @ - 1]
  BY DEF UploadEnds, IntakeInv, IntakeTypeOK
<1>2. /\ upload' \in [active : [Items -> Nat], tried : SUBSET Items]
      /\ upload'.tried = upload.tried
      /\ \A k \in Items : upload'.active[k] <= upload.active[k]
  BY <1>1 DEF IntakeInv, IntakeTypeOK
<1>3. archived \subseteq archived' /\ archived' \subseteq Recordings
  <2>1. item[i].sum \in Recordings
    BY <1>1 DEF IntakeInv, RowsAreWhole
  <2>2. QED
    BY <2>1 DEF UploadEnds, IntakeInv, IntakeTypeOK
<1>4. IntakeTypeOK'
  BY <1>2, <1>3, MishapType DEF UploadEnds, IntakeInv, IntakeTypeOK, Counts
<1>5. RowsAreWhole' /\ OneUploadEach'
  BY <1>1, <1>2 DEF UploadEnds, IntakeInv, RowsAreWhole, OneUploadEach, Stored
<1>6. Inserting'
  <2>1. ASSUME NEW j \in Imports, NEW k \in import[j].plan, upload.active[k] = 0
        PROVE  upload'.active[k] = 0
    <3>1. k \in Items
      BY DEF IntakeInv, IntakeTypeOK, ImportJob
    <3>2. QED
      BY <1>1, <1>2, <2>1, <3>1
  <2>2. QED
    BY <2>1 DEF UploadEnds, IntakeInv, Inserting
<1>7. JobsAreRight'
  BY <1>2, <1>3
     DEF UploadEnds, IntakeInv, JobsAreRight, Working, Storing, Queueing, Stored, Covered
<1>8. QED
  BY <1>4, <1>5, <1>6, <1>7 DEF IntakeInv

LEMMA ServerRestarts ==
  ASSUME IntakeInv, IntakeCrash
  PROVE  IntakeInv'
<1>1. ASSUME NEW j \in Imports
      PROVE  /\ import'[j] \in ImportJob
             /\ \/ import'[j] = import[j] /\ import[j].status # "running"
                \/ /\ import'[j].pc = "idle" /\ import'[j].status = "queued"
                   /\ import'[j].new = {} /\ import'[j].known = {} /\ import'[j].plan = {}
  <2>1. import[j] \in ImportJob
    BY DEF IntakeInv, IntakeTypeOK
  <2>2. import[j].paths \subseteq Paths /\ import[j].fingerprints \in BOOLEAN
    BY <2>1 DEF ImportJob
  <2>3. /\ Again(j) \in ImportJob /\ Again(j).status = "queued" /\ Again(j).pc = "idle"
        /\ Again(j).new = {} /\ Again(j).known = {} /\ Again(j).plan = {}
    BY <2>2, QueuedType DEF Again
  <2>4. import'[j] = IF import[j].status = "running" THEN Again(j) ELSE import[j]
    BY DEF IntakeCrash
  <2>5. QED
    BY <2>1, <2>3, <2>4
<1>2. import' \in [Imports -> ImportJob]
  BY <1>1 DEF IntakeCrash
<1>3. 0 \in 0..MaxPlugs + MaxMishaps
  BY IntakeAssumption DEF IntakeAssumption
<1>4. IntakeTypeOK'
  <2>1. redate' \in Redates
    BY OldTypes DEF IntakeCrash, Redates
  <2>2. QED
    BY <1>2, <1>3, <2>1, MishapType DEF IntakeCrash, IntakeInv, IntakeTypeOK, Counts, Redates
<1>5. RowsAreWhole' /\ OneUploadEach'
  BY DEF IntakeCrash, IntakeInv, RowsAreWhole, OneUploadEach, Stored
<1>6. Inserting'
  BY <1>1 DEF IntakeCrash, IntakeInv, Inserting, JobsAreRight, Working
<1>7. ASSUME NEW j \in Imports
      PROVE  Working(import'[j]) /\ Storing(import'[j]) /\ Queueing(import'[j])
  BY <1>1, FreshJob DEF IntakeInv, JobsAreRight
<1>8. JobsAreRight'
  BY <1>7 DEF IntakeCrash, JobsAreRight, Working, Storing, Queueing, Stored, Covered
<1>9. QED
  BY <1>4, <1>5, <1>6, <1>8 DEF IntakeInv

LEMMA IntakeInvStep == IntakeInv /\ [IntakeNext]_intakeVars => IntakeInv'
<1>1. ASSUME IntakeInv, UNCHANGED intakeVars PROVE IntakeInv'
  <2>1. IntakeTypeOK'
    BY <1>1 DEF IntakeInv, IntakeTypeOK, intakeVars
  <2>2. QED
    BY <1>1, <2>1, Elsewhere DEF intakeVars
<1>2. ASSUME IntakeInv, NEW j \in Imports, ImportStep(j) \/ CancelImport(j) PROVE IntakeInv'
  BY <1>2, JobStarts, JobSkips, JobReads, JobLast, JobPlans, JobStores, JobInserts
     DEF ImportStep
<1>3. ASSUME IntakeInv, NEW p \in Paths,
             \/ Redate(p) \/ RedateIndexes(p) \/ RedateEnds(p)
             \/ \E sum \in Recordings : RedateConfirms(p, sum)
      PROVE  IntakeInv'
  BY <1>3, RedateSteps, RedateIndexing, RedateEnding
<1>4. QED
  BY <1>1, <1>2, <1>3, CameraSteps, MonitorQueues, UserAsks, UploadEnding, ServerRestarts
     DEF IntakeNext

LEMMA IntakeInvariant == IntakeSpec => []IntakeInv
  BY IntakeInvInit, IntakeInvStep, PTL DEF IntakeSpec

\* devicescan.py, tasks.py: camera, monitor, jobs, rows and uploads keep their types.
THEOREM IntakeTypes == IntakeSpec => []IntakeTypeOK
<1>1. IntakeInv => IntakeTypeOK
  BY DEF IntakeInv
<1>2. QED
  BY <1>1, IntakeInvariant, PTL

\* tasks.py: two imports that meet the same recording queue one upload of it, not two.
THEOREM UploadsOnce == IntakeSpec => []OneUploadEach
<1>1. IntakeInv => OneUploadEach
  BY DEF IntakeInv
<1>2. QED
  BY <1>1, IntakeInvariant, PTL

\* tasks.py: whatever an import that is done has indexed was given to an upload, is archived, or had
\* its date under correction when that import planned its uploads.
THEOREM NothingForgotten == IntakeSpec => []IndexedIsQueued
<1>1. IntakeInv => IndexedIsQueued
  <2>1. ASSUME IntakeInv, NEW j \in Imports, import[j].status = "done",
               NEW i \in (import[j].new \cup import[j].known) \ import[j].paused
        PROVE  Covered(i)
    <3>1. import[j].pc = "idle" /\ Queueing(import[j])
      BY <2>1 DEF IntakeInv, IntakeTypeOK, ImportJob, JobsAreRight, Working
    <3>2. QED
      BY <2>1, <3>1 DEF Queueing
  <2>2. QED
    BY <2>1 DEF IndexedIsQueued, Covered
<1>2. QED
  BY <1>1, IntakeInvariant, PTL

\* devicescan.py, tasks.py: a row keeps the recording it was made for.
THEOREM RowsKeepRecordings == IntakeSpec => ItemsKeepTheirRecording
<1>1. ASSUME IntakeInv, [IntakeNext]_intakeVars, NEW i \in Items, item[i] # NoItem
      PROVE  item'[i].sum = item[i].sum
  <2>1. CASE (\E j \in Imports : StoreItem(j)) \/ (\E p \in Paths : RedateIndexes(p))
    BY <1>1, <2>1, JobStores, RedateIndexing DEF Stored
  <2>2. CASE ~((\E j \in Imports : StoreItem(j)) \/ (\E p \in Paths : RedateIndexes(p)))
    <3>1. CASE Plug \/ Unplug \/ AgentReports \/ AgentFails \/ Scan \/ QueueImport \/ IntakeCrash
      BY <3>1 DEF Plug, Unplug, AgentReports, AgentFails, Scan, QueueImport, IntakeCrash
    <3>2. ASSUME NEW j \in Imports, ImportStep(j) \/ CancelImport(j) PROVE item' = item
      BY <2>2, <3>2 DEF ImportStep, Claim, Loses, Last, PlanUploads, InsertUploads, Skip, Read,
                        CancelImport
    <3>3. CASE (\E paths \in SUBSET Paths : AskImport(paths)) \/ (\E k \in Items : UploadEnds(k))
      BY <3>3 DEF AskImport, UploadEnds
    <3>4. CASE UNCHANGED intakeVars
      BY <3>4 DEF intakeVars
    <3>5. ASSUME NEW p \in Paths,
                 Redate(p) \/ RedateEnds(p) \/ \E sum \in Recordings : RedateConfirms(p, sum)
          PROVE  item' = item
      BY <3>5 DEF Redate, RedateEnds, RedateConfirms
    <3>6. QED
      BY <1>1, <2>2, <3>1, <3>2, <3>3, <3>4, <3>5 DEF IntakeNext
  <2>3. QED
    BY <2>1, <2>2
<1>2. IntakeInv /\ [IntakeNext]_intakeVars
        => [\A i \in Items : item[i] # NoItem => item'[i].sum = item[i].sum]_intakeVars
  BY <1>1
<1>3. QED
  BY <1>2, IntakeInvariant, PTL DEF IntakeSpec, ItemsKeepTheirRecording
=============================================================================
