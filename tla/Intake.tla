------------------------------- MODULE Intake -------------------------------
(***************************************************************************)
(* From a camera's connection to its queued uploads (app/devicescan.py,    *)
(* app/tasks.py, app/camera_agents.py, agent/camera_agent.py). The agent   *)
(* beside the camera walks the card and numbers each connection; the       *)
(* server takes over its manifest; the device monitor imports every        *)
(* connection once, unless an import of that camera is pending; an import  *)
(* reads the listed files, indexes each in a transaction of its own and    *)
(* queues uploads under a lock, but not of a file whose date is just being *)
(* corrected (app/date_review.py). One camera, one destination; automatic  *)
(* import and upload are switched on.                                      *)
(***************************************************************************)
EXTENDS Naturals, FiniteSets

CONSTANTS
  Paths,       \* file names on a card, used again after formatting
  Recordings,  \* fingerprints
  Missing,     \* no such file
  Cards,       \* what may be on the camera: functions from Paths to Recordings or Missing
  Before,      \* the row an earlier connection may have left, or NoItem
  Imports,     \* import jobs
  MaxItems,    \* media items
  MaxPlugs,    \* connections
  MaxAsks,     \* imports and corrections of dates asked for by hand
  MaxMishaps   \* crashes, cancellations and lost agents

VARIABLES
  camera,  \* is it plugged in, and what is on its card
  node,    \* what the server knows: is the agent online, the connection (0: no camera), the files
  watch,   \* the device monitor: its step, the connection it has seen, imported?, the files found
  import,  \* the import jobs
  item,    \* the MediaItem rows: path and fingerprint
  upload,  \* how many active upload jobs each item has, and which items ever had one
  archived,\* fingerprints whose upload is done
  redate,  \* files with a correction of their date under way, and those it is done with
  used     \* plugs, asks and mishaps so far

intakeVars == <<camera, node, watch, import, item, upload, archived, redate, used>>

Items == 1..MaxItems
CardFiles == [Paths -> Recordings \cup {Missing}]
Empty == [p \in Paths |-> Missing]
NoItem == [path |-> Missing, sum |-> Missing]
NoImport == [status |-> "none", pc |-> "idle", fingerprints |-> FALSE, paths |-> {}, todo |-> {},
             path |-> Missing, sum |-> Missing, found |-> 0, wasKnown |-> FALSE,
             new |-> {}, known |-> {}, plan |-> {}, paused |-> {}]

ASSUME IntakeAssumption ==
  /\ Missing \notin Paths \cup Recordings /\ {"retired", "last"} \cap (Paths \cup {Missing}) = {}
  /\ Cards \subseteq CardFiles /\ Before \subseteq [path : Paths, sum : Recordings] \cup {NoItem}
  /\ Imports \subseteq Nat /\ MaxItems \in Nat \ {0}
  /\ MaxPlugs \in Nat /\ MaxAsks \in Nat /\ MaxMishaps \in Nat

ImportJob == [
  status : {"none", "queued", "running", "done", "cancelled"},
  pc : {"idle", "reads", "stores", "plans", "inserts"}, fingerprints : BOOLEAN,
  paths : SUBSET Paths, todo : SUBSET Paths, path : Paths \cup {Missing, "last"},
  sum : Recordings \cup {Missing}, found : 0..MaxItems, wasKnown : BOOLEAN,
  new : SUBSET Items, known : SUBSET Items, plan : SUBSET Items,
  paused : SUBSET Items]

IntakeTypeOK ==
  /\ camera \in [plugged : BOOLEAN, files : CardFiles]
  /\ node \in [online : BOOLEAN, connection : 0..MaxPlugs + MaxMishaps, files : CardFiles]
  /\ watch \in [pc : {"idle", "queues"}, connection : 0..MaxPlugs + MaxMishaps, imported : BOOLEAN,
                found : SUBSET Paths]
  /\ import \in [Imports -> ImportJob]
  /\ item \in [Items -> [path : Paths \cup {Missing, "retired"}, sum : Recordings \cup {Missing}]]
  /\ upload \in [active : [Items -> Nat], tried : SUBSET Items] /\ archived \subseteq Recordings
  /\ redate \in [applying : SUBSET (Paths \X Recordings), done : SUBSET Paths]
  /\ used \in [plugs : 0..MaxPlugs, asks : 0..MaxAsks, mishaps : 0..MaxMishaps]

IntakeInit ==
  /\ camera = [plugged |-> FALSE, files |-> Empty]
  /\ node = [online |-> TRUE, connection |-> 0, files |-> Empty]
  /\ watch = [pc |-> "idle", connection |-> 0, imported |-> FALSE, found |-> {}]
  /\ import = [j \in Imports |-> NoImport]
  /\ \E row \in Before : item = [i \in Items |-> IF i = 1 THEN row ELSE NoItem]
  /\ upload = [active |-> [i \in Items |-> 0], tried |-> {}]
  /\ archived \in (SUBSET {item[1].sum}) \ {{Missing}}
  /\ redate = [applying |-> {}, done |-> {}]
  /\ used = [plugs |-> 0, asks |-> 0, mishaps |-> 0]

Mishap == used.mishaps < MaxMishaps /\ used' = [used EXCEPT !.mishaps = @ + 1]

-----------------------------------------------------------------------------
(* The camera and its agent *)

\* A card that may have been driven with, or formatted. It was away long enough to be missed.
Plug ==
  /\ ~camera.plugged /\ node.connection = 0 /\ used.plugs < MaxPlugs
  /\ used' = [used EXCEPT !.plugs = @ + 1]
  /\ \E files \in Cards : camera' = [plugged |-> TRUE, files |-> files]
  /\ UNCHANGED <<node, watch, import, item, upload, archived, redate>>

Unplug ==
  /\ camera.plugged /\ camera' = [camera EXCEPT !.plugged = FALSE]
  /\ UNCHANGED <<node, watch, import, item, upload, archived, redate, used>>

\* A token no connection had before: each was forgotten in a mishap or for the next plug.
NewConnection == used.plugs + used.mishaps

\* scan, tick, install_snapshot: the connection keeps its number while the camera stays.
AgentReports ==
  /\ node' = IF camera.plugged
             THEN [online |-> TRUE, files |-> camera.files,
                   connection |-> IF node.connection = 0 THEN NewConnection ELSE node.connection]
             ELSE [online |-> TRUE, connection |-> 0, files |-> Empty]
  /\ UNCHANGED <<camera, watch, import, item, upload, archived, redate, used>>

\* The agent does not answer, or its walk failed and it forgets the connection.
AgentFails ==
  /\ node.online /\ Mishap
  /\ \E connection \in {0, node.connection} :
       node' = [node EXCEPT !.online = FALSE, !.connection = connection]
  /\ UNCHANGED <<camera, watch, import, item, upload, archived, redate>>

Connected == node.online /\ node.connection # 0

-----------------------------------------------------------------------------
(* The device monitor *)

\* Forgotten when it is not there, or is there again.
StillImported == watch.imported /\ Connected /\ watch.connection = node.connection

\* _scan and _maybe_auto_import; an empty card is looked at again.
Scan ==
  /\ watch.pc = "idle"
  /\ LET found == {p \in Paths : node.files[p] # Missing}
         pending == Connected /\ ~StillImported /\ found # {} IN
     watch' = [pc |-> IF pending THEN "queues" ELSE "idle", imported |-> StillImported,
               connection |-> IF Connected THEN node.connection ELSE 0,
               found |-> IF pending THEN found ELSE {}]
  /\ UNCHANGED <<camera, node, import, item, upload, archived, redate, used>>

\* _import_already_queued
ActiveImports == {j \in Imports : import[j].status \in {"queued", "running"}}
QueuedImport(paths, fingerprints) ==
  [NoImport EXCEPT !.status = "queued", !.paths = paths, !.fingerprints = fingerprints]
Enqueued(paths, fingerprints) ==
  \E j \in Imports \ ActiveImports :
    /\ \A k \in Imports : k < j => k \in ActiveImports
    /\ import' = [import EXCEPT ![j] = QueuedImport(paths, fingerprints)]

\* "Skipping duplicate device import": whatever it lists, the connection counts as imported.
QueueImport ==
  /\ watch.pc = "queues"
  /\ watch' = [watch EXCEPT !.pc = "idle", !.found = {}, !.imported = TRUE]
  /\ IF ActiveImports # {} THEN UNCHANGED import ELSE Enqueued(watch.found, TRUE)
  /\ UNCHANGED <<camera, node, item, upload, archived, redate, used>>

\* POST /import-device: an explicit selection is always honoured, and known paths are not read again.
AskImport(paths) ==
  /\ Connected /\ paths # {} /\ \A p \in paths : node.files[p] # Missing
  /\ used.asks < MaxAsks /\ used' = [used EXCEPT !.asks = @ + 1]
  /\ Enqueued(paths, FALSE)
  /\ UNCHANGED <<camera, node, watch, item, upload, archived, redate>>

-----------------------------------------------------------------------------
(* handle_import *)

Claim(j) ==
  /\ import[j].status = "queued" /\ node.online
  /\ import' = [import EXCEPT ![j].status = "running", ![j].pc = "reads", ![j].todo = import[j].paths]
  /\ UNCHANGED <<camera, node, watch, item, upload, archived, redate, used>>

\* AgentUnavailable: the job manager queues the job again, from its start.
Again(j) == QueuedImport(import[j].paths, import[j].fingerprints)

Loses(j) ==
  /\ import[j].pc = "reads" /\ import[j].todo # {}
  /\ \/ ~Connected
     \/ \E p \in import[j].todo : node.files[p] # Missing /\ ~camera.plugged
  /\ import' = [import EXCEPT ![j] = Again(j)]
  /\ UNCHANGED <<camera, node, watch, item, upload, archived, redate, used>>

\* Not on the card, or not as the manifest says: "Camera file changed".
Skip(j, p) ==
  /\ import[j].pc = "reads" /\ p \in import[j].todo /\ Connected
  /\ \/ node.files[p] = Missing
     \/ camera.plugged /\ camera.files[p] # node.files[p]
  /\ import' = [import EXCEPT ![j].todo = @ \ {p}]
  /\ UNCHANGED <<camera, node, watch, item, upload, archived, redate, used>>

WithPath(p)  == {i \in Items : item[i] # NoItem /\ item[i].path = p}
WithSum(sum) == {i \in Items : item[i] # NoItem /\ item[i].sum = sum}
Lowest(ids) == IF ids = {} THEN 0 ELSE CHOOSE i \in ids : \A k \in ids : i <= k

\* Camera counters are used again after formatting: the old recording keeps its row (fault: the
\* path decides alone).
Retires_Never(j, p, sum) == FALSE
Retires(j, p, sum) == import[j].fingerprints /\ \E i \in WithPath(p) : item[i].sum # sum

\* Once it has flushed a retired path, a transaction keeps other writers out until it commits.
Retiring(k) == import[k].pc = "stores" /\ Retires(k, import[k].path, import[k].sum)

\* import_one up to its insert.
Read(j, p) ==
  LET sum == node.files[p]
      byPath == WithPath(p)
      found == IF byPath # {} /\ ~Retires(j, p, sum) THEN Lowest(byPath) ELSE Lowest(WithSum(sum)) IN
  /\ import[j].pc = "reads" /\ p \in import[j].todo
  /\ Connected /\ camera.plugged /\ sum # Missing /\ camera.files[p] = sum
  /\ Retires(j, p, sum) => \A k \in Imports : ~Retiring(k)
  /\ import' = [import EXCEPT ![j].pc = "stores", ![j].todo = @ \ {p}, ![j].path = p, ![j].sum = sum,
                              ![j].found = found, ![j].wasKnown = byPath # {}]
  /\ UNCHANGED <<camera, node, watch, item, upload, archived, redate, used>>

\* A row's file is gone when its path is not on the card.
Gone(i) == item[i].path = "retired" \/ node.files[item[i].path] = Missing

\* The rows once another recording's path is retired, those that have the file's path then, and
\* the row the file is stored in: a known one, what a concurrent import inserted first, or a new one.
FreedRows(j) ==
  IF Retiring(j) THEN [item EXCEPT ![Lowest(WithPath(import[j].path))].path = "retired"] ELSE item
AtPath(j) == {i \in Items : FreedRows(j)[i].path = import[j].path}
RowFor(j) ==
  CASE import[j].found # 0                      -> import[j].found
    [] import[j].found = 0 /\ AtPath(j) # {}    -> Lowest(AtPath(j))
    [] import[j].found = 0 /\ AtPath(j) = {}    -> Lowest({i \in Items : FreedRows(j)[i] = NoItem})

\* Uploads of new files are queued at once.
StoreItem(j) ==
  LET job == import[j]
      rows == FreedRows(j)
      same == AtPath(j)
      id == RowFor(j)
      isNew == ~job.wasKnown /\ id \notin job.new \cup job.known IN
  /\ job.pc = "stores" /\ id # 0 /\ \A k \in Imports \ {j} : ~Retiring(k)
  /\ item' = IF job.found = 0 /\ same = {} THEN [rows EXCEPT ![id] = [path |-> job.path, sum |-> job.sum]]
             ELSE IF job.found = 0 THEN rows
             ELSE [rows EXCEPT ![id] =
                    [path |-> IF same = {} /\ Gone(id) THEN job.path ELSE @.path,
                     sum |-> IF job.fingerprints /\ id \in same THEN job.sum ELSE @.sum]]
  /\ import' = [import EXCEPT
       ![j].pc = IF isNew THEN "plans" ELSE "reads", ![j].plan = IF isNew THEN {id} ELSE {},
       ![j].new = IF isNew THEN @ \cup {id} ELSE @, ![j].path = Missing, ![j].sum = Missing, ![j].found = 0,
       ![j].known = IF job.wasKnown /\ id \notin job.new THEN @ \cup {id} ELSE @, ![j].wasKnown = FALSE]
  /\ UNCHANGED <<camera, node, watch, upload, archived, redate, used>>

\* All files are done: the known ones are queued behind the new ones (fault: they are not).
Follow_New(j) == {}
Follow(j) == import[j].known
Last(j) ==
  /\ import[j].pc = "reads" /\ import[j].todo = {}
  /\ import' = [import EXCEPT ![j].pc = "plans", ![j].plan = Follow(j), ![j].path = "last"]
  /\ UNCHANGED <<camera, node, watch, item, upload, archived, redate, used>>

\* _upload_enqueue_lock (fault: nobody takes it)
QueueLockFree_Ignored == TRUE
QueueLockFree == \A k \in Imports : import[k].pc # "inserts"

\* _date_ready_ids: "Only an active correction pauses a backup". The file that has the row's path
\* now is looked up; one that cannot be looked at is ready.
DatePauses(i) ==
  /\ Connected /\ item[i].path \in Paths
  /\ <<item[i].path, node.files[item[i].path]>> \in redate.applying

\* _upload_enqueue_targets: what no active upload covers and the ledger does not call done.
PlanUploads(j) ==
  /\ import[j].pc = "plans" /\ QueueLockFree
  /\ import' = [import EXCEPT ![j].pc = "inserts",
       ![j].plan = {i \in @ : ~DatePauses(i) /\ upload.active[i] = 0 /\ item[i].sum \notin archived},
       ![j].paused = @ \cup {i \in import[j].plan : DatePauses(i)}]
  /\ UNCHANGED <<camera, node, watch, item, upload, archived, redate, used>>

InsertUploads(j) ==
  LET job == import[j] IN
  /\ job.pc = "inserts"
  /\ upload' = [active |-> [i \in Items |-> upload.active[i] + IF i \in job.plan THEN 1 ELSE 0],
                tried |-> upload.tried \cup job.plan]
  /\ import' = [import EXCEPT ![j].pc = IF job.path = "last" THEN "idle" ELSE "reads",
       ![j].status = IF job.path = "last" THEN "done" ELSE @, ![j].plan = {}, ![j].path = Missing]
  /\ UNCHANGED <<camera, node, watch, item, archived, redate, used>>

CancelImport(j) ==
  /\ import[j].status \in {"queued", "running"} /\ import[j].pc \in {"idle", "reads"} /\ Mishap
  /\ import' = [import EXCEPT ![j] = [NoImport EXCEPT !.status = "cancelled"]]
  /\ UNCHANGED <<camera, node, watch, item, upload, archived, redate>>

-----------------------------------------------------------------------------
(* The correction of a file's date, as far as imports meet it (all of it is in DateCorrection) *)

\* confirm_plan: "The held files and durable job publish in a single transaction." It refuses a file
\* whose upload runs; which of the active uploads run, and which wait, is left open here.
\* (Without the camera only an archived recording's date is corrected: no import has to send that.)
Redate(p) ==
  /\ Connected /\ node.files[p] # Missing /\ <<p, node.files[p]>> \notin redate.applying
  /\ used.asks < MaxAsks /\ used' = [used EXCEPT !.asks = @ + 1]
  /\ redate' = [redate EXCEPT !.applying = @ \cup {<<p, node.files[p]>>}]
  /\ UNCHANGED <<camera, node, watch, import, item, upload, archived>>

\* import_one in one go: another recording's path is retired, and the file goes to the row that has
\* its fingerprint, which takes over the path if its own file is gone, or to a new one.
IndexRow(sum) == Lowest(IF WithSum(sum) # {} THEN WithSum(sum) ELSE {i \in Items : item[i] = NoItem})
IndexedRows(p, sum) ==
  LET id == IndexRow(sum)
      rows == IF WithPath(p) = {} THEN item ELSE [item EXCEPT ![Lowest(WithPath(p))].path = "retired"] IN
  IF WithSum(sum) # {} THEN [rows EXCEPT ![id].path = IF Gone(id) THEN p ELSE @]
  ELSE [rows EXCEPT ![id] = [path |-> p, sum |-> sum]]

\* correction_job, for a file on the card that has no row yet. It may fail before or after, and be
\* run again.
RedateIndexes(p) ==
  LET sum == node.files[p] IN
  /\ Connected /\ camera.plugged /\ camera.files[p] = sum
  /\ <<p, sum>> \in redate.applying /\ \A k \in Imports : ~Retiring(k)
  /\ WithPath(p) \cap WithSum(sum) = {} /\ IndexRow(sum) # 0
  /\ item' = IndexedRows(p, sum)
  /\ UNCHANGED <<camera, node, watch, import, upload, archived, redate, used>>

\* The date is confirmed. As long as its job has failed or was cancelled, it stays "applying".
RedateConfirms(p, sum) ==
  /\ <<p, sum>> \in redate.applying /\ WithSum(sum) # {}
  /\ redate' = [applying |-> redate.applying \ {<<p, sum>>}, done |-> redate.done \cup {p}]
  /\ UNCHANGED <<camera, node, watch, import, item, upload, archived, used>>

\* "Respect the user's automation setting, only for these confirmed files": an import of the file,
\* if the camera is there, has the file and has no import pending. Nobody asks a second time.
RedateEnds(p) ==
  /\ p \in redate.done /\ redate' = [redate EXCEPT !.done = @ \ {p}]
  /\ IF Connected /\ node.files[p] # Missing /\ ActiveImports = {}
     THEN Enqueued({p}, TRUE) ELSE UNCHANGED import
  /\ UNCHANGED <<camera, node, watch, item, upload, archived, used>>

-----------------------------------------------------------------------------
(* The uploads, and a restart of the server *)

UploadEnds(i) ==
  /\ upload.active[i] > 0 /\ upload' = [upload EXCEPT !.active[i] = @ - 1]
  /\ \/ archived' = archived \cup {item[i].sum} /\ UNCHANGED used
     \/ Mishap /\ UNCHANGED archived
  /\ UNCHANGED <<camera, node, watch, import, item, redate>>

\* The stored manifest is installed offline; the monitor's memory is gone; jobs start over. A
\* correction whose plan says done already returns at once, without asking for its import.
IntakeCrash ==
  /\ Mishap
  /\ node' = [node EXCEPT !.online = FALSE]
  /\ watch' = [pc |-> "idle", connection |-> 0, imported |-> FALSE, found |-> {}]
  /\ import' = [j \in Imports |-> IF import[j].status = "running" THEN Again(j) ELSE import[j]]
  /\ \E done \in SUBSET redate.done : redate' = [redate EXCEPT !.done = done]
  /\ UNCHANGED <<camera, item, upload, archived>>

ImportStep(j) ==
  \/ Claim(j) \/ Loses(j) \/ StoreItem(j) \/ Last(j) \/ PlanUploads(j) \/ InsertUploads(j)
  \/ \E p \in Paths : Skip(j, p) \/ Read(j, p)

IntakeNext ==
  \/ Plug \/ Unplug \/ AgentReports \/ AgentFails \/ Scan \/ QueueImport \/ IntakeCrash
  \/ \E j \in Imports : ImportStep(j) \/ CancelImport(j)
  \/ \E paths \in SUBSET Paths : AskImport(paths)
  \/ \E p \in Paths : \/ Redate(p) \/ RedateIndexes(p) \/ RedateEnds(p)
                     \/ \E sum \in Recordings : RedateConfirms(p, sum)
  \/ \E i \in Items : UploadEnds(i)

\* Agent, monitor and workers are loops.
IntakeFairness ==
  /\ WF_intakeVars(AgentReports) /\ WF_intakeVars(Scan) /\ WF_intakeVars(QueueImport)
  /\ \A j \in Imports : WF_intakeVars(ImportStep(j))

IntakeSpec == IntakeInit /\ [][IntakeNext]_intakeVars /\ IntakeFairness

-----------------------------------------------------------------------------
(* Properties *)

\* An item keeps the fingerprint it was indexed under, however card paths are used again, so that
\* its NAS ledger stays that of the same recording.
ItemsKeepTheirRecording ==
  [][\A i \in Items : item[i] # NoItem => item'[i].sum = item[i].sum]_intakeVars

\* What an import has indexed when it is done, also before a crash or a lost camera made it start
\* over, has been given to an upload, was archived, or had its date under correction when this very
\* import planned its uploads: "Only an active correction pauses a backup".
IndexedIsQueued ==
  \A j \in Imports : import[j].status = "done" =>
    \A i \in (import[j].new \cup import[j].known) \ import[j].paused :
      i \in upload.tried \/ item[i].sum \in archived

\* Two imports that meet the same recording queue one upload of it, not two.
OneUploadEach == \A i \in Items : upload.active[i] <= 1

\* "a reconnect imports again": what is on a camera that stays connected is indexed at last.
ReconnectImportsAgain ==
  <>[](camera.plugged /\ used.mishaps = MaxMishaps) =>
  <>[](\A p \in Paths : camera.files[p] # Missing => WithSum(camera.files[p]) # {})
=============================================================================
