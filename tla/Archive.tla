------------------------------ MODULE Archive ------------------------------
(***************************************************************************)
(* The inventory of the NAS and the three jobs on it: scan, verify and     *)
(* hardlink (app/archive.py, archive_tasks.py, archive_links.py, routers/  *)
(* archive.py).  The rows are a cache of names, inodes and hashes that     *)
(* other clients of the NAS make stale at any time.  The contents that are *)
(* checked all have the same size and samples, so a sample says nothing.   *)
(***************************************************************************)
EXTENDS Naturals, FiniteSets

CONSTANTS
  Names,      \* paths of videos under the destination's root
  Contents,
  Nothing,    \* no content, no hash
  MaxInode,
  MaxArchiveChanges, \* bound: changes by other clients and by uploads
  MaxUnmounts  \* bound: times that the NAS goes away or the service restarts

ASSUME ArchiveAssumption ==
  /\ Nothing \notin Contents /\ MaxInode \in Nat /\ MaxArchiveChanges \in Nat /\ MaxUnmounts \in Nat
  /\ IsFiniteSet(Names) /\ MaxInode > Cardinality(Names) /\ Contents # {}

VARIABLES
  name,        \* the inode of each path, 0 when there is none
  file,        \* content, mtime and ctime of each inode
  temp,        \* the inode of the temporary link, left behind by a crash
  mounted,
  archiving,      \* the upload to each path: "done", begun or sent to the NAS
  inventory,         \* the ArchiveFile rows
  job,         \* the one archive job
  wear         \* changes, times and outages so far

nas         == <<name, file, temp>>
archiveVars == <<name, file, temp, mounted, archiving, inventory, job, wear>>

Inodes == 1..MaxInode
Clock  == 0..MaxArchiveChanges + 3 * Cardinality(Names)   \* bound: changes and links
Row    == [present : BOOLEAN, eligible : BOOLEAN, inode : 0..MaxInode, mtime : Clock, ctime : Clock,
           sample : BOOLEAN, full : Contents \cup {Nothing}]
Unlisted  == [present |-> FALSE, eligible |-> FALSE, inode |-> 0, mtime |-> 0, ctime |-> 0,
           sample |-> FALSE, full |-> Nothing]
NoJob(rows) == [kind |-> "none", pc |-> "idle", todo |-> {}, seen |-> {}, active |-> {}, blind |-> FALSE,
                report |-> rows, digest |-> [n \in Names |-> Nothing], keeper |-> Nothing,
                target |-> Nothing, old |-> 0]

ArchiveTypeOK ==
  /\ name \in [Names -> 0..MaxInode] /\ temp \in 0..MaxInode /\ mounted \in BOOLEAN
  /\ file \in [Inodes -> [content : Contents, mtime : Clock, ctime : Clock]]
  /\ archiving \in [Names -> {"done", "begun", "sent"}] /\ inventory \in [Names -> Row]
  /\ job.kind \in {"none", "archive_scan", "archive_verify", "archive_hardlink"}
  /\ job.pc \in {"idle", "queued", "walks", "samples", "hashes", "commits", "compares",
                 "links", "replaces", "refreshes"}
  /\ {job.todo, job.seen, job.active} \subseteq SUBSET Names /\ job.report \in [Names -> Row]
  /\ job.digest \in [Names -> Contents \cup {Nothing}] /\ job.old \in 0..MaxInode
  /\ {job.keeper, job.target} \subseteq Names \cup {Nothing} /\ job.blind \in BOOLEAN
  /\ wear \in [changes : 0..MaxArchiveChanges, clock : Clock, outages : 0..MaxUnmounts]

Unread == [n \in Names |-> Unlisted]

ArchiveInit ==
  /\ name = CHOOSE f \in [Names -> 1..Cardinality(Names)] : \A n, m \in Names : f[n] = f[m] => n = m
  /\ \E c \in [1..Cardinality(Names) -> Contents] :
       file = [i \in Inodes |-> [content |-> IF i \in DOMAIN c THEN c[i] ELSE CHOOSE x \in Contents : TRUE,
                                 mtime |-> 0, ctime |-> 0]]
  /\ temp = 0 /\ mounted = TRUE
  /\ archiving = [n \in Names |-> "done"] /\ inventory = Unread /\ job = NoJob(Unread)
  /\ wear = [changes |-> 0, clock |-> 0, outages |-> 0]

Content(n) == IF name[n] = 0 THEN Nothing ELSE file[name[n]].content
Linked(i) == temp = i \/ \E n \in Names : name[n] = i
\* active_archive_paths
Arriving == {n \in Names : archiving[n] # "done"}
\* hardlink_files has both files open until it has replaced the duplicate.
HeldOpen == IF job.pc \in {"links", "replaces"}
          THEN {job.report[job.keeper].inode, job.report[job.target].inode} ELSE {}
Free == {i \in Inodes \ HeldOpen : ~Linked(i)}

-----------------------------------------------------------------------------
(* Identity *)

\* Is path n still what row r says: same inode, size, mtime and ctime?
Matches(r, n) ==
  name[n] # 0 /\ r.inode = name[n] /\ r.mtime = file[name[n]].mtime /\ r.ctime = file[name[n]].ctime
SameIdentity(r, s) == r.inode = s.inode /\ r.mtime = s.mtime /\ r.ctime = s.ctime

\* invalidate_file
ChecksKept_Always(r, n, active) == TRUE
ChecksKept(r, n, active) == r.present /\ Matches(r, n) /\ ~active

\* _update_row: after one stat.
Updated(r, n, active) ==
  [present |-> TRUE, eligible |-> ~active, inode |-> name[n], mtime |-> file[name[n]].mtime,
   ctime |-> file[name[n]].ctime, sample |-> ChecksKept(r, n, active) /\ r.sample,
   full |-> IF ChecksKept(r, n, active) THEN r.full ELSE Nothing]

\* duplicate_groups: all names that are sampled; verified ones agree in their full hash.
Candidates == {n \in Names : inventory[n].present /\ inventory[n].eligible /\ inventory[n].sample}
VerifiedGroup(group) ==
  /\ group \subseteq Candidates /\ Cardinality(group) > 1
  /\ \A n, m \in group : inventory[n].full # Nothing /\ inventory[n].full = inventory[m].full

\* _group: the report has not changed, no upload is changing a member, and each is as reported.
ReportHolds(group) ==
  \A n \in group :
    /\ SameIdentity(inventory[n], job.report[n]) /\ inventory[n].present /\ inventory[n].eligible
    /\ mounted /\ n \notin Arriving /\ Matches(inventory[n], n)

-----------------------------------------------------------------------------
(* Requests *)

\* _enqueue: one archive job at a time.
Enqueue(kind, group, keeper) ==
  /\ job.pc = "idle"
  /\ CASE kind = "archive_scan" -> group = {} /\ keeper = Nothing
       [] kind = "archive_verify" -> group = Candidates /\ Cardinality(group) > 1 /\ keeper = Nothing
       [] OTHER -> VerifiedGroup(group) /\ keeper \in group
  /\ job' = [NoJob(inventory) EXCEPT !.kind = kind, !.pc = "queued", !.todo = group, !.keeper = keeper]
  /\ UNCHANGED <<nas, mounted, archiving, inventory, wear>>

Ends == job' = NoJob(Unread)

\* Cancelled, refused or failed: what has been committed stays.
ArchiveFails ==
  /\ job.pc \notin {"idle", "replaces", "refreshes"}
  /\ ~mounted \/ job.pc \in {"queued", "walks", "samples", "hashes", "links"}
  /\ Ends
  /\ UNCHANGED <<nas, mounted, archiving, inventory, wear>>

-----------------------------------------------------------------------------
(* run_scan *)

ScanBegins ==
  /\ job.kind = "archive_scan" /\ job.pc = "queued" /\ mounted
  /\ job' = [job EXCEPT !.pc = "walks", !.todo = Names, !.active = Arriving]
  /\ UNCHANGED <<nas, mounted, archiving, inventory, wear>>

\* An unmounted root is an empty directory.
ScanVisits(n) ==
  /\ job.pc = "walks" /\ n \in job.todo
  /\ IF mounted /\ name[n] # 0
     THEN /\ inventory' = [inventory EXCEPT ![n] = Updated(@, n, n \in job.active)]
          /\ job' = [job EXCEPT !.todo = @ \ {n}, !.seen = @ \cup {n}]
     ELSE job' = [job EXCEPT !.todo = @ \ {n}, !.blind = @ \/ ~mounted] /\ UNCHANGED inventory
  /\ UNCHANGED <<nas, mounted, archiving, wear>>

StillThere_Assumed == TRUE
StillThere == mounted

\* "Only a fully completed traversal may mark old paths missing."
ScanMarksMissing ==
  /\ job.pc = "walks" /\ job.todo = {} /\ StillThere
  /\ inventory' = [n \in Names |-> IF n \in job.seen THEN inventory[n]
                             ELSE [inventory[n] EXCEPT !.present = FALSE, !.eligible = FALSE,
                                                 !.sample = FALSE, !.full = Nothing]]
  /\ LET eligible == {n \in job.seen : inventory[n].eligible} IN
     job' = [job EXCEPT !.pc = "samples", !.report = inventory',
               !.todo = IF Cardinality(eligible) > 1 THEN {n \in eligible : ~inventory[n].sample} ELSE {}]
  /\ UNCHANGED <<nas, mounted, archiving, wear>>

\* A file that has changed since the walk is no candidate until the next scan.
ScanSamples(n) ==
  /\ job.pc = "samples" /\ n \in job.todo
  /\ inventory' = [inventory EXCEPT ![n] =
       IF ~SameIdentity(@, job.report[n]) THEN @
       ELSE IF mounted /\ Matches(@, n) THEN [@ EXCEPT !.sample = TRUE]
       ELSE [@ EXCEPT !.eligible = FALSE, !.sample = FALSE, !.full = Nothing]]
  /\ job' = [job EXCEPT !.todo = @ \ {n}]
  /\ UNCHANGED <<nas, mounted, archiving, wear>>

ScanEnds ==
  /\ job.pc = "samples" /\ job.todo = {} /\ Ends
  /\ UNCHANGED <<nas, mounted, archiving, inventory, wear>>

-----------------------------------------------------------------------------
(* run_verify *)

VerifyBegins ==
  /\ job.kind = "archive_verify" /\ job.pc = "queued" /\ ReportHolds(job.todo)
  /\ job' = [job EXCEPT !.pc = "hashes", !.seen = job.todo]
  /\ UNCHANGED <<nas, mounted, archiving, inventory, wear>>

\* verify_file: a full hash is reused for the same identity; a change meanwhile is an error.
VerifyHashes(n) ==
  /\ job.pc = "hashes" /\ n \in job.todo /\ mounted /\ Matches(job.report[n], n)
  /\ job' = [job EXCEPT !.todo = @ \ {n}, !.pc = IF @ = "hashes" /\ job.todo = {n} THEN "commits" ELSE @,
       !.digest[n] = IF job.report[n].full # Nothing THEN job.report[n].full ELSE Content(n)]
  /\ UNCHANGED <<nas, mounted, archiving, inventory, wear>>

VerifyCommits ==
  /\ job.pc = "commits"
  /\ inventory' = IF \A n \in job.seen : SameIdentity(inventory[n], job.report[n])
            THEN [n \in Names |->
                    IF n \in job.seen THEN [inventory[n] EXCEPT !.full = job.digest[n]] ELSE inventory[n]]
            ELSE inventory
  /\ Ends
  /\ UNCHANGED <<nas, mounted, archiving, wear>>

-----------------------------------------------------------------------------
(* run_hardlink *)

LinkBegins ==
  /\ job.kind = "archive_hardlink" /\ job.pc = "queued"
  /\ ReportHolds(job.todo) /\ VerifiedGroup(job.todo)
  /\ job' = [job EXCEPT !.pc = "compares", !.todo = @ \ {job.keeper}]
  /\ UNCHANGED <<nas, mounted, archiving, inventory, wear>>

Identical(n, m) == Content(n) = Content(m)

\* hardlink_files reads both files completely again, whatever the rows say.
LinkCompares(n) ==
  LET k == job.keeper IN
  /\ job.pc = "compares" /\ n \in job.todo
  /\ mounted /\ Matches(job.report[k], k) /\ Matches(job.report[n], n)
  /\ IF name[k] = name[n]
     THEN job' = [job EXCEPT !.pc = "refreshes", !.target = n, !.old = name[n]]
     ELSE IF file[name[k]].mtime = file[name[n]].mtime /\ Identical(k, n)
     THEN job' = [job EXCEPT !.pc = "links", !.target = n, !.old = name[n]]
     ELSE Ends
  /\ UNCHANGED <<nas, mounted, archiving, inventory, wear>>

\* One of them is not as reported.
LinkRefuses ==
  /\ job.pc \in {"queued", "compares"} /\ job.kind = "archive_hardlink" /\ job.todo # {}
  /\ \E n \in {job.keeper} \cup job.todo : ~Matches(job.report[n], n)
  /\ Ends
  /\ UNCHANGED <<nas, mounted, archiving, inventory, wear>>

Now  == wear.clock + 1
ClockTicks == Now \in Clock /\ wear' = [wear EXCEPT !.clock = Now]

LinkCreates ==
  LET k == job.keeper IN
  /\ job.pc = "links" /\ mounted /\ name[k] # 0
  /\ temp' = name[k] /\ file' = [file EXCEPT ![name[k]].ctime = Now] /\ ClockTicks
  /\ job' = [job EXCEPT !.pc = "replaces"]
  /\ UNCHANGED <<name, mounted, archiving, inventory>>

\* The checks on the temporary link, the kept file and the duplicate, and the rename.
Unchanged_Assumed(n) == name[n] # 0
Unchanged(n) == Matches(job.report[n], n)
SameContent(r, i) == r.inode = i /\ r.mtime = file[i].mtime
LinkReplaces ==
  LET k == job.keeper n == job.target IN
  /\ job.pc = "replaces"
  /\ IF mounted /\ SameContent(job.report[k], temp) /\ name[k] = temp /\ Unchanged(n)
     THEN /\ name' = [name EXCEPT ![n] = temp] /\ ClockTicks
          /\ file' = [file EXCEPT ![job.old].ctime = Now, ![temp].ctime = Now]
          /\ job' = [job EXCEPT !.pc = "refreshes"]
     ELSE Ends /\ UNCHANGED <<name, file, wear>>
  /\ temp' = 0
  /\ UNCHANGED <<mounted, archiving, inventory>>

\* The rows of both inodes take their new identity and keep the proof.
LinkRefreshes ==
  LET k == job.keeper
      affected == {n \in Names : inventory[n].inode \in {job.report[k].inode, job.old} \/ n = job.target}
      proof == [n \in Names |->
        IF \/ name[n] = job.report[k].inode
           \/ name[n] = inventory[n].inode /\ file[name[n]].mtime = inventory[n].mtime
        THEN [Updated(inventory[n], n, FALSE) EXCEPT !.sample = inventory[n].sample,
                                                     !.full = inventory[k].full]
        ELSE Updated(inventory[n], n, FALSE)] IN
  /\ job.pc = "refreshes"
  /\ IF mounted /\ \A n \in affected : name[n] # 0
     THEN /\ inventory' = [n \in Names |-> IF n \in affected THEN proof[n] ELSE inventory[n]]
          /\ IF job.todo = {job.target} THEN Ends
             ELSE job' = [job EXCEPT !.pc = "compares", !.todo = @ \ {job.target}, !.report = inventory']
     ELSE UNCHANGED inventory /\ Ends
  /\ UNCHANGED <<nas, mounted, archiving, wear>>

-----------------------------------------------------------------------------
(* Other clients and uploads *)

\* "Other NAS clients must leave files idle": at the least until the rows are refreshed.
Changes == /\ job.pc # "refreshes" /\ wear.changes < MaxArchiveChanges /\ Now \in Clock
           /\ wear' = [wear EXCEPT !.changes = @ + 1, !.clock = Now]

ClientWrites(n, c) ==
  /\ name[n] # 0 /\ Changes
  /\ file' = [file EXCEPT ![name[n]] = [content |-> c, mtime |-> Now, ctime |-> Now]]
  /\ UNCHANGED <<name, temp, mounted, archiving, inventory, job>>

Placed(n, c) ==
  \E i \in Free :
    /\ name' = [name EXCEPT ![n] = i]
    /\ file' = [file EXCEPT ![i] = [content |-> c, mtime |-> 0, ctime |-> Now]]

ClientReplaces(n, c) ==
  /\ Changes /\ Placed(n, c)
  /\ UNCHANGED <<temp, mounted, archiving, inventory, job>>

ClientRemoves(n) ==
  /\ name[n] # 0 /\ Changes
  /\ name' = [name EXCEPT ![n] = 0]
  /\ UNCHANGED <<file, temp, mounted, archiving, inventory, job>>

UploadBegins(n) ==
  /\ archiving[n] = "done" /\ wear.changes < MaxArchiveChanges
  /\ wear' = [wear EXCEPT !.changes = @ + 1]
  /\ archiving' = [archiving EXCEPT ![n] = "begun"]
  /\ UNCHANGED <<nas, mounted, inventory, job>>

\* The upload publishes under the semaphore that the archive jobs hold.
UploadPublishes(n, c) ==
  /\ archiving[n] = "begun" /\ job.pc \in {"idle", "queued"} /\ mounted
  /\ Placed(n, c) /\ ClockTicks
  /\ archiving' = [archiving EXCEPT ![n] = "sent"]
  /\ UNCHANGED <<temp, mounted, inventory, job>>

\* record_uploaded_file, when the ledger says "done".
UploadRecords(n) ==
  /\ archiving[n] # "done"
  /\ archiving' = [archiving EXCEPT ![n] = "done"]
  /\ inventory' = IF mounted /\ name[n] # 0 THEN [inventory EXCEPT ![n] = Updated(@, n, FALSE)] ELSE inventory
  /\ UNCHANGED <<nas, mounted, job, wear>>

Outage == wear.outages < MaxUnmounts /\ wear' = [wear EXCEPT !.outages = @ + 1]

Unmount ==
  /\ mounted /\ Outage /\ mounted' = FALSE
  /\ UNCHANGED <<nas, archiving, inventory, job>>

\* An outage outlasts the walk that meets it: a shorter one could go unnoticed.
Mount ==
  /\ ~mounted /\ job.pc # "walks" /\ mounted' = TRUE
  /\ UNCHANGED <<nas, archiving, inventory, job, wear>>

\* The job manager requeues the job, which starts over.
Crash ==
  /\ job.pc \notin {"idle", "queued"} /\ Outage
  /\ job' = NoJob(Unread)
  /\ UNCHANGED <<nas, mounted, archiving, inventory>>

JobStep ==
  \/ ScanBegins \/ ScanMarksMissing \/ ScanEnds \/ VerifyBegins \/ VerifyCommits
  \/ LinkBegins \/ LinkRefuses \/ LinkCreates \/ LinkReplaces \/ LinkRefreshes \/ ArchiveFails
  \/ \E n \in Names : ScanVisits(n) \/ ScanSamples(n) \/ VerifyHashes(n) \/ LinkCompares(n)

ArchiveNext ==
  \/ JobStep \/ Unmount \/ Mount \/ Crash
  \/ \E kind \in {"archive_scan", "archive_verify", "archive_hardlink"}, group \in SUBSET Names,
        keeper \in Names \cup {Nothing} : Enqueue(kind, group, keeper)
  \/ \E n \in Names : ClientRemoves(n) \/ UploadBegins(n) \/ UploadRecords(n)
  \/ \E n \in Names, c \in Contents : ClientWrites(n, c) \/ ClientReplaces(n, c) \/ UploadPublishes(n, c)

ArchiveSpec == ArchiveInit /\ [][ArchiveNext]_archiveVars

-----------------------------------------------------------------------------
(* Properties *)

\* No archive job changes what any path holds: a duplicate is replaced only by its equal, both
\* names stay at every moment, and neither an old hash nor a sample authorises it.
JobsKeepEveryFile == [][JobStep => \A n \in Names : Content(n)' = Content(n)]_archiveVars

\* A full hash on a row whose identity the file still has is the hash of that file, however the
\* walks, verifications, links, uploads and other clients interleave.
VerifiedIsProof ==
  \A n \in Names : inventory[n].full # Nothing /\ Matches(inventory[n], n) => inventory[n].full = Content(n)

\* "an unplugged NAS cannot erase the cache": a walk that has met the empty mount point marks
\* nothing missing.
UnpluggedKeepsCache ==
  [][job.blind => \A n \in Names : inventory[n].present => inventory'[n].present]_archiveVars
=============================================================================
