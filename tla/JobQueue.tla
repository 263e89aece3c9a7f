------------------------------- MODULE JobQueue -------------------------------
(***************************************************************************)
(* The background job system of app/jobs.py: a pool of worker threads that *)
(* claim rows of the SQLite table "jobs", the web requests that enqueue,   *)
(* cancel, pause, resume and stop jobs, and restarts of the process.       *)
(*                                                                         *)
(* A database session of the code reads with SELECT and writes at commit.  *)
(* pysqlite opens the transaction only at the first write, and an UPDATE   *)
(* of the ORM names just the row's id, so another thread's commit may fall *)
(* between the two: every session that uses what it read is two actions,   *)
(* a read and a commit.                                                    *)
(***************************************************************************)
EXTENDS Naturals, FiniteSets

CONSTANTS
  Worker,      \* the worker threads, JobManager(worker_count)
  Client,      \* the web server's request threads
  Buttons,     \* the requests the clients send: "pause", "resume", "stop", "cancel"
  Kinds,       \* the job kinds that are enqueued
  MaxJobs,     \* bound: rows ever inserted
  MaxCrashes,  \* bound: restarts of the process
  MaxLosses    \* bound: times the camera host disappears

Job  == 1 .. MaxJobs
None == 0              \* no job in hand

ASSUME JobQueueAssumption ==
  /\ None \notin Worker
  /\ MaxJobs \in Nat
  /\ MaxCrashes \in Nat
  /\ MaxLosses \in Nat
  /\ Buttons \subseteq {"pause", "resume", "stop", "cancel"}
  /\ Kinds \subseteq {"audit", "discover", "upload"}

(***************************************************************************)
(* "audit" stands for ARCHIVE_KINDS and the roadtrip_* kinds, "discover"   *)
(* for AUTO_RIDE_KINDS, "upload" for every kind that reads a camera.       *)
(***************************************************************************)
MAINTENANCE_KINDS == {"audit", "discover"}
CAMERA_KINDS      == {"upload"}
ACTIVE_STATES     == {"queued", "running", "paused"}
Terminal          == {"done", "error", "cancelled"}
Status            == ACTIVE_STATES \cup Terminal \cup {"none"}

VARIABLES
  status,   \* Job.status; "none" before the row is inserted
  kind,     \* Job.kind
  cancel,   \* Job.cancel_requested
  later,    \* Job.retry_after lies in the future
  created,  \* rows inserted so far; their ids are also their created_at order
  paused,   \* JobManager._paused, in memory only
  wpc,      \* where each worker thread stands
  wjob,     \* the job it has in hand
  pending,  \* the session each request thread has read for and not committed
  up,       \* the process is running
  crashes,
  online,   \* the camera host answers
  losses

rows    == <<status, kind, cancel, later, created>>
threads == <<wpc, wjob>>
faults  == <<crashes, losses>>
vars    == <<status, kind, cancel, later, created, paused, wpc, wjob, pending,
             up, crashes, online, losses>>

NoRequest == [to |-> "none", ids |-> {}, flag |-> {}]
Requests  == [to : {"none", "paused", "queued", "cancelled"},
              ids : SUBSET Job, flag : SUBSET Job]

Init ==
  /\ status  = [j \in Job |-> "none"]
  /\ kind    = [j \in Job |-> "none"]
  /\ cancel  = [j \in Job |-> FALSE]
  /\ later   = [j \in Job |-> FALSE]
  /\ created = 0
  /\ paused  = FALSE
  /\ wpc     = [w \in Worker |-> "poll"]
  /\ wjob    = [w \in Worker |-> None]
  /\ pending = [c \in Client |-> NoRequest]
  /\ up      = TRUE
  /\ crashes = 0
  /\ online  = TRUE
  /\ losses  = 0

-----------------------------------------------------------------------------
(***************************************************************************)
(* Claiming: JobManager._claim_next.                                       *)
(***************************************************************************)

\* Fault: claiming without the lock.
LockFree_Ignored == TRUE

\* Threads between the session's first SELECT and its commit hold _claim_lock.
LockFree == \A w \in Worker : wpc[w] \notin {"claim", "discard"}

MaintenanceRunning ==
  \E j \in Job : status[j] = "running" /\ kind[j] \in MAINTENANCE_KINDS

Claimable(j) ==
  /\ status[j] = "queued"
  /\ ~later[j]
  /\ MaintenanceRunning => kind[j] \notin MAINTENANCE_KINDS
  /\ kind[j] \in CAMERA_KINDS => online

Rank(k) == CASE k = "discover" -> 2
             [] k = "audit"    -> 0
             [] OTHER          -> 1

Before(i, j) ==
  \/ Rank(kind[i]) < Rank(kind[j])
  \/ Rank(kind[i]) = Rank(kind[j]) /\ i < j

\* The thread saw the pause flag down; it will not look at it again.
Poll(w) ==
  /\ up /\ wpc[w] = "poll"
  /\ ~paused
  /\ wpc' = [wpc EXCEPT ![w] = "enter"]
  /\ UNCHANGED <<rows, paused, wjob, pending, up, faults, online>>

\* Fault: the claim does not look at cancel_requested.
Verdict_Blind(j) == "claim"

\* What the claim will commit, from the row's cancel_requested as it was read.
Verdict(j) == IF cancel[j] THEN "discard" ELSE "claim"

\* Under the lock: the first row of the query.
Pick(w, j) ==
  /\ up /\ wpc[w] = "enter" /\ LockFree
  /\ Claimable(j)
  /\ \A i \in Job \ {j} : Claimable(i) => Before(j, i)
  /\ wpc'  = [wpc EXCEPT ![w] = Verdict(j)]
  /\ wjob' = [wjob EXCEPT ![w] = j]
  /\ UNCHANGED <<rows, paused, pending, up, faults, online>>

NothingToClaim(w) ==
  /\ up /\ wpc[w] = "enter" /\ LockFree
  /\ \A j \in Job : ~Claimable(j)
  /\ wpc' = [wpc EXCEPT ![w] = "poll"]
  /\ UNCHANGED <<rows, paused, wjob, pending, up, faults, online>>

\* Thread w writes `s` to its job's row and stands at pc afterwards.
Leaves(w, s, pc) ==
  /\ status' = [status EXCEPT ![wjob[w]] = s]
  /\ wpc'    = [wpc EXCEPT ![w] = pc]
  /\ wjob'   = [wjob EXCEPT ![w] = IF pc = "poll" THEN None ELSE @]
  /\ UNCHANGED <<kind, cancel, created, paused, pending, up, faults, online>>

Claim(w) ==
  /\ up /\ wpc[w] = "claim"
  /\ Leaves(w, "running", "handler")
  /\ UNCHANGED later

Discard(w) ==
  /\ up /\ wpc[w] = "discard"
  /\ Leaves(w, "cancelled", "poll")
  /\ UNCHANGED later

-----------------------------------------------------------------------------
(***************************************************************************)
(* Running: JobManager._run_job around the kind's handler.                 *)
(***************************************************************************)

\* The handler returned; the closing session loads the row and goes on to
\* write only when it reads "running".
Returns(w) ==
  /\ up /\ wpc[w] = "handler"
  /\ IF status[wjob[w]] = "running"
       THEN /\ wpc' = [wpc EXCEPT ![w] = "record"]
            /\ UNCHANGED wjob
       ELSE /\ wpc'  = [wpc EXCEPT ![w] = "poll"]
            /\ wjob' = [wjob EXCEPT ![w] = None]
  /\ UNCHANGED <<rows, paused, pending, up, faults, online>>

Record(w) ==
  /\ up /\ wpc[w] = "record"
  /\ Leaves(w, "done", "poll")
  /\ UNCHANGED later

\* set_progress or an explicit is_cancelled check raised JobCancelled.
Stops(w) ==
  /\ up /\ wpc[w] = "handler"
  /\ cancel[wjob[w]]
  /\ Leaves(w, "cancelled", "poll")
  /\ UNCHANGED later

Fails(w) ==
  /\ up /\ wpc[w] = "handler"
  /\ Leaves(w, "error", "poll")
  /\ UNCHANGED later

\* AgentUnavailable: back to the queue, not before 30 seconds have passed.
CameraGone(w) ==
  /\ up /\ wpc[w] = "handler"
  /\ kind[wjob[w]] \in CAMERA_KINDS /\ ~online
  /\ Leaves(w, "queued", "poll")
  /\ later' = [later EXCEPT ![wjob[w]] = TRUE]

WorkerStep(w) ==
  \/ Poll(w) \/ NothingToClaim(w) \/ (\E j \in Job : Pick(w, j))
  \/ Claim(w) \/ Discard(w)
  \/ Returns(w) \/ Record(w) \/ Stops(w) \/ Fails(w) \/ CameraGone(w)

-----------------------------------------------------------------------------
(***************************************************************************)
(* Requests of the web interface.                                          *)
(***************************************************************************)
InStatus(S) == {j \in Job : status[j] \in S}

Insert(k) ==
  /\ up /\ created < MaxJobs
  /\ created' = created + 1
  /\ status'  = [status EXCEPT ![created + 1] = "queued"]
  /\ kind'    = [kind EXCEPT ![created + 1] = k]
  /\ UNCHANGED <<cancel, later, paused, threads, pending, up, faults, online>>

Enqueue == \E k \in Kinds : Insert(k)

\* A copy of any row, whatever its status.
Retry(j) == status[j] # "none" /\ Insert(kind[j])

Reads(c, button, to, ids, flag) ==
  /\ up /\ button \in Buttons
  /\ pending[c] = NoRequest
  /\ pending' = [pending EXCEPT ![c] = [to |-> to, ids |-> ids, flag |-> flag]]
  /\ UNCHANGED <<rows, threads, up, faults, online>>

PauseAll(c) ==
  /\ Reads(c, "pause", "paused", InStatus({"queued"}), {})
  /\ paused' = TRUE

ResumeAll(c) ==
  /\ Reads(c, "resume", "queued", InStatus({"paused"}), {})
  /\ paused' = FALSE

StopAll(c) ==
  /\ Reads(c, "stop", "cancelled", InStatus({"queued", "paused"}),
           InStatus(ACTIVE_STATES))
  /\ paused' = FALSE

RequestCancel(c, j) ==
  /\ status[j] \in ACTIVE_STATES
  /\ Reads(c, "cancel", "cancelled", {j} \cap InStatus({"queued", "paused"}), {j})
  /\ UNCHANGED paused

\* The session commits what it decided when it read.
Commit(c) ==
  /\ up /\ pending[c] # NoRequest
  /\ status' = [j \in Job |-> IF j \in pending[c].ids THEN pending[c].to
                                                     ELSE status[j]]
  /\ cancel' = [j \in Job |-> cancel[j] \/ j \in pending[c].flag]
  /\ pending' = [pending EXCEPT ![c] = NoRequest]
  /\ UNCHANGED <<kind, later, created, paused, threads, up, faults, online>>

-----------------------------------------------------------------------------
(***************************************************************************)
(* The process and its surroundings.                                       *)
(***************************************************************************)
Crash ==
  /\ up /\ crashes < MaxCrashes
  /\ up'      = FALSE
  /\ crashes' = crashes + 1
  /\ paused'  = FALSE
  /\ wpc'     = [w \in Worker |-> "poll"]
  /\ wjob'    = [w \in Worker |-> None]
  /\ pending' = [c \in Client |-> NoRequest]
  /\ UNCHANGED <<rows, losses, online>>

\* Faults: rows left as they are, rows set to a status nothing reads, and every
\* row that is not "done" offered again.
Recovered_Kept(s)       == s
Recovered_Unknown(s)    == IF s = "running" THEN "interrupted" ELSE s
Recovered_Unfinished(s) == IF s \in {"none", "done"} THEN s ELSE "queued"

\* The status an interrupted job comes back with.
Recovered(s) == IF s = "running" THEN "queued" ELSE s

Start ==
  /\ ~up
  /\ up' = TRUE
  /\ status' = [j \in Job |-> Recovered(status[j])]
  /\ UNCHANGED <<kind, cancel, later, created, paused, threads, pending,
                 faults, online>>

RetryDue(j) ==
  /\ later[j]
  /\ later' = [later EXCEPT ![j] = FALSE]
  /\ UNCHANGED <<status, kind, cancel, created, paused, threads, pending, up,
                 faults, online>>

CameraLost ==
  /\ online /\ losses < MaxLosses
  /\ online' = FALSE
  /\ losses' = losses + 1
  /\ UNCHANGED <<rows, paused, threads, pending, up, crashes>>

CameraBack ==
  /\ ~online
  /\ online' = TRUE
  /\ UNCHANGED <<rows, paused, threads, pending, up, faults>>

Next ==
  \/ \E w \in Worker : WorkerStep(w)
  \/ Enqueue
  \/ \E j \in Job : Retry(j) \/ RetryDue(j)
  \/ \E c \in Client : PauseAll(c) \/ ResumeAll(c) \/ StopAll(c) \/ Commit(c)
  \/ \E c \in Client, j \in Job : RequestCancel(c, j)
  \/ Crash \/ Start \/ CameraLost \/ CameraBack

Spec == Init /\ [][Next]_vars

(***************************************************************************)
(* A thread is scheduled again and again, a handler ends, a request that   *)
(* has read goes on to commit, the service manager restarts the process    *)
(* and time passes.  Users and cameras owe nothing.                        *)
(***************************************************************************)
Fairness ==
  /\ \A w \in Worker : WF_vars(WorkerStep(w))
  /\ \A c \in Client : WF_vars(Commit(c))
  /\ \A j \in Job : WF_vars(RetryDue(j))
  /\ WF_vars(Start)

FairSpec == Spec /\ Fairness

-----------------------------------------------------------------------------
(***************************************************************************)
(* Properties.                                                             *)
(***************************************************************************)

\* The types of the rows, the threads and the requests.
TypeOK ==
  /\ status \in [Job -> Status]
  /\ kind \in [Job -> Kinds \cup {"none"}]
  /\ cancel \in [Job -> BOOLEAN]
  /\ later \in [Job -> BOOLEAN]
  /\ created \in 0 .. MaxJobs
  /\ paused \in BOOLEAN
  /\ wpc \in [Worker -> {"poll", "enter", "claim", "discard", "handler", "record"}]
  /\ wjob \in [Worker -> Job \cup {None}]
  /\ pending \in [Client -> Requests]
  /\ up \in BOOLEAN
  /\ crashes \in 0 .. MaxCrashes
  /\ online \in BOOLEAN
  /\ losses \in 0 .. MaxLosses

Executes(w, j) == wjob[w] = j /\ wpc[w] \in {"handler", "record"}
Engaged(w, j)  == wjob[w] = j /\ wpc[w] \in {"claim", "handler", "record"}

\* A row says "running" only while a thread of this process works on it: no
\* claim, finish, pause or restart leaves one behind that nobody would ever
\* finish, and that would shut every maintenance kind out for good.
RunningIsHeld ==
  up => \A j \in Job : status[j] = "running" => \E w \in Worker : Executes(w, j)

\* No job is worked on by two threads at once.  It holds while nobody presses
\* "pause": pause_all may write "paused" over a row that a thread has claimed
\* since, and resume_all then offers that row to a second thread.
SingleExecution ==
  \A v, w \in Worker : \A j \in Job : Executes(v, j) /\ Executes(w, j) => v = w

\* At most one maintenance job is worked on at a time (README: "runs one audit
\* at a time"; auto_ride_jobs.py: "serialized with camera/NAS maintenance").
OneMaintenanceJob ==
  \A v, w \in Worker : \A i, j \in Job :
    /\ Executes(v, i) /\ kind[i] \in MAINTENANCE_KINDS
    /\ Executes(w, j) /\ kind[j] \in MAINTENANCE_KINDS
    => v = w

\* Once a job's cancellation is on record and no thread has it in hand, no
\* thread takes it up to run it: not after a lost camera, a resume or a restart.
NoWorkAfterCancel ==
  [][\A j \in Job : cancel[j] /\ (\A w \in Worker : ~Engaged(w, j))
        => \A w \in Worker : ~Engaged(w, j)']_vars

\* Whatever withholds a job from the threads.
Held(j) ==
  \/ paused
  \/ status[j] = "paused"
  \/ kind[j] \in CAMERA_KINDS /\ ~online

\* Every job, also one whose cancellation was requested, whose process was
\* restarted or whose camera came back, ends, provided that from some time on
\* it is neither paused nor without its camera.
JobsSettle ==
  \A j \in Job :
    <>[]~Held(j) => (status[j] # "none" ~> status[j] \in Terminal)

(***************************************************************************)
(* The job board this queue implements while nobody pauses it.  A job is   *)
(* in a thread's hands from the moment the claim has read its row.         *)
(***************************************************************************)
InHand(j) == \E w \in Worker : wjob[w] = j

boardHolder ==
  [j \in Job |-> IF InHand(j) THEN CHOOSE w \in Worker : wjob[w] = j ELSE None]

Lying(s) == CASE s = "none"        -> "absent"
              [] s \in Terminal    -> "settled"
              [] s \in ACTIVE_STATES -> "open"

boardState ==
  [j \in Job |-> IF InHand(j) THEN "working" ELSE Lying(status[j])]

Board == INSTANCE JobBoard
           WITH state <- boardState, holder <- boardHolder, Nobody <- None

\* Every step of the queue is a step of the board or leaves it alone: a job is
\* taken by one thread at a time, and a settled one is never taken up again.
ImplementsBoard == Board!Spec
=============================================================================
