---------------------------- MODULE JobQueue_proofs ----------------------------
(***************************************************************************)
(* Theorems of JobQueue, for any number of threads, requests, jobs,        *)
(* restarts and camera losses.                                             *)
(***************************************************************************)
EXTENDS JobQueue, TLAPS

(***************************************************************************)
(* Type correctness, one step per action.                                  *)
(***************************************************************************)

\* The session of thread w that writes status s and moves to pc is well typed.
LEMMA LeavesType ==
  ASSUME TypeOK, NEW w \in Worker, NEW s \in Status,
         NEW pc \in {"poll", "handler"},
         Leaves(w, s, pc), later' \in [Job -> BOOLEAN]
  PROVE  TypeOK'
  BY DEF Leaves, TypeOK, faults

\* A request that reads its rows leaves a well-typed pending session.
LEMMA ReadsType ==
  ASSUME TypeOK, NEW c \in Client, NEW button,
         NEW to \in {"paused", "queued", "cancelled"},
         NEW ids \in SUBSET Job, NEW flag \in SUBSET Job,
         Reads(c, button, to, ids, flag), paused' \in BOOLEAN
  PROVE  TypeOK'
  BY DEF Reads, TypeOK, Requests, rows, threads, faults

\* An inserted row is well typed.
LEMMA InsertType ==
  ASSUME TypeOK, NEW k \in Kinds \cup {"none"}, Insert(k)
  PROVE  TypeOK'
<1>1. created + 1 \in 0 .. MaxJobs
  BY JobQueueAssumption DEF JobQueueAssumption, Insert, TypeOK
<1>2. QED
  BY <1>1 DEF Insert, TypeOK, Status, ACTIVE_STATES, threads, faults

\* The initial state is well typed.
LEMMA TypeInit == Init => TypeOK
<1>1. 0 \in 0 .. MaxJobs /\ 0 \in 0 .. MaxCrashes /\ 0 \in 0 .. MaxLosses
  BY JobQueueAssumption DEF JobQueueAssumption
<1>2. NoRequest \in Requests
  BY DEF NoRequest, Requests
<1>3. QED
  BY <1>1, <1>2 DEF Init, TypeOK, Status

\* Every step keeps the types, action by action.
LEMMA TypeStep == TypeOK /\ [Next]_vars => TypeOK'
<1> SUFFICES ASSUME TypeOK, [Next]_vars PROVE TypeOK'
  OBVIOUS
<1> USE DEF TypeOK, rows, threads, faults
<1>1. ASSUME NEW w \in Worker, Poll(w) PROVE TypeOK'
  BY <1>1 DEF Poll
<1>2. ASSUME NEW w \in Worker, NEW j \in Job, Pick(w, j) PROVE TypeOK'
  BY <1>2 DEF Pick, Verdict
<1>3. ASSUME NEW w \in Worker, NothingToClaim(w) PROVE TypeOK'
  BY <1>3 DEF NothingToClaim
<1>4. ASSUME NEW w \in Worker,
             Claim(w) \/ Discard(w) \/ Record(w) \/ Stops(w) \/ Fails(w)
      PROVE TypeOK'
  BY <1>4, LeavesType
     DEF Claim, Discard, Record, Stops, Fails, Status, ACTIVE_STATES, Terminal
<1>5. ASSUME NEW w \in Worker, CameraGone(w) PROVE TypeOK'
  <2>1. later' \in [Job -> BOOLEAN]
    BY <1>5 DEF CameraGone
  <2>2. QED
    BY <1>5, <2>1, LeavesType DEF CameraGone, Status, ACTIVE_STATES
<1>6. ASSUME NEW w \in Worker, Returns(w) PROVE TypeOK'
  BY <1>6 DEF Returns
<1>7. CASE Enqueue
  BY <1>7, InsertType DEF Enqueue
<1>8. ASSUME NEW j \in Job, Retry(j) PROVE TypeOK'
  BY <1>8, InsertType DEF Retry
<1>9. ASSUME NEW j \in Job, RetryDue(j) PROVE TypeOK'
  BY <1>9 DEF RetryDue
<1>10. ASSUME NEW c \in Client, PauseAll(c) \/ ResumeAll(c) \/ StopAll(c)
       PROVE TypeOK'
  <2>1. /\ InStatus({"queued"}) \in SUBSET Job
        /\ InStatus({"paused"}) \in SUBSET Job
        /\ InStatus({"queued", "paused"}) \in SUBSET Job
        /\ InStatus(ACTIVE_STATES) \in SUBSET Job
        /\ {} \in SUBSET Job
    BY DEF InStatus
  <2>2. CASE PauseAll(c)
    <3>1. paused' \in BOOLEAN
      BY <2>2 DEF PauseAll
    <3>2. QED
      BY <2>1, <2>2, <3>1, ReadsType, Zenon DEF PauseAll
  <2>3. CASE ResumeAll(c)
    <3>1. paused' \in BOOLEAN
      BY <2>3 DEF ResumeAll
    <3>2. QED
      BY <2>1, <2>3, <3>1, ReadsType, Zenon DEF ResumeAll
  <2>4. CASE StopAll(c)
    <3>1. paused' \in BOOLEAN
      BY <2>4 DEF StopAll
    <3>2. QED
      BY <2>1, <2>4, <3>1, ReadsType, Zenon DEF StopAll
  <2>5. QED
    BY <1>10, <2>2, <2>3, <2>4
<1>11. ASSUME NEW c \in Client, NEW j \in Job, RequestCancel(c, j) PROVE TypeOK'
  <2>1. /\ {j} \cap InStatus({"queued", "paused"}) \in SUBSET Job
        /\ {j} \in SUBSET Job
    BY DEF InStatus
  <2>2. paused' \in BOOLEAN
    BY <1>11 DEF RequestCancel
  <2>3. QED
    BY <1>11, <2>1, <2>2, ReadsType, Zenon DEF RequestCancel
<1>12. ASSUME NEW c \in Client, Commit(c) PROVE TypeOK'
  <2>1. pending[c] \in Requests
    OBVIOUS
  <2>2. status' \in [Job -> Status]
    BY <1>12, <2>1 DEF Commit, Requests, Status, ACTIVE_STATES, Terminal
  <2>3. cancel' \in [Job -> BOOLEAN]
    BY <1>12, <2>1 DEF Commit
  <2>4. pending' \in [Client -> Requests]
    BY <1>12 DEF Commit, NoRequest, Requests
  <2>5. QED
    BY <1>12, <2>2, <2>3, <2>4 DEF Commit
<1>13. CASE Crash
  <2>1. crashes' \in 0 .. MaxCrashes
    BY <1>13, JobQueueAssumption DEF JobQueueAssumption, Crash
  <2>2. NoRequest \in Requests
    BY DEF NoRequest, Requests
  <2>3. QED
    BY <1>13, <2>1, <2>2 DEF Crash
<1>14. CASE Start
  BY <1>14 DEF Start, Recovered, Status, ACTIVE_STATES
<1>15. CASE CameraLost \/ CameraBack
  <2>1. losses' \in 0 .. MaxLosses
    BY <1>15, JobQueueAssumption DEF JobQueueAssumption, CameraLost, CameraBack
  <2>2. QED
    BY <1>15, <2>1 DEF CameraLost, CameraBack
<1>16. CASE UNCHANGED vars
  BY <1>16 DEF vars
<1>17. QED
  BY <1>1, <1>2, <1>3, <1>4, <1>5, <1>6, <1>7, <1>8, <1>9, <1>10, <1>11,
     <1>12, <1>13, <1>14, <1>15, <1>16 DEF Next, WorkerStep

\* Every reachable state has the types of TypeOK.
THEOREM TypeCorrect == Spec => []TypeOK
  BY TypeInit, TypeStep, PTL DEF Spec

-----------------------------------------------------------------------------
(***************************************************************************)
(* RunningIsHeld is inductive together with TypeOK: only Claim writes      *)
(* "running", and it leaves the thread in the handler; every other way out *)
(* of the handler writes another status or found one already there.        *)
(***************************************************************************)

\* A row that says "running" has a thread of this process working on it.
THEOREM RunningHeld == Spec => []RunningIsHeld
<1>1. Init => RunningIsHeld
  BY DEF Init, RunningIsHeld
<1>2. TypeOK /\ RunningIsHeld /\ [Next]_vars => RunningIsHeld'
  <2> SUFFICES ASSUME TypeOK, RunningIsHeld, [Next]_vars,
                      up', NEW j \in Job, status'[j] = "running"
               PROVE  \E w \in Worker : Executes(w, j)'
    BY DEF RunningIsHeld
  <2> USE DEF Executes, rows, threads, faults
  \* What an idle or claiming thread does leaves the executing ones alone.
  <2>1. ASSUME NEW w \in Worker,
               Poll(w) \/ NothingToClaim(w) \/ \E i \in Job : Pick(w, i)
        PROVE  \E v \in Worker : Executes(v, j)'
    <3>1. up /\ status[j] = "running" /\ wpc[w] \in {"poll", "enter"}
      BY <2>1 DEF Poll, NothingToClaim, Pick
    <3>2. PICK v \in Worker : Executes(v, j)
      BY <3>1 DEF RunningIsHeld
    <3>3. v # w
      BY <3>1, <3>2
    <3>4. wpc'[v] = wpc[v] /\ wjob'[v] = wjob[v]
      BY <2>1, <3>3 DEF Poll, NothingToClaim, Pick, TypeOK
    <3>5. QED
      BY <3>2, <3>4
  <2>2. ASSUME NEW w \in Worker, NEW s, NEW pc, Leaves(w, s, pc), up,
               s = "running" => pc = "handler"
        PROVE  \E v \in Worker : Executes(v, j)'
    <3>1. CASE wjob[w] = j
      <4>1. s = "running"
        BY <2>2, <3>1 DEF Leaves, TypeOK
      <4>2. Executes(w, j)'
        BY <2>2, <3>1, <4>1 DEF Leaves, TypeOK
      <4>3. QED
        BY <4>2
    <3>2. CASE wjob[w] # j
      <4>1. status[j] = "running"
        BY <2>2, <3>2 DEF Leaves, TypeOK
      <4>2. PICK v \in Worker : Executes(v, j)
        BY <2>2, <4>1 DEF RunningIsHeld
      <4>3. wpc'[v] = wpc[v] /\ wjob'[v] = wjob[v]
        BY <2>2, <3>2, <4>2 DEF Leaves, TypeOK
      <4>4. QED
        BY <4>2, <4>3
    <3>3. QED
      BY <3>1, <3>2
  <2>3. ASSUME NEW w \in Worker,
               Claim(w) \/ Discard(w) \/ Record(w) \/ Stops(w) \/ Fails(w) \/ CameraGone(w)
        PROVE  \E v \in Worker : Executes(v, j)'
    BY <2>2, <2>3 DEF Claim, Discard, Record, Stops, Fails, CameraGone
  <2>4. ASSUME NEW w \in Worker, Returns(w)
        PROVE  \E v \in Worker : Executes(v, j)'
    <3>1. up /\ status[j] = "running"
      BY <2>4 DEF Returns
    <3>2. PICK v \in Worker : Executes(v, j)
      BY <3>1 DEF RunningIsHeld
    <3>3. Executes(v, j)'
      BY <2>4, <3>1, <3>2 DEF Returns, TypeOK
    <3>4. QED
      BY <3>3
  <2>5. CASE \/ Enqueue
             \/ \E i \in Job : Retry(i) \/ RetryDue(i)
             \/ CameraLost \/ CameraBack \/ UNCHANGED vars
             \/ \E c \in Client : PauseAll(c) \/ ResumeAll(c) \/ StopAll(c)
             \/ \E c \in Client, i \in Job : RequestCancel(c, i)
    <3>1. up /\ UNCHANGED threads
      BY <2>5 DEF Enqueue, Retry, Insert, RetryDue, CameraLost, CameraBack,
                  PauseAll, ResumeAll, StopAll, RequestCancel, Reads, vars
    <3>2. status[j] = "running"
      BY <2>5 DEF Enqueue, Retry, Insert, RetryDue, CameraLost, CameraBack,
                  PauseAll, ResumeAll, StopAll, RequestCancel, Reads, vars, TypeOK
    <3>3. QED
      BY <3>1, <3>2 DEF RunningIsHeld
  <2>6. ASSUME NEW c \in Client, Commit(c)
        PROVE  \E v \in Worker : Executes(v, j)'
    <3>1. pending[c].to # "running"
      BY DEF TypeOK, Requests
    <3>2. up /\ status[j] = "running" /\ UNCHANGED threads
      BY <2>6, <3>1 DEF Commit
    <3>3. QED
      BY <3>2 DEF RunningIsHeld
  <2>7. CASE Crash
    BY <2>7 DEF Crash
  <2>8. CASE Start
    BY <2>8 DEF Start, Recovered
  <2>9. QED
    BY <2>1, <2>3, <2>4, <2>5, <2>6, <2>7, <2>8 DEF Next, WorkerStep
<1>3. QED
  BY <1>1, <1>2, TypeCorrect, PTL DEF Spec

\* A job whose cancellation is on record and that no thread has in hand is not
\* taken up again: of all steps only Pick puts a job in a thread's hands to run
\* it, and only when it read the flag down.
THEOREM CancelStands == Spec => NoWorkAfterCancel
<1>1. TypeOK /\ [Next]_vars =>
        \A j \in Job : cancel[j] /\ (\A w \in Worker : ~Engaged(w, j))
          => \A w \in Worker : ~Engaged(w, j)'
  <2> SUFFICES ASSUME TypeOK, [Next]_vars, NEW j \in Job, cancel[j],
                      \A v \in Worker : ~Engaged(v, j), NEW w \in Worker
               PROVE  ~Engaged(w, j)'
    OBVIOUS
  <2> USE DEF Engaged, rows, threads, faults
  <2>1. ASSUME NEW v \in Worker, NEW i \in Job, Pick(v, i) PROVE ~Engaged(w, j)'
    BY <2>1 DEF Pick, Verdict, TypeOK
  <2>2. ASSUME NEW v \in Worker, Poll(v) \/ NothingToClaim(v) \/ Returns(v)
        PROVE  ~Engaged(w, j)'
    BY <2>2 DEF Poll, NothingToClaim, Returns, TypeOK
  <2>3. ASSUME NEW v \in Worker, Claim(v) PROVE ~Engaged(w, j)'
    BY <2>3 DEF Claim, Leaves, TypeOK
  <2>4. ASSUME NEW v \in Worker,
               Discard(v) \/ Record(v) \/ Stops(v) \/ Fails(v) \/ CameraGone(v)
        PROVE  ~Engaged(w, j)'
    BY <2>4 DEF Discard, Record, Stops, Fails, CameraGone, Leaves, TypeOK
  <2>5. CASE \/ Enqueue \/ Start \/ CameraLost \/ CameraBack \/ UNCHANGED vars
             \/ \E i \in Job : Retry(i) \/ RetryDue(i)
             \/ \E c \in Client : PauseAll(c) \/ ResumeAll(c) \/ StopAll(c) \/ Commit(c)
             \/ \E c \in Client, i \in Job : RequestCancel(c, i)
    <3>1. UNCHANGED threads
      BY <2>5 DEF Enqueue, Start, Retry, Insert, RetryDue, CameraLost, CameraBack,
                  PauseAll, ResumeAll, StopAll, RequestCancel, Reads, Commit, vars
    <3>2. QED
      BY <3>1
  <2>6. CASE Crash
    BY <2>6 DEF Crash, None, Job
  <2>7. QED
    BY <2>1, <2>2, <2>3, <2>4, <2>5, <2>6 DEF Next, WorkerStep
<1>2. QED
  BY <1>1, TypeCorrect, PTL DEF Spec, NoWorkAfterCancel

-----------------------------------------------------------------------------
(***************************************************************************)
(* One thread per job, while the pause button is out of use.               *)
(***************************************************************************)

\* Without pause_all no row says "paused", so resume_all finds nothing to queue.
NothingPaused ==
  /\ \A j \in Job : status[j] # "paused"
  /\ \A c \in Client : pending[c].to # "paused"
  /\ \A c \in Client : pending[c].to = "queued" => pending[c].ids = {}

\* The lock admits one thread between the claim's read and its commit.
OneClaims ==
  \A v, w \in Worker :
    wpc[v] \in {"claim", "discard"} /\ wpc[w] \in {"claim", "discard"} => v = w

\* No job is in two threads' hands, counting from the claim's read.
HandsApart ==
  \A v, w \in Worker : wjob[v] # None /\ wjob[v] = wjob[w] => v = w

\* A job being worked on is not on offer in the queue.
NotOnOffer ==
  \A w \in Worker : wpc[w] \in {"handler", "record"} => status[wjob[w]] # "queued"

\* What a thread has in hand matches where it stands; a dead process has none.
HandsFit ==
  /\ \A w \in Worker : wpc[w] \in {"poll", "enter"} <=> wjob[w] = None
  /\ \A w \in Worker : wjob[w] <= created
  /\ ~up => \A w \in Worker : wpc[w] = "poll"

\* Rows not yet inserted are in no session's hands.
Unused ==
  \A j \in Job : j > created =>
    status[j] = "none" /\ \A c \in Client : j \notin pending[c].ids

HandsInv ==
  TypeOK /\ NothingPaused /\ OneClaims /\ HandsApart /\ NotOnOffer /\ HandsFit /\ Unused

\* The boot leaves nothing paused, claimed or in hand, so it starts in HandsInv.
LEMMA HandsInit == Init => HandsInv
  BY TypeInit DEF Init, HandsInv, NothingPaused, OneClaims, HandsApart, NotOnOffer,
                  HandsFit, Unused, NoRequest, None

\* A step that lets go of, or newly marks as running, the job in w's hands.
LEMMA HandsLeave ==
  ASSUME HandsInv, TypeOK', NEW w \in Worker, NEW s, NEW pc,
         up, wpc[w] \in {"claim", "discard", "handler", "record"},
         Leaves(w, s, pc), s # "paused",
         \/ pc = "poll"
         \/ pc = "handler" /\ s = "running"
  PROVE  HandsInv'
<1> USE DEF HandsInv, Leaves, TypeOK, faults
<1>1. wjob[w] \in Job /\ wjob[w] # None
  BY DEF HandsFit
<1>2. NothingPaused'
  BY DEF NothingPaused
<1>3. OneClaims'
  BY DEF OneClaims
<1>4. HandsApart'
  BY DEF HandsApart
<1>5. NotOnOffer'
  <2> SUFFICES ASSUME NEW v \in Worker, wpc'[v] \in {"handler", "record"}
               PROVE  status'[wjob'[v]] # "queued"
    BY DEF NotOnOffer
  <2>1. CASE v = w
    BY <2>1, <1>1
  <2>2. CASE v # w
    <3>1. wpc[v] \in {"handler", "record"} /\ wjob'[v] = wjob[v]
      BY <2>2
    <3>2. wjob[v] # wjob[w]
      BY <2>2, <1>1 DEF HandsApart
    <3>3. QED
      BY <3>1, <3>2 DEF NotOnOffer
  <2>3. QED
    BY <2>1, <2>2
<1>6. HandsFit'
  <2>1. \A v \in Worker : wpc'[v] \in {"poll", "enter"} <=> wjob'[v] = None
    BY <1>1 DEF HandsFit
  <2>2. \A v \in Worker : wjob'[v] <= created'
    BY DEF HandsFit, None, Job
  <2>3. QED
    BY <2>1, <2>2 DEF HandsFit
<1>7. Unused'
  <2>1. wjob[w] <= created
    BY DEF HandsFit
  <2>2. QED
    BY <2>1, <1>1 DEF Unused, Job
<1>8. QED
  BY <1>2, <1>3, <1>4, <1>5, <1>6, <1>7

\* Every step keeps the invariant when there is no pause button.
LEMMA HandsStep ==
  ASSUME "pause" \notin Buttons
  PROVE  HandsInv /\ [Next]_vars => HandsInv'
<1> SUFFICES ASSUME HandsInv, [Next]_vars PROVE HandsInv'
  OBVIOUS
<1>0. TypeOK /\ TypeOK'
  BY TypeStep DEF HandsInv
<1> USE <1>0 DEF rows, threads, faults
<1>1. ASSUME NEW w \in Worker, Poll(w) \/ NothingToClaim(w) PROVE HandsInv'
  BY <1>1 DEF Poll, NothingToClaim, HandsInv, NothingPaused, OneClaims,
              HandsApart, NotOnOffer, HandsFit, Unused, TypeOK
<1>2. ASSUME NEW w \in Worker, NEW j \in Job, Pick(w, j) PROVE HandsInv'
  <2> USE DEF Pick, Verdict, TypeOK
  <2>1. \A v \in Worker : wjob[v] # j
    <3> SUFFICES ASSUME NEW v \in Worker, wjob[v] = j PROVE FALSE
      OBVIOUS
    <3>1. wpc[v] \in {"handler", "record"}
      BY <1>2 DEF HandsInv, HandsFit, LockFree, None, Job
    <3>2. QED
      BY <1>2, <3>1 DEF HandsInv, NotOnOffer, Claimable
  <2>2. j <= created /\ j # None
    <3>1. j # None
      BY DEF Job, None
    <3>2. QED
      BY <1>2, <3>1 DEF Claimable, HandsInv, Unused, Job
  <2>3. NothingPaused'
    BY <1>2 DEF HandsInv, NothingPaused
  <2>4. OneClaims'
    BY <1>2 DEF HandsInv, OneClaims, LockFree
  <2>5. HandsApart'
    BY <1>2, <2>1 DEF HandsInv, HandsApart
  <2>6. NotOnOffer'
    BY <1>2 DEF HandsInv, NotOnOffer
  <2>7. HandsFit'
    BY <1>2, <2>2 DEF HandsInv, HandsFit
  <2>8. Unused'
    BY <1>2 DEF HandsInv, Unused
  <2>9. QED
    BY <2>3, <2>4, <2>5, <2>6, <2>7, <2>8 DEF HandsInv
<1>3. ASSUME NEW w \in Worker,
             Claim(w) \/ Discard(w) \/ Record(w) \/ Stops(w) \/ Fails(w) \/ CameraGone(w)
      PROVE  HandsInv'
  <2>1. CASE Claim(w)
    BY <2>1, HandsLeave DEF Claim
  <2>2. CASE Discard(w)
    BY <2>2, HandsLeave DEF Discard
  <2>3. CASE Record(w)
    BY <2>3, HandsLeave DEF Record
  <2>4. CASE Stops(w)
    BY <2>4, HandsLeave DEF Stops
  <2>5. CASE Fails(w)
    BY <2>5, HandsLeave DEF Fails
  <2>6. CASE CameraGone(w)
    BY <2>6, HandsLeave DEF CameraGone
  <2>7. QED
    BY <1>3, <2>1, <2>2, <2>3, <2>4, <2>5, <2>6
<1>4. ASSUME NEW w \in Worker, Returns(w) PROVE HandsInv'
  <2> USE DEF Returns, HandsInv, TypeOK
  <2>1. NothingPaused' /\ Unused'
    BY <1>4 DEF NothingPaused, Unused
  <2>2. OneClaims' /\ HandsApart'
    BY <1>4 DEF OneClaims, HandsApart
  <2>3. NotOnOffer'
    BY <1>4 DEF NotOnOffer
  <2>4. HandsFit'
    <3>1. wjob[w] # None /\ up'
      BY <1>4 DEF HandsFit
    <3>2. \A v \in Worker : wpc'[v] \in {"poll", "enter"} <=> wjob'[v] = None
      BY <1>4, <3>1 DEF HandsFit
    <3>3. \A v \in Worker : wjob'[v] = wjob[v] \/ wjob'[v] = 0
      BY <1>4 DEF None
    <3>4. \A v \in Worker : wjob'[v] <= created'
      BY <1>4, <3>3 DEF HandsFit
    <3>5. QED
      BY <3>1, <3>2, <3>4 DEF HandsFit
  <2>5. QED
    BY <2>1, <2>2, <2>3, <2>4
<1>5. ASSUME NEW k, Insert(k) PROVE HandsInv'
  <2> USE DEF Insert, TypeOK
  <2>1. created + 1 \in Job /\ \A w \in Worker : wjob[w] # created + 1
    BY <1>5, JobQueueAssumption DEF JobQueueAssumption, Job, None, HandsInv, HandsFit
  <2>2. NothingPaused' /\ OneClaims' /\ HandsApart' /\ NotOnOffer'
    BY <1>5, <2>1 DEF HandsInv, NothingPaused, OneClaims, HandsApart, NotOnOffer
  <2>3. HandsFit'
    BY <1>5 DEF HandsInv, HandsFit, Job, None
  <2>4. Unused'
    BY <1>5, <2>1 DEF HandsInv, Unused, Job
  <2>5. QED
    BY <2>2, <2>3, <2>4 DEF HandsInv
<1>6. ASSUME NEW c \in Client,
             \/ ResumeAll(c) \/ StopAll(c) \/ \E j \in Job : RequestCancel(c, j)
      PROVE  HandsInv'
  <2>1. InStatus({"paused"}) = {}
    BY DEF InStatus, HandsInv, NothingPaused
  <2>2. UNCHANGED <<status, wpc, wjob, created, up>>
    BY <1>6 DEF ResumeAll, StopAll, RequestCancel, Reads
  <2>3. NothingPaused'
    BY <1>6, <2>1, <2>2
       DEF ResumeAll, StopAll, RequestCancel, Reads, HandsInv, NothingPaused, TypeOK
  <2>4. Unused'
    BY <1>6, <2>2 DEF ResumeAll, StopAll, RequestCancel, Reads, InStatus, ACTIVE_STATES,
                      HandsInv, Unused, TypeOK
  <2>5. QED
    BY <2>2, <2>3, <2>4 DEF HandsInv, OneClaims, HandsApart, NotOnOffer, HandsFit
<1>7. ASSUME NEW c \in Client, PauseAll(c) PROVE HandsInv'
  BY <1>7 DEF PauseAll, Reads
<1>8. ASSUME NEW c \in Client, Commit(c) PROVE HandsInv'
  <2>1. \A j \in Job : status'[j] = status[j] \/ status'[j] \notin {"queued", "paused"}
    <3>1. pending[c].to # "paused" /\ (pending[c].to = "queued" => pending[c].ids = {})
      BY DEF HandsInv, NothingPaused
    <3>2. QED
      BY <1>8, <3>1 DEF Commit
  <2>2. UNCHANGED <<wpc, wjob, created, up>>
    BY <1>8 DEF Commit
  <2>3. NothingPaused'
    BY <1>8, <2>1 DEF Commit, HandsInv, NothingPaused, NoRequest, TypeOK
  <2>4. NotOnOffer'
    <3> SUFFICES ASSUME NEW w \in Worker, wpc[w] \in {"handler", "record"}
                 PROVE  status'[wjob[w]] # "queued"
      BY <2>2 DEF NotOnOffer
    <3>1. wjob[w] \in Job
      BY DEF HandsInv, HandsFit, TypeOK
    <3>2. QED
      BY <2>1, <3>1 DEF HandsInv, NotOnOffer
  <2>5. Unused'
    BY <1>8 DEF Commit, HandsInv, Unused, NoRequest, TypeOK
  <2>6. QED
    BY <2>2, <2>3, <2>4, <2>5 DEF HandsInv, OneClaims, HandsApart, HandsFit
<1>9. CASE Crash
  BY <1>9 DEF Crash, HandsInv, NothingPaused, OneClaims, HandsApart, NotOnOffer,
              HandsFit, Unused, TypeOK, NoRequest, None
<1>10. CASE Start
  <2>1. \A w \in Worker : wpc[w] = "poll"
    BY <1>10 DEF Start, HandsInv, HandsFit
  <2>2. QED
    BY <1>10, <2>1 DEF Start, Recovered, HandsInv, NothingPaused, OneClaims,
                       HandsApart, NotOnOffer, HandsFit, Unused, TypeOK
<1>11. CASE (\E j \in Job : RetryDue(j)) \/ CameraLost \/ CameraBack \/ UNCHANGED vars
  BY <1>11 DEF RetryDue, CameraLost, CameraBack, vars, HandsInv, NothingPaused,
               OneClaims, HandsApart, NotOnOffer, HandsFit, Unused
<1>12. QED
  BY <1>1, <1>2, <1>3, <1>4, <1>5, <1>6, <1>7, <1>8, <1>9, <1>10, <1>11
     DEF Next, WorkerStep, Enqueue, Retry

\* Without the pause button, no job is ever worked on by two threads at once.
THEOREM OneThreadPerJob ==
  ASSUME "pause" \notin Buttons
  PROVE  Spec => []SingleExecution
<1>1. HandsInv => SingleExecution
  BY DEF HandsInv, HandsApart, SingleExecution, Executes, Job, None
<1>2. QED
  BY <1>1, HandsInit, HandsStep, PTL DEF Spec

LEMMA HandsHold ==
  ASSUME "pause" \notin Buttons
  PROVE  Spec => []HandsInv
  BY HandsInit, HandsStep, PTL DEF Spec

-----------------------------------------------------------------------------
(***************************************************************************)
(* The refinement of JobBoard, while the pause button is out of use.  A    *)
(* thread that lets a job go must leave it settled or open, so the row has *)
(* to have been inserted: Posted.  With one thread per job the CHOOSE in   *)
(* boardHolder has one candidate, and the board's holder is that thread.   *)
(***************************************************************************)

\* Inserted rows keep a status, because no session is about to take it away.
Posted ==
  /\ \A j \in Job : j <= created => status[j] # "none"
  /\ \A c \in Client : pending[c].to = "none" => pending[c].ids = {}

BoardInv == HandsInv /\ Posted

LEMMA PostedInit == Init => Posted
  BY DEF Init, Posted, NoRequest, Job

\* Every session writes one of the statuses of a row.
LEMMA PostedStep == BoardInv /\ [Next]_vars => Posted'
<1> SUFFICES ASSUME HandsInv, Posted, [Next]_vars PROVE Posted'
  BY DEF BoardInv
<1> USE DEF HandsInv, TypeOK, rows, threads, faults
<1>1. ASSUME NEW w \in Worker,
             \/ Poll(w) \/ NothingToClaim(w) \/ Returns(w)
             \/ \E j \in Job : Pick(w, j)
      PROVE  Posted'
  BY <1>1 DEF Poll, NothingToClaim, Returns, Pick, Posted
<1>2. ASSUME NEW w \in Worker,
             Claim(w) \/ Discard(w) \/ Record(w) \/ Stops(w) \/ Fails(w) \/ CameraGone(w)
      PROVE  Posted'
  BY <1>2 DEF Claim, Discard, Record, Stops, Fails, CameraGone, Leaves, Posted
<1>3. ASSUME NEW k, Insert(k) PROVE Posted'
  BY <1>3 DEF Insert, Posted, Job
<1>4. ASSUME NEW c \in Client,
             \/ PauseAll(c) \/ ResumeAll(c) \/ StopAll(c)
             \/ \E j \in Job : RequestCancel(c, j)
      PROVE  Posted'
  BY <1>4 DEF PauseAll, ResumeAll, StopAll, RequestCancel, Reads, Posted
<1>5. ASSUME NEW c \in Client, Commit(c) PROVE Posted'
  BY <1>5 DEF Commit, NoRequest, Posted
<1>6. CASE Crash
  BY <1>6 DEF Crash, NoRequest, Posted
<1>7. CASE Start
  BY <1>7 DEF Start, Recovered, Posted
<1>8. CASE (\E j \in Job : RetryDue(j)) \/ CameraLost \/ CameraBack \/ UNCHANGED vars
  BY <1>8 DEF RetryDue, CameraLost, CameraBack, vars, Posted
<1>9. QED
  BY <1>1, <1>2, <1>3, <1>4, <1>5, <1>6, <1>7, <1>8 DEF Next, WorkerStep, Enqueue, Retry

LEMMA BoardInvHolds ==
  ASSUME "pause" \notin Buttons
  PROVE  Spec => []BoardInv
<1>1. Init => BoardInv
  BY HandsInit, PostedInit DEF BoardInv
<1>2. BoardInv /\ [Next]_vars => BoardInv'
  BY HandsStep, PostedStep DEF BoardInv
<1>3. QED
  BY <1>1, <1>2, PTL DEF Spec

\* The board's holder of a job is the thread that has it in hand.
HolderFits ==
  \A j \in Job : /\ \A w \in Worker : wjob[w] = j => boardHolder[j] = w
                 /\ ~InHand(j) => boardHolder[j] = None

LEMMA HolderInHand == HandsInv => HolderFits
<1> SUFFICES ASSUME HandsInv, NEW j \in Job
             PROVE  /\ \A w \in Worker : wjob[w] = j => boardHolder[j] = w
                    /\ ~InHand(j) => boardHolder[j] = None
  BY DEF HolderFits
<1>1. ASSUME NEW w \in Worker, wjob[w] = j PROVE boardHolder[j] = w
  <2>1. \A v \in Worker : wjob[v] = j => v = w
    BY <1>1 DEF HandsInv, HandsApart, None, Job
  <2>2. (CHOOSE v \in Worker : wjob[v] = j) = w
    BY <1>1, <2>1
  <2>3. QED
    BY <1>1, <2>2 DEF boardHolder, InHand
<1>2. QED
  BY <1>1 DEF boardHolder

\* Both maps of the refinement are functions of the jobs.
Maps ==
  /\ boardState = [j \in Job |-> boardState[j]]
  /\ boardHolder = [j \in Job |-> boardHolder[j]]

LEMMA BoardMaps == Maps
<1>1. boardState = [j \in Job |-> boardState[j]]
  BY DEF boardState
<1>2. boardHolder = [j \in Job |-> boardHolder[j]]
  BY DEF boardHolder
<1>3. QED
  BY <1>1, <1>2 DEF Maps

\* The board has a job where it was when the same threads have it in hand.
LEMMA BoardKeeps ==
  ASSUME HandsInv, HandsInv', NEW j \in Job, \A w \in Worker : wjob'[w] = j <=> wjob[w] = j,
         InHand(j) \/ Lying(status'[j]) = Lying(status[j])
  PROVE  boardState'[j] = boardState[j] /\ boardHolder'[j] = boardHolder[j]
<1>1. InHand(j)' = InHand(j)
  BY DEF InHand
<1>2. HolderFits /\ HolderFits'
  BY HolderInHand, PTL
<1>3. CASE InHand(j)
  <2>1. PICK w \in Worker : wjob[w] = j
    BY <1>3 DEF InHand
  <2>2. boardHolder[j] = w /\ boardHolder'[j] = w
    BY <2>1, <1>2 DEF HolderFits
  <2>3. QED
    BY <1>1, <1>3, <2>2 DEF boardState
<1>4. CASE ~InHand(j)
  <2>1. boardHolder[j] = None /\ boardHolder'[j] = None
    BY <1>1, <1>2, <1>4 DEF HolderFits
  <2>2. QED
    BY <1>1, <1>4, <2>1 DEF boardState
<1>5. QED
  BY <1>3, <1>4

\* No thread takes or leaves a job, and no job out of hand is opened or settled.
LEMMA BoardRests ==
  ASSUME HandsInv, HandsInv', UNCHANGED wjob,
         \A j \in Job : InHand(j) \/ Lying(status'[j]) = Lying(status[j])
  PROVE  UNCHANGED <<boardState, boardHolder>>
<1>1. \A j \in Job : boardState'[j] = boardState[j] /\ boardHolder'[j] = boardHolder[j]
  BY BoardKeeps
<1>2. Maps /\ Maps'
  BY BoardMaps, PTL
<1>3. QED
  BY <1>1, <1>2 DEF Maps

\* One job changes hands or its place on the board.
LEMMA BoardChanges ==
  ASSUME NEW j \in Job, NEW s, NEW h, boardState'[j] = s, boardHolder'[j] = h,
         \A i \in Job \ {j} : boardState'[i] = boardState[i] /\ boardHolder'[i] = boardHolder[i]
  PROVE  Board!Becomes(j, s, h)
<1>1. Maps /\ Maps'
  BY BoardMaps, PTL
<1>2. boardState' = [boardState EXCEPT ![j] = s]
  BY <1>1 DEF Maps
<1>3. boardHolder' = [boardHolder EXCEPT ![j] = h]
  BY <1>1 DEF Maps
<1>4. QED
  BY <1>2, <1>3 DEF Board!Becomes

\* A thread takes a job from the table: the job was open and the thread had none.
LEMMA BoardTakes ==
  ASSUME HandsInv, HandsInv', NEW w \in Worker, NEW j \in Job,
         wjob[w] = None, ~InHand(j), status[j] = "queued",
         wjob' = [wjob EXCEPT ![w] = j], status' = status
  PROVE  Board!Take(w, j)
<1> USE DEF HandsInv, TypeOK
<1>1. boardState[j] = "open"
  BY DEF boardState, Lying, Terminal, ACTIVE_STATES
<1>2. \A i \in Job : boardHolder[i] # w
  <2> SUFFICES ASSUME NEW i \in Job PROVE boardHolder[i] # w
    OBVIOUS
  <2>1. CASE InHand(i)
    <3>1. PICK v \in Worker : wjob[v] = i
      BY <2>1 DEF InHand
    <3>2. boardHolder[i] = v /\ v # w
      BY <3>1, HolderInHand DEF HolderFits, None, Job
    <3>3. QED
      BY <3>2
  <2>2. CASE ~InHand(i)
    BY <2>2, HolderInHand, JobQueueAssumption DEF HolderFits, JobQueueAssumption
  <2>3. QED
    BY <2>1, <2>2
<1>3. \A i \in Job \ {j} : boardState'[i] = boardState[i] /\ boardHolder'[i] = boardHolder[i]
  <2> SUFFICES ASSUME NEW i \in Job \ {j}
               PROVE  boardState'[i] = boardState[i] /\ boardHolder'[i] = boardHolder[i]
    OBVIOUS
  <2>1. \A v \in Worker : wjob'[v] = i <=> wjob[v] = i
    BY DEF None, Job
  <2>2. QED
    BY <2>1, BoardKeeps
<1>4. boardState'[j] = "working" /\ boardHolder'[j] = w
  <2>1. wjob'[w] = j
    OBVIOUS
  <2>2. InHand(j)'
    BY <2>1 DEF InHand
  <2>3. HolderFits'
    BY HolderInHand, PTL
  <2>4. QED
    BY <2>1, <2>2, <2>3 DEF HolderFits, boardState
<1>5. Board!Becomes(j, "working", w)
  BY <1>3, <1>4, BoardChanges
<1>6. QED
  BY <1>1, <1>2, <1>5 DEF Board!Take

\* A thread leaves its job, whose row says what lies on the board from then on.
LEMMA BoardLets ==
  ASSUME HandsInv, HandsInv', NEW w \in Worker, NEW j \in Job, wjob[w] = j,
         wjob' = [wjob EXCEPT ![w] = None],
         \A i \in Job \ {j} : status'[i] = status[i],
         Lying(status'[j]) \in {"open", "settled"}
  PROVE  Board!Settle(w, j) \/ Board!GiveBack(w, j)
<1> USE DEF HandsInv, TypeOK
<1>1. boardHolder[j] = w
  BY HolderInHand DEF HolderFits
<1>2. \A i \in Job \ {j} : boardState'[i] = boardState[i] /\ boardHolder'[i] = boardHolder[i]
  <2> SUFFICES ASSUME NEW i \in Job \ {j}
               PROVE  boardState'[i] = boardState[i] /\ boardHolder'[i] = boardHolder[i]
    OBVIOUS
  <2>1. \A v \in Worker : wjob'[v] = i <=> wjob[v] = i
    BY DEF None, Job
  <2>2. QED
    BY <2>1, BoardKeeps
<1>3. boardState'[j] = Lying(status'[j]) /\ boardHolder'[j] = None
  <2>1. \A v \in Worker : wjob'[v] # j
    BY DEF HandsApart, None, Job
  <2>2. ~InHand(j)'
    BY <2>1 DEF InHand
  <2>3. QED
    BY <2>2 DEF boardState, boardHolder
<1>4. Board!Becomes(j, Lying(status'[j]), None)
  BY <1>2, <1>3, BoardChanges
<1>5. QED
  BY <1>1, <1>4 DEF Board!Settle, Board!GiveBack

\* The steps of the threads.
LEMMA ThreadsWorkTheBoard ==
  ASSUME BoardInv, BoardInv', NEW w \in Worker, WorkerStep(w)
  PROVE  Board!Next \/ UNCHANGED <<boardState, boardHolder>>
<1> USE DEF BoardInv, HandsInv, TypeOK, rows, threads, faults
<1>1. CASE Poll(w) \/ NothingToClaim(w)
  <2>1. UNCHANGED <<wjob, status>>
    BY <1>1 DEF Poll, NothingToClaim
  <2>2. QED
    BY <2>1, BoardRests
<1>2. ASSUME NEW j \in Job, Pick(w, j) PROVE Board!Next
  <2>1. wjob[w] = None
    BY <1>2 DEF Pick, HandsFit
  <2>2. \A v \in Worker : wjob[v] # j
    <3> SUFFICES ASSUME NEW v \in Worker, wjob[v] = j PROVE FALSE
      OBVIOUS
    <3>1. wpc[v] \in {"handler", "record"}
      BY <1>2 DEF Pick, HandsFit, LockFree, None, Job
    <3>2. QED
      BY <1>2, <3>1 DEF Pick, NotOnOffer, Claimable
  <2>3. ~InHand(j) /\ status[j] = "queued" /\ status' = status
    BY <1>2, <2>2 DEF Pick, Claimable, InHand
  <2>4. wjob' = [wjob EXCEPT ![w] = j]
    BY <1>2 DEF Pick
  <2>5. Board!Take(w, j)
    BY <2>1, <2>3, <2>4, BoardTakes
  <2>6. QED
    BY <2>5 DEF Board!Next
<1>3. CASE Claim(w)
  <2>1. UNCHANGED wjob /\ \A j \in Job : wjob[w] # j => status'[j] = status[j]
    BY <1>3 DEF Claim, Leaves
  <2>2. \A j \in Job : InHand(j) \/ Lying(status'[j]) = Lying(status[j])
    BY <2>1 DEF InHand
  <2>3. QED
    BY <2>1, <2>2, BoardRests
<1>4. ASSUME NEW s \in {"cancelled", "done", "error", "queued"},
             wpc[w] \in {"discard", "handler", "record"}, Leaves(w, s, "poll")
      PROVE  Board!Next
  <2>1. wjob[w] \in Job
    BY <1>4 DEF HandsFit
  <2>2. wjob' = [wjob EXCEPT ![w] = None]
    BY <1>4 DEF Leaves
  <2>3. \A i \in Job \ {wjob[w]} : status'[i] = status[i]
    BY <1>4 DEF Leaves
  <2>4. status'[wjob[w]] = s
    BY <1>4, <2>1 DEF Leaves
  <2>5. Lying(s) \in {"open", "settled"}
    BY DEF Lying, Terminal, ACTIVE_STATES
  <2>6. Board!Settle(w, wjob[w]) \/ Board!GiveBack(w, wjob[w])
    BY <2>1, <2>2, <2>3, <2>4, <2>5, BoardLets
  <2>7. QED
    BY <2>1, <2>6 DEF Board!Next
<1>5. CASE Discard(w) \/ Record(w) \/ Stops(w) \/ Fails(w) \/ CameraGone(w)
  BY <1>4, <1>5 DEF Discard, Record, Stops, Fails, CameraGone
<1>6. CASE Returns(w)
  <2>1. wjob[w] \in Job
    BY <1>6 DEF Returns, HandsFit
  <2>2. CASE status[wjob[w]] = "running"
    <3>1. UNCHANGED <<wjob, status>>
      BY <1>6, <2>2 DEF Returns
    <3>2. QED
      BY <3>1, BoardRests
  <2>3. CASE status[wjob[w]] # "running"
    <3>1. wjob' = [wjob EXCEPT ![w] = None] /\ status' = status
      BY <1>6, <2>3 DEF Returns
    <3>2. status[wjob[w]] \notin {"none", "queued", "paused"}
      BY <1>6, <2>1 DEF Returns, Posted, HandsFit, NotOnOffer, NothingPaused
    <3>3. Lying(status[wjob[w]]) = "settled"
      BY <2>1, <2>3, <3>2 DEF Lying, Status, Terminal, ACTIVE_STATES
    <3>4. Board!Settle(w, wjob[w]) \/ Board!GiveBack(w, wjob[w])
      BY <2>1, <3>1, <3>3, BoardLets
    <3>5. QED
      BY <2>1, <3>4 DEF Board!Next
  <2>4. QED
    BY <2>2, <2>3
<1>7. QED
  BY <1>1, <1>2, <1>3, <1>5, <1>6 DEF WorkerStep

\* The steps of requests, of the process and of its surroundings.
LEMMA OthersWorkTheBoard ==
  ASSUME "pause" \notin Buttons, BoardInv, BoardInv', [Next]_vars,
         \A w \in Worker : ~WorkerStep(w)
  PROVE  Board!Next \/ UNCHANGED <<boardState, boardHolder>>
<1> USE DEF BoardInv, HandsInv, TypeOK, rows, threads, faults
<1>1. ASSUME UNCHANGED <<wjob, status>>
      PROVE  UNCHANGED <<boardState, boardHolder>>
  BY <1>1, BoardRests
<1>2. ASSUME NEW k, Insert(k) PROVE Board!Next
  <2>1. created + 1 \in Job
    BY <1>2, JobQueueAssumption DEF JobQueueAssumption, Insert, Job
  <2>2. PICK n \in Job : n = created + 1
    BY <2>1
  <2>3. status[n] = "none" /\ status'[n] = "queued"
    BY <1>2, <2>2 DEF Insert, Unused, Job
  <2>4. UNCHANGED wjob /\ \A w \in Worker : wjob[w] # n
    BY <1>2, <2>2 DEF Insert, HandsFit, None, Job
  <2>5. ~InHand(n) /\ ~InHand(n)'
    BY <2>4 DEF InHand
  <2>6. boardState[n] = "absent"
    BY <2>3, <2>5 DEF boardState, Lying, Terminal, ACTIVE_STATES
  <2>7. boardState'[n] = "open"
    BY <2>3, <2>5 DEF boardState, Lying, Terminal, ACTIVE_STATES
  <2>8. boardHolder'[n] = None
    BY <2>5 DEF boardHolder
  <2>9. \A i \in Job \ {n} : boardState'[i] = boardState[i] /\ boardHolder'[i] = boardHolder[i]
    <3>1. \A i \in Job \ {n} : status'[i] = status[i]
      BY <1>2, <2>2 DEF Insert
    <3>2. QED
      BY <2>4, <3>1, BoardKeeps
  <2>10. Board!Becomes(n, "open", None)
    BY <2>7, <2>8, <2>9, BoardChanges
  <2>11. Board!Post(n)
    BY <2>6, <2>10 DEF Board!Post
  <2>12. QED
    BY <2>11 DEF Board!Next
<1>3. ASSUME NEW c \in Client,
             \/ PauseAll(c) \/ ResumeAll(c) \/ StopAll(c)
             \/ \E j \in Job : RequestCancel(c, j)
      PROVE  UNCHANGED <<boardState, boardHolder>>
  BY <1>1, <1>3 DEF PauseAll, ResumeAll, StopAll, RequestCancel, Reads
<1>4. ASSUME NEW c \in Client, Commit(c) PROVE Board!Next
  <2> DEFINE S == {j \in pending[c].ids : ~InHand(j) /\ status[j] \in ACTIVE_STATES}
  <2>1. pending[c].ids \subseteq Job
    BY DEF Requests
  <2>2. \A j \in pending[c].ids : status'[j] = "cancelled" /\ status[j] # "none"
    <3>1. pending[c].to = "cancelled" \/ pending[c].ids = {}
      BY DEF Requests, NothingPaused, Posted
    <3>2. \A j \in pending[c].ids : j <= created
      BY <2>1 DEF Unused, Job
    <3>3. QED
      BY <1>4, <2>1, <3>1, <3>2 DEF Commit, Posted
  <2>3. UNCHANGED wjob /\ \A j \in Job \ pending[c].ids : status'[j] = status[j]
    BY <1>4 DEF Commit
  <2>4. \A j \in Job \ S : boardState'[j] = boardState[j] /\ boardHolder'[j] = boardHolder[j]
    <3> SUFFICES ASSUME NEW j \in Job \ S
                 PROVE  boardState'[j] = boardState[j] /\ boardHolder'[j] = boardHolder[j]
      OBVIOUS
    <3>1. CASE j \in pending[c].ids /\ ~InHand(j)
      <4>1. status[j] \in Terminal
        BY <2>2, <3>1 DEF Status
      <4>2. Lying(status[j]) = "settled" /\ Lying(status'[j]) = "settled"
        BY <2>2, <3>1, <4>1 DEF Lying, Terminal, ACTIVE_STATES
      <4>3. QED
        BY <2>3, <4>2, BoardKeeps
    <3>2. CASE j \notin pending[c].ids \/ InHand(j)
      BY <2>3, <3>2, BoardKeeps
    <3>3. QED
      BY <3>1, <3>2
  <2>5. \A j \in S : boardState[j] = "open" /\ boardState'[j] = "settled" /\ boardHolder'[j] = boardHolder[j]
    <3> SUFFICES ASSUME NEW j \in S
                 PROVE  boardState[j] = "open" /\ boardState'[j] = "settled" /\ boardHolder'[j] = boardHolder[j]
      OBVIOUS
    <3>1. j \in Job /\ ~InHand(j) /\ ~InHand(j)'
      BY <2>1, <2>3 DEF InHand
    <3>2. Lying(status[j]) = "open" /\ Lying(status'[j]) = "settled"
      BY <2>2 DEF Lying, Terminal, ACTIVE_STATES
    <3>3. boardHolder[j] = None /\ boardHolder'[j] = None
      BY <3>1 DEF boardHolder
    <3>4. QED
      BY <3>1, <3>2, <3>3 DEF boardState
  <2> HIDE DEF S
  <2>6. S \subseteq Job
    BY <2>1 DEF S
  <2>7. Maps /\ Maps'
    BY BoardMaps, PTL
  <2>8. boardState' = [j \in Job |-> IF j \in S THEN "settled" ELSE boardState[j]]
    BY <2>4, <2>5, <2>7 DEF Maps
  <2>9. boardHolder' = boardHolder
    <3>1. \A j \in Job : boardHolder'[j] = boardHolder[j]
      BY <2>4, <2>5
    <3>2. QED
      BY <2>7, <3>1 DEF Maps
  <2>10. Board!Withdraw(S)
    BY <2>5, <2>8, <2>9 DEF Board!Withdraw
  <2>11. QED
    BY <2>6, <2>10 DEF Board!Next
<1>5. CASE Crash
  <2> DEFINE S == {j \in Job : InHand(j) /\ status[j] \in Terminal}
  <2>1. status' = status /\ \A j \in Job : ~InHand(j)'
    BY <1>5 DEF Crash, InHand, None, Job
  <2>2. boardHolder' = [j \in Job |-> None]
    BY <2>1 DEF boardHolder
  <2>3. \A j \in Job : InHand(j) => status[j] # "none"
    BY DEF InHand, HandsFit, Posted
  <2>4. \A j \in Job : boardState[j] = "working" <=> InHand(j)
    BY DEF boardState, Lying, Status, Terminal, ACTIVE_STATES
  <2>5. S \in SUBSET {j \in Job : boardState[j] = "working"}
    BY <2>4
  <2>6. \A j \in Job : boardState'[j] = CASE boardState[j] # "working" -> boardState[j]
                                          [] j \in S -> "settled"
                                          [] OTHER -> "open"
    <3> SUFFICES ASSUME NEW j \in Job
                 PROVE  boardState'[j] = CASE boardState[j] # "working" -> boardState[j]
                                           [] j \in S -> "settled"
                                           [] OTHER -> "open"
      OBVIOUS
    <3>1. boardState'[j] = Lying(status[j])
      BY <2>1 DEF boardState
    <3>2. CASE ~InHand(j)
      BY <2>4, <3>1, <3>2 DEF boardState
    <3>3. CASE j \in S
      <4>1. Lying(status[j]) = "settled"
        BY <3>3 DEF Lying, Terminal, ACTIVE_STATES
      <4>2. QED
        BY <2>4, <3>1, <3>3, <4>1
    <3>4. CASE InHand(j) /\ j \notin S
      BY <2>3, <2>4, <3>1, <3>4 DEF Lying, Status, Terminal, ACTIVE_STATES
    <3>5. QED
      BY <3>2, <3>3, <3>4
  <2> HIDE DEF S
  <2>7. Maps'
    BY BoardMaps, PTL
  <2>8. boardState' = [j \in Job |-> CASE boardState[j] # "working" -> boardState[j]
                                       [] j \in S -> "settled"
                                       [] OTHER -> "open"]
    BY <2>6, <2>7 DEF Maps
  <2>9. Board!Restart
    BY <2>2, <2>5, <2>8 DEF Board!Restart
  <2>10. QED
    BY <2>9 DEF Board!Next
<1>6. CASE Start
  <2>1. UNCHANGED wjob /\ \A j \in Job : Lying(status'[j]) = Lying(status[j])
    BY <1>6 DEF Start, Recovered, Lying, Terminal, ACTIVE_STATES
  <2>2. QED
    BY <2>1, BoardRests
<1>7. CASE (\E j \in Job : RetryDue(j)) \/ CameraLost \/ CameraBack \/ UNCHANGED vars
  BY <1>1, <1>7 DEF RetryDue, CameraLost, CameraBack, vars
<1>8. QED
  BY <1>2, <1>3, <1>4, <1>5, <1>6, <1>7 DEF Next, Enqueue, Retry

LEMMA BoardBegins == Init => Board!Init
<1> SUFFICES ASSUME Init PROVE Board!Init
  OBVIOUS
<1>1. \A j \in Job : ~InHand(j) /\ status[j] = "none"
  BY DEF Init, InHand, None, Job
<1>2. boardHolder = [j \in Job |-> None]
  BY <1>1 DEF boardHolder
<1>3. boardState = [j \in Job |-> "absent"]
  <2>1. \A j \in Job : Lying(status[j]) = "absent"
    BY <1>1 DEF Lying, Terminal, ACTIVE_STATES
  <2>2. QED
    BY <1>1, <2>1 DEF boardState
<1>4. QED
  BY <1>2, <1>3 DEF Board!Init

\* Without the pause button the queue implements the job board: jobs are taken by one thread at a
\* time, settled or given back by that thread or withdrawn while open, and never taken up again
\* once settled, whatever requests and restarts fall between a session's read and its commit.
THEOREM QueueImplementsBoard ==
  ASSUME "pause" \notin Buttons
  PROVE  Spec => ImplementsBoard
<1>1. BoardInv /\ BoardInv' /\ [Next]_vars => [Board!Next]_<<boardState, boardHolder>>
  <2> SUFFICES ASSUME BoardInv, BoardInv', [Next]_vars
               PROVE  Board!Next \/ UNCHANGED <<boardState, boardHolder>>
    OBVIOUS
  <2>1. CASE \E w \in Worker : WorkerStep(w)
    BY <2>1, ThreadsWorkTheBoard
  <2>2. CASE \A w \in Worker : ~WorkerStep(w)
    BY <2>2, OthersWorkTheBoard
  <2>3. QED
    BY <2>1, <2>2
<1>2. QED
  BY <1>1, BoardBegins, BoardInvHolds, PTL DEF Spec, ImplementsBoard, Board!Spec

=============================================================================
