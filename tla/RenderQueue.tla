----------------------------- MODULE RenderQueue -----------------------------
(***************************************************************************)
(* The spool of ride films on the NAS: app/ride_render.py queues and       *)
(* cancels, app/ride_render_worker.py, on another machine, renders.  The   *)
(* two share no lock, only files: each ride has a directory with           *)
(* request.json, state.json, cancel, the finished parts and the film, each *)
(* replaced atomically.                                                    *)
(***************************************************************************)
EXTENDS Naturals

CONSTANTS
  Ride,         \* the rides
  Client,       \* the request threads of the web interface
  Clips,        \* clips of a ride
  MaxStops      \* bound: stops and crashes of the worker

ASSUME RenderQueueAssumption ==
  /\ Clips \in Nat \ {0}
  /\ MaxStops \in Nat

InQueue  == {"queued", "rendering"}
TERMINAL == {"done", "error", "cancelled"}
NoRide   == <<"none">>

VARIABLES
  requestFile,   \* request.json is there
  st,        \* "status" of state.json; "not_queued" when it is missing
  resume,    \* "resume" of state.json
  older,     \* "queued_at": the rides that were queued before each ride
  cancelFile,    \* the file "cancel" is there
  parts,     \* valid parts in .work
  film,      \* ride.mp4 is there
  cpc,       \* where each request thread stands
  cride,     \* its ride
  wpc,       \* where the worker stands
  wride,     \* its ride
  stops

disk   == <<requestFile, st, resume, older, cancelFile, parts, film>>
client == <<cpc, cride>>
worker == <<wpc, wride>>
spoolVars   == <<requestFile, st, resume, older, cancelFile, parts, film, cpc, cride, wpc,
            wride, stops>>

SpoolInit ==
  /\ requestFile = [r \in Ride |-> FALSE]
  /\ st      = [r \in Ride |-> "not_queued"]
  /\ resume  = [r \in Ride |-> FALSE]
  /\ older   = [r \in Ride |-> {}]
  /\ cancelFile  = [r \in Ride |-> FALSE]
  /\ parts   = [r \in Ride |-> 0]
  /\ film    = [r \in Ride |-> FALSE]
  /\ cpc     = [c \in Client |-> "idle"]
  /\ cride   = [c \in Client |-> NoRide]
  /\ wpc = "idle" /\ wride = NoRide
  /\ stops = 0

-----------------------------------------------------------------------------
(***************************************************************************)
(* The web interface.                                                      *)
(***************************************************************************)
Requests(c, r, pc) ==
  /\ cpc[c] = "idle"
  /\ cpc'   = [cpc EXCEPT ![c] = pc]
  /\ cride' = [cride EXCEPT ![c] = r]
  /\ UNCHANGED <<disk, worker, stops>>

ClientGoes(c, pc) ==
  /\ cpc'   = [cpc EXCEPT ![c] = pc]
  /\ cride' = [cride EXCEPT ![c] = IF pc = "idle" THEN NoRide ELSE @]
  /\ UNCHANGED <<worker, stops>>

\* queue_render: a ride that is waiting or done is left as it is.
Queue(c, r) ==
  /\ requestFile[r] => st[r] \in {"error", "cancelled", "not_queued"}
  /\ Requests(c, r, "clear")

QueueClear(c) ==
  /\ cpc[c] = "clear"
  /\ cancelFile' = [cancelFile EXCEPT ![cride[c]] = FALSE]
  /\ ClientGoes(c, "state")
  /\ UNCHANGED <<requestFile, st, resume, older, parts, film>>

QueueState(c) ==
  /\ cpc[c] = "state"
  /\ st'     = [st EXCEPT ![cride[c]] = "queued"]
  /\ resume' = [resume EXCEPT ![cride[c]] = FALSE]
  /\ older'  = [r \in Ride |-> IF r = cride[c] THEN Ride \ {r} ELSE older[r] \ {cride[c]}]
  /\ ClientGoes(c, "request")
  /\ UNCHANGED <<requestFile, cancelFile, parts, film>>

QueueRequest(c) ==
  /\ cpc[c] = "request"
  /\ requestFile' = [requestFile EXCEPT ![cride[c]] = TRUE]
  /\ ClientGoes(c, "idle")
  /\ UNCHANGED <<st, resume, older, cancelFile, parts, film>>

\* cancel_render: what the thread does next depends on the status it has read.
Cancel(c, r) ==
  /\ st[r] \in InQueue
  /\ Requests(c, r, IF st[r] = "queued" THEN "mark queued" ELSE "mark")

CancelMark(c) ==
  /\ cpc[c] \in {"mark", "mark queued"}
  /\ cancelFile' = [cancelFile EXCEPT ![cride[c]] = TRUE]
  /\ ClientGoes(c, IF cpc[c] = "mark" THEN "idle" ELSE "withdraw")
  /\ UNCHANGED <<requestFile, st, resume, older, parts, film>>

CancelState(c) ==
  /\ cpc[c] = "withdraw"
  /\ st' = [st EXCEPT ![cride[c]] = "cancelled"]
  /\ ClientGoes(c, "idle")
  /\ UNCHANGED <<requestFile, resume, older, cancelFile, parts, film>>

ClientStep(c) ==
  \/ QueueClear(c) \/ QueueState(c) \/ QueueRequest(c)
  \/ CancelMark(c) \/ CancelState(c)

-----------------------------------------------------------------------------
(***************************************************************************)
(* The worker: process_next and render_job.                                *)
(***************************************************************************)

\* Seeded faults: the latest request goes first, the film is joined before its last part is made or
\* only after one too many, and the state says "done" before the film is in its place.
Ahead_Latest(r, s) == s \in older[r]
Rendered_Early(r)  == parts[r] + 1 >= Clips
Rendered_Late(r)   == parts[r] > Clips
Publishes_Late     == "done"

Unfinished(r) == st[r] = "rendering" \/ resume[r]

\* Interrupted films first, then by the time they were queued.
Ahead(r, s) ==
  \/ Unfinished(r) /\ ~Unfinished(s)
  \/ Unfinished(r) = Unfinished(s) /\ r \in older[s]

WorkerGoes(pc) == wpc' = pc /\ UNCHANGED wride

WorkerRests == wpc' = "idle" /\ wride' = NoRide

\* The worker writes its own copy of state.json.  That copy's "queued_at" and
\* "resume" may be older than the file's, but they are read again only of a ride
\* that waits in its turn, and such a ride was last written by QueueState.
Writes(s) == st' = [st EXCEPT ![wride] = s]

Pick(r) ==
  /\ wpc = "idle"
  /\ st[r] \in InQueue
  /\ \A s \in Ride \ {r} : st[s] \in InQueue => Ahead(r, s)
  /\ wpc' = "load" /\ wride' = r
  /\ UNCHANGED <<disk, client, stops>>

\* The request is read and its sources are compared; without it the ride fails.
Load ==
  /\ wpc = "load"
  /\ IF requestFile[wride] THEN WorkerGoes("check") /\ UNCHANGED st
                       ELSE WorkerRests /\ Writes("error")
  /\ UNCHANGED <<requestFile, resume, older, cancelFile, parts, film, client, stops>>

CheckState ==
  /\ wpc = "check"
  /\ IF st[wride] \in InQueue THEN WorkerGoes("start") ELSE WorkerRests
  /\ UNCHANGED <<disk, client, stops>>

Start ==
  /\ wpc = "start"
  /\ Writes("rendering")
  /\ WorkerGoes("render")
  /\ UNCHANGED <<requestFile, resume, older, cancelFile, parts, film, client, stops>>

Abandoned(r) == cancelFile[r]
Rendered(r)  == parts[r] >= Clips

\* The snapshots or one part; the state is written now and then.
Render ==
  /\ wpc = "render" /\ ~Abandoned(wride) /\ ~Rendered(wride)
  /\ parts' = [parts EXCEPT ![wride] = @ + 1]
  /\ UNCHANGED st \/ Writes("rendering")
  /\ UNCHANGED <<requestFile, resume, older, cancelFile, film, worker, client, stops>>

Publishes == "film"

\* The parts are joined and the sources compared once more.
Assemble ==
  /\ wpc = "render" /\ ~Abandoned(wride) /\ Rendered(wride)
  /\ WorkerGoes(Publishes)
  /\ UNCHANGED <<disk, client, stops>>

PublishFilm ==
  /\ wpc = "film"
  /\ film' = [film EXCEPT ![wride] = TRUE]
  /\ WorkerGoes("done")
  /\ UNCHANGED <<requestFile, st, resume, older, cancelFile, parts, client, stops>>

Done ==
  /\ wpc = "done"
  /\ Writes("done")
  /\ resume' = [resume EXCEPT ![wride] = FALSE]
  /\ WorkerGoes("clean")
  /\ UNCHANGED <<requestFile, older, cancelFile, parts, film, client, stops>>

Abandon ==
  /\ wpc = "render" /\ Abandoned(wride)
  /\ WorkerGoes("abandon")
  /\ UNCHANGED <<disk, client, stops>>

AbandonState ==
  /\ wpc = "abandon"
  /\ Writes("cancelled")
  /\ WorkerGoes("clean")
  /\ UNCHANGED <<requestFile, resume, older, cancelFile, parts, film, client, stops>>

Clean ==
  /\ wpc = "clean"
  /\ parts' = [parts EXCEPT ![wride] = 0]
  /\ WorkerRests
  /\ UNCHANGED <<requestFile, st, resume, older, cancelFile, film, client, stops>>

\* A source changed, the encoder failed, the disk is full, a file could not be
\* replaced or removed; the parts stay.
Fail ==
  /\ wpc \in {"load", "start", "render", "film", "done", "clean"}
  /\ Writes("error")
  /\ WorkerRests
  /\ UNCHANGED <<requestFile, resume, older, cancelFile, parts, film, client, stops>>

WorkerStep ==
  \/ \E r \in Ride : Pick(r)
  \/ Load \/ CheckState \/ Start \/ Render \/ Assemble \/ PublishFilm \/ Done
  \/ Abandon \/ AbandonState \/ Clean \/ Fail

\* SIGTERM: the ride goes back to the queue and is resumed first.
WorkerStop ==
  /\ wpc = "render"
  /\ Writes("queued")
  /\ resume' = [resume EXCEPT ![wride] = TRUE]
  /\ WorkerRests
  /\ UNCHANGED <<requestFile, older, cancelFile, parts, film, client>>

WorkerCrash ==
  /\ wpc # "idle"
  /\ WorkerRests
  /\ UNCHANGED <<disk, client>>

WorkerTrouble ==
  /\ stops < MaxStops
  /\ stops' = stops + 1
  /\ WorkerStop \/ WorkerCrash

SpoolNext ==
  \/ \E c \in Client : \/ ClientStep(c)
                       \/ \E r \in Ride : Queue(c, r) \/ Cancel(c, r)
  \/ WorkerStep
  \/ WorkerTrouble

SpoolSpec == SpoolInit /\ [][SpoolNext]_spoolVars

(***************************************************************************)
(* The worker's loop and a request that has begun go on; its service is    *)
(* restarted.  Nobody has to ask for anything.                             *)
(***************************************************************************)
FairSpoolSpec == SpoolSpec /\ WF_spoolVars(WorkerStep) /\ \A c \in Client : WF_spoolVars(ClientStep(c))

-----------------------------------------------------------------------------
(***************************************************************************)
(* Properties.                                                             *)
(***************************************************************************)

\* The types of the files, the request threads and the worker.
SpoolTypeOK ==
  /\ requestFile \in [Ride -> BOOLEAN]
  /\ st \in [Ride -> InQueue \cup TERMINAL \cup {"not_queued"}]
  /\ resume \in [Ride -> BOOLEAN]
  /\ older \in [Ride -> SUBSET Ride]
  /\ cancelFile \in [Ride -> BOOLEAN]
  /\ parts \in [Ride -> 0 .. Clips]
  /\ film \in [Ride -> BOOLEAN]
  /\ cpc \in [Client -> {"idle", "clear", "state", "request", "mark", "mark queued",
                         "withdraw"}]
  /\ cride \in [Client -> Ride \cup {NoRide}]
  /\ wpc \in {"idle", "load", "check", "start", "render", "film", "done", "abandon",
              "clean"}
  /\ wride \in Ride \cup {NoRide}
  /\ stops \in 0 .. MaxStops

\* No two workers, and no worker that comes back after a crash, disagree about
\* the film: "done" is only ever said of a ride whose film is on the NAS.
DoneHasFilm == \A r \in Ride : st[r] = "done" => film[r]

\* A film is published only from all its parts, however often the worker was
\* stopped, crashed or cancelled while it made them.
FilmIsWhole == [][\A r \in Ride : ~film[r] /\ film'[r] => parts[r] = Clips]_spoolVars

\* A ride somebody waits for comes to an end, however the others are requested
\* and cancelled meanwhile: nobody overtakes it for ever.
RequestEnds == \A r \in Ride : st[r] \in InQueue ~> st[r] \in TERMINAL

\* ride_render.py: "worker never observes an incomplete queue item".
ItemsAreComplete == wpc = "load" => requestFile[wride]
=============================================================================
