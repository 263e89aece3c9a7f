----------------------------- MODULE RideFilms -----------------------------
(***************************************************************************)
(* Automatic rides and their films (app/auto_ride_jobs.py, auto_rides.py). *)
(* A discovery turns what the database knows of clips, dates and GPS into  *)
(* rides; a prepare job asks the NAS spool for the film of a ride; the     *)
(* monitor thread starts discoveries and copies the spool's progress into  *)
(* the index that the gallery shows.  The three threads meet in the        *)
(* database and in the spool, never in memory.  One ride is modelled.      *)
(***************************************************************************)
EXTENDS Naturals

CONSTANTS
  Inputs,      \* input signatures the ride can have
  Films,       \* signatures of films
  FilmOf,      \* the film that each input asks for
  None,        \* no ride, no film
  MaxChanges,  \* bound: changes of the inputs
  MaxVisits,   \* bound: requests of visitors
  MaxFilmTroubles  \* bound: NAS outages, cancelled jobs and restarts

ASSUME RideFilmsAssumption ==
  /\ None \notin Inputs \cup Films /\ FilmOf \in [Inputs -> Films]
  /\ MaxChanges \in Nat /\ MaxVisits \in Nat /\ MaxFilmTroubles \in Nat

VARIABLES
  inputs,      \* what the database's clips, dates and GPS amount to now
  ride,        \* input_signature of the active ride
  discovered,  \* the fingerprint that the last discovery saved, and its deferred months
  index,       \* the AutoRideRender row
  spool,       \* state.json of each film, and its file "cancel"
  queued,      \* how many jobs of each kind are queued
  looked,      \* what each caller found missing and is about to enqueue
  discovery, prepare, monitor,  \* where the three threads stand and what they have read
  spent        \* changes, requests and troubles so far

database   == <<inputs, ride, discovered, index>>
filmsVars  == <<inputs, ride, discovered, index, spool, queued, looked,
                discovery, prepare, monitor, spent>>

Waiting == {"queued", "rendering"}
States  == Waiting \cup {"not_queued", "done", "error", "cancelled"}
Kinds   == {"auto_rides_discover", "auto_ride_prepare"}
Callers == {"monitor", "job", "web"}
Thread(pcs) == [pc : pcs, input : Inputs \cup {None}, film : Films \cup {None}, state : States]
Rests   == [pc |-> "idle", input |-> None, film |-> None, state |-> "not_queued"]

FilmsTypeOK ==
  /\ {inputs, ride} \subseteq Inputs \cup {None}
  /\ discovered \in [saved : BOOLEAN, inputs : Inputs \cup {None}, deferred : BOOLEAN]
  /\ index \in [film : Films \cup {None}, input : Inputs \cup {None}, state : States]
  /\ spool \in [Films -> [state : States, cancel : BOOLEAN]]
  /\ queued \in [Kinds -> Nat] /\ looked \in [Callers -> Kinds \cup {"nothing"}]
  /\ discovery \in Thread({"idle", "reads", "matches", "commits", "defers", "cancels", "notes",
                           "requests", "ends"})
  /\ prepare \in Thread({"idle", "reads", "queues", "commits", "undoes", "notes"})
  /\ monitor \in Thread({"idle", "polls", "asks", "cancels", "notes"})
  /\ spent \in [changes : 0..MaxChanges, asks : 0..MaxVisits, troubles : 0..MaxFilmTroubles]

FilmsInit ==
  /\ inputs \in Inputs /\ ride = None
  /\ discovered = [saved |-> FALSE, inputs |-> None, deferred |-> FALSE]
  /\ index = [film |-> None, input |-> None, state |-> "not_queued"]
  /\ spool = [f \in Films |-> [state |-> "not_queued", cancel |-> FALSE]]
  /\ queued = [k \in Kinds |-> 0] /\ looked = [c \in Callers |-> "nothing"]
  /\ discovery = Rests /\ prepare = Rests /\ monitor = Rests
  /\ spent = [changes |-> 0, asks |-> 0, troubles |-> 0]

Trouble == spent.troubles < MaxFilmTroubles /\ spent' = [spent EXCEPT !.troubles = @ + 1]

-----------------------------------------------------------------------------
(* The spool, as queue_render and cancel_render leave it *)

Cancelled(f) ==
  CASE spool[f].state = "queued" -> [state |-> "cancelled", cancel |-> TRUE]
    [] spool[f].state = "rendering" -> [spool[f] EXCEPT !.cancel = TRUE]
    [] OTHER -> spool[f]
QueuedAgain(f) ==
  IF spool[f].state \in {"error", "cancelled", "not_queued"}
  THEN [state |-> "queued", cancel |-> FALSE] ELSE spool[f]

\* The worker on the other machine (RenderQueue has it in full).
Renders(f) ==
  /\ \/ spool[f].state = "queued" /\ spool' = [spool EXCEPT ![f].state = "rendering"]
     \/ /\ spool[f].state = "rendering"
        /\ \E s \in IF spool[f].cancel THEN {"cancelled", "error"} ELSE {"done", "error"} :
             spool' = [spool EXCEPT ![f].state = s]
  /\ UNCHANGED <<database, queued, looked, discovery, prepare, monitor, spent>>

-----------------------------------------------------------------------------
(* enqueue_discovery and enqueue_render: a query and an insert under _QUEUE_LOCK *)

LockFree_Never == TRUE
LockFree == \A c \in Callers : looked[c] = "nothing"

Active(kind) == \/ queued[kind] > 0
                \/ kind = "auto_rides_discover" /\ discovery.pc # "idle"
                \/ kind = "auto_ride_prepare" /\ prepare.pc # "idle"

\* A film that is indexed for the ride's inputs is left alone, unless a visitor forces it.
FilmWanted(force) ==
  /\ ride # None
  /\ index.input = ride => force /\ index.state \notin Waiting \cup {"done"}

Look(c, kind) == looked' = IF Active(kind) THEN looked ELSE [looked EXCEPT ![c] = kind]

Insert(c) ==
  /\ looked[c] # "nothing"
  /\ queued' = [queued EXCEPT ![looked[c]] = @ + 1] /\ looked' = [looked EXCEPT ![c] = "nothing"]
  /\ UNCHANGED <<database, spool, discovery, prepare, monitor, spent>>

WebAsks(kind) ==
  /\ LockFree /\ looked["web"] = "nothing"
  /\ kind = "auto_ride_prepare" => \E force \in BOOLEAN : FilmWanted(force)
  /\ ~Active(kind) /\ Look("web", kind)
  /\ spent.asks < MaxVisits /\ spent' = [spent EXCEPT !.asks = @ + 1]
  /\ UNCHANGED <<database, spool, queued, discovery, prepare, monitor>>

-----------------------------------------------------------------------------
(* handle_discovery; it and handle_prepare hold upload_semaphore *)

SemaphoreFree == discovery.pc = "idle" /\ prepare.pc = "idle"

DiscoveryBegins ==
  /\ queued["auto_rides_discover"] > 0 /\ SemaphoreFree
  /\ queued' = [queued EXCEPT !["auto_rides_discover"] = @ - 1]
  /\ discovery' = [Rests EXCEPT !.pc = "reads"]
  /\ UNCHANGED <<database, spool, looked, prepare, monitor, spent>>

\* discover reads clips and dates first ...
DiscoveryReads ==
  /\ discovery.pc = "reads"
  /\ discovery' = [discovery EXCEPT !.pc = "matches", !.input = inputs]
  /\ UNCHANGED <<database, spool, queued, looked, prepare, monitor, spent>>

\* ... and plans the rides with the GPS of each month, slowly, from the NAS.  A month that cannot
\* be read is deferred.
DiscoveryMatches ==
  /\ discovery.pc = "matches"
  /\ \/ discovery' = [discovery EXCEPT !.pc = "commits"] /\ UNCHANGED spent
     \/ discovery' = [discovery EXCEPT !.pc = "defers"] /\ Trouble
  /\ UNCHANGED <<database, spool, queued, looked, prepare, monitor>>

Outdated(r) == index.state \in Waiting /\ index.input # r

\* The rides a discovery may leave: its plans', but a deferred month keeps those whose clips
\* are the same.
Upserted(planned, deferred) ==
  IF ~deferred THEN {planned}
  ELSE IF ride = planned THEN {ride} ELSE {ride, None}

\* It writes at the end, and computes the fingerprint only then.
DiscoveryCommits ==
  LET deferred == discovery.pc = "defers" IN
  /\ discovery.pc \in {"commits", "defers"}
  /\ ride' \in Upserted(discovery.input, deferred)
  /\ discovered' = [saved |-> TRUE, inputs |-> inputs, deferred |-> deferred]
  /\ discovery' = [discovery EXCEPT
       !.pc = IF Outdated(ride') THEN "cancels" ELSE "requests",
       !.film = IF Outdated(ride') THEN index.film ELSE None]
  /\ UNCHANGED <<inputs, index, spool, queued, looked, prepare, monitor, spent>>

DiscoveryCancels ==
  LET f == discovery.film IN
  /\ discovery.pc = "cancels"
  /\ \/ /\ spool' = [spool EXCEPT ![f] = Cancelled(f)]
        /\ discovery' = [discovery EXCEPT !.pc = "notes", !.state = Cancelled(f).state]
        /\ UNCHANGED spent
     \/ Trouble /\ discovery' = [discovery EXCEPT !.pc = "requests"] /\ UNCHANGED spool
  /\ UNCHANGED <<database, queued, looked, prepare, monitor>>

SameFilm_Always(f) == index.film # None
SameFilm(f) == index.film = f

\* Every thread writes the state it has fetched only if the index still has that film.
Notes(t) == index' = IF SameFilm(t.film) THEN [index EXCEPT !.state = t.state] ELSE index

DiscoveryNotes ==
  /\ discovery.pc = "notes"
  /\ Notes(discovery) /\ discovery' = [discovery EXCEPT !.pc = "requests"]
  /\ UNCHANGED <<inputs, ride, discovered, spool, queued, looked, prepare, monitor, spent>>

DiscoveryRequests ==
  /\ discovery.pc = "requests" /\ LockFree
  /\ IF FilmWanted(FALSE) THEN Look("job", "auto_ride_prepare") ELSE UNCHANGED looked
  /\ discovery' = [discovery EXCEPT !.pc = "ends"]
  /\ UNCHANGED <<database, spool, queued, prepare, monitor, spent>>

DiscoveryEnds ==
  /\ discovery.pc = "ends" /\ looked["job"] = "nothing"
  /\ discovery' = Rests
  /\ UNCHANGED <<database, spool, queued, looked, prepare, monitor, spent>>

\* Cancelled by the user, or the database refuses.
DiscoveryStops ==
  /\ discovery.pc \in {"reads", "matches", "commits", "defers", "requests"} /\ Trouble
  /\ discovery' = Rests
  /\ UNCHANGED <<database, spool, queued, looked, prepare, monitor>>

-----------------------------------------------------------------------------
(* handle_prepare *)

PrepareBegins ==
  /\ queued["auto_ride_prepare"] > 0 /\ SemaphoreFree
  /\ queued' = [queued EXCEPT !["auto_ride_prepare"] = @ - 1]
  /\ prepare' = [Rests EXCEPT !.pc = "reads"]
  /\ UNCHANGED <<database, spool, looked, discovery, monitor, spent>>

\* ride_detail: the clips and positions the film's signature is taken of.
Detail(input) == FilmOf[input]

\* ride_clips: the ride is active and the inputs still amount to its signature.
Valid(input) == ride # None /\ ride = input /\ inputs = input

PrepareReads ==
  /\ prepare.pc = "reads"
  /\ prepare' = IF Valid(ride)
                THEN [prepare EXCEPT !.pc = "queues", !.input = ride, !.film = Detail(ride)]
                ELSE Rests
  /\ UNCHANGED <<database, spool, queued, looked, discovery, monitor, spent>>

PrepareQueues ==
  LET f == prepare.film IN
  /\ prepare.pc = "queues"
  /\ spool' = [spool EXCEPT ![f] = QueuedAgain(f)]
  /\ prepare' = [prepare EXCEPT !.pc = "commits", !.state = QueuedAgain(f).state]
  /\ UNCHANGED <<database, queued, looked, discovery, monitor, spent>>

\* The inputs may have changed while the NAS was written.
PrepareCommits ==
  /\ prepare.pc = "commits"
  /\ IF Valid(prepare.input)
     THEN /\ index' = [film |-> prepare.film, input |-> prepare.input, state |-> prepare.state]
          /\ prepare' = Rests
     ELSE UNCHANGED index /\ prepare' = [prepare EXCEPT !.pc = "undoes"]
  /\ UNCHANGED <<inputs, ride, discovered, spool, queued, looked, discovery, monitor, spent>>

PrepareUndoes ==
  LET f == prepare.film IN
  /\ prepare.pc = "undoes"
  /\ spool' = [spool EXCEPT ![f] = Cancelled(f)]
  /\ prepare' = [prepare EXCEPT !.pc = "notes", !.state = Cancelled(f).state]
  /\ UNCHANGED <<database, queued, looked, discovery, monitor, spent>>

PrepareNotes ==
  /\ prepare.pc = "notes"
  /\ Notes(prepare) /\ prepare' = Rests
  /\ UNCHANGED <<inputs, ride, discovered, spool, queued, looked, discovery, monitor, spent>>

\* The user cancels before the request or after it, or the NAS is away.
PrepareStops ==
  /\ prepare.pc \in {"reads", "queues", "commits", "undoes"} /\ Trouble
  /\ \/ prepare' = Rests
     \/ prepare.pc = "commits" /\ prepare' = [prepare EXCEPT !.pc = "undoes"]
  /\ UNCHANGED <<database, spool, queued, looked, discovery, monitor>>

-----------------------------------------------------------------------------
(* AutoRideMonitor.tick *)

Changed == ~discovered.saved \/ discovered.deferred \/ discovered.inputs # inputs

MonitorChecks ==
  /\ monitor.pc = "idle" /\ looked["monitor"] = "nothing"
  /\ \/ Changed /\ LockFree /\ Look("monitor", "auto_rides_discover")
     \/ UNCHANGED looked        \* nothing has changed, or the next check of the inputs is not due
  /\ monitor' = [Rests EXCEPT !.pc = "polls"]
  /\ UNCHANGED <<database, spool, queued, discovery, prepare, spent>>

\* "Retry cancellations after a NAS outage even if inputs have not changed".
Asks_Progress == "asks"
Asks == IF index.input # ride THEN "cancels" ELSE "asks"

MonitorPolls ==
  /\ monitor.pc = "polls" /\ looked["monitor"] = "nothing"
  /\ monitor' = IF index.state \in Waiting THEN [Rests EXCEPT !.pc = Asks, !.film = index.film]
                ELSE Rests
  /\ UNCHANGED <<database, spool, queued, looked, discovery, prepare, spent>>

MonitorAsks ==
  LET f == monitor.film
      s == IF monitor.pc = "cancels" THEN Cancelled(f) ELSE spool[f] IN
  /\ monitor.pc \in {"asks", "cancels"}
  /\ spool' = [spool EXCEPT ![f] = s]
  /\ monitor' = [monitor EXCEPT !.pc = "notes", !.state = s.state]
  /\ UNCHANGED <<database, queued, looked, discovery, prepare, spent>>

MonitorNotes ==
  /\ monitor.pc = "notes"
  /\ Notes(monitor) /\ monitor' = Rests
  /\ UNCHANGED <<inputs, ride, discovered, spool, queued, looked, discovery, prepare, spent>>

\* "A storage interruption must not overwrite known progress."
MonitorSkips ==
  /\ monitor.pc \in {"asks", "cancels"} /\ Trouble
  /\ monitor' = Rests
  /\ UNCHANGED <<database, spool, queued, looked, discovery, prepare>>

-----------------------------------------------------------------------------
InputsChange ==
  /\ spent.changes < MaxChanges /\ spent' = [spent EXCEPT !.changes = @ + 1]
  /\ inputs' \in (Inputs \cup {None}) \ {inputs}
  /\ UNCHANGED <<ride, discovered, index, spool, queued, looked, discovery, prepare, monitor>>

\* The job manager requeues what was running (JobQueue).
Restart ==
  /\ Trouble
  /\ queued' = [queued EXCEPT
       !["auto_rides_discover"] = @ + IF discovery.pc # "idle" THEN 1 ELSE 0,
       !["auto_ride_prepare"] = @ + IF prepare.pc # "idle" THEN 1 ELSE 0]
  /\ looked' = [c \in Callers |-> "nothing"]
  /\ discovery' = Rests /\ prepare' = Rests /\ monitor' = Rests
  /\ UNCHANGED <<database, spool>>

DiscoveryStep == DiscoveryBegins \/ DiscoveryReads \/ DiscoveryMatches \/ DiscoveryCommits \/ DiscoveryCancels
                 \/ DiscoveryNotes \/ DiscoveryRequests \/ DiscoveryEnds
PrepareStep == PrepareBegins \/ PrepareReads \/ PrepareQueues \/ PrepareCommits
               \/ PrepareUndoes \/ PrepareNotes
MonitorStep == MonitorChecks \/ MonitorPolls \/ MonitorAsks \/ MonitorNotes

FilmsNext ==
  \/ DiscoveryStep \/ DiscoveryStops \/ PrepareStep \/ PrepareStops \/ MonitorStep \/ MonitorSkips
  \/ \E c \in Callers : Insert(c)
  \/ \E kind \in Kinds : WebAsks(kind)
  \/ \E f \in Films : Renders(f)
  \/ InputsChange \/ Restart

\* The monitor's thread and the workers go on; the machine that renders may be off.
FilmsFairness ==
  /\ WF_filmsVars(DiscoveryStep) /\ WF_filmsVars(PrepareStep) /\ WF_filmsVars(MonitorStep)
  /\ \A c \in Callers : WF_filmsVars(Insert(c))

FilmsSpec == FilmsInit /\ [][FilmsNext]_filmsVars /\ FilmsFairness

-----------------------------------------------------------------------------
(* Properties *)

\* The gallery offers a film only when the spool has finished the film of the ride's present
\* inputs, however late a thread writes the progress it fetched (index.signature == signature).
ShownFilmIsMade ==
  ride # None /\ index.input = ride /\ index.state = "done" =>
    index.film = FilmOf[ride] /\ spool[index.film].state = "done"

\* A discovery or a film is enqueued only when none of its kind is active, whoever asks at the
\* same time: what a caller's query found still holds at its insert (_QUEUE_LOCK around both).
EnqueuesOnce == \A c \in Callers, kind \in Kinds : looked[c] = kind => ~Active(kind)

\* A film of outdated inputs does not stay queued: a discovery or, after a NAS outage, the
\* monitor cancels it, unless the ride returns to those inputs (the comment in tick).
OutdatedFilmIsStopped ==
  (index.input # ride /\ index.state \in Waiting) ~>
    (index.input = ride \/ index.state \notin Waiting \/ spool[index.film].cancel)
=============================================================================
