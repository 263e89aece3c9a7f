----------------------------- MODULE TripMovies -----------------------------
(***************************************************************************)
(* Making a movie of a day's recordings on the NAS (app/workflow.py and    *)
(* app/merge.py), beside other jobs that take the process's slots: one     *)
(* ffmpeg, one NAS transfer (upload_semaphore), one location job.  Other   *)
(* clients of the NAS may change a clip at any time.                       *)
(***************************************************************************)
EXTENDS Naturals, Sequences, FiniteSets

CONSTANTS
  Workers,         \* threads of the job manager
  MovieClips,      \* the recordings of the day
  MaxCaptures,     \* bound: capture times that the recordings get in turn
  MaxClipChanges,  \* bound: changes of the clips on the NAS
  MaxMovieTroubles \* bound: errors, cancelled jobs and restarts

ASSUME TripMoviesAssumption ==
  /\ IsFiniteSet(Workers) /\ MaxCaptures \in Nat \ {0}
  /\ MaxClipChanges \in Nat /\ MaxMovieTroubles \in Nat

VARIABLES
  clipFile,   \* per clip: is its file there, its content, its change time
  capture,    \* the capture times in the database, as their manifest tells them
  tripJob,    \* per manifest: the trip job
  trip,       \* where the trip job that has its slots stands
  movieFile,  \* per manifest: the movie on the NAS, "none", or what it was made of
  movieRow,   \* per manifest: there is a TripMovie row
  running,    \* per worker: its job, the manifest if it is a trip, how many of its slots it has
  movieTally  \* changes and troubles so far

movieVars == <<clipFile, capture, tripJob, trip, movieFile, movieRow, running, movieTally>>

Manifests == 1..MaxCaptures
NoTrip == [pc |-> "idle", before |-> <<>>, sound |-> FALSE]

\* Against the import: the same bytes; the same size and the same 4 MiB at either end, with other
\* bytes in the middle; or neither.
ClipContents == {"imported", "alike", "other"}
Resting == [kind |-> "none", manifest |-> 1, slots |-> 0]

\* A kind for every order in which a handler takes slots: date_correction, date_metadata and
\* prepare_covers take them as trip does, verification and discovery as upload does. In the fault
\* a trip takes its slots the other way round.
Needs_Swapped(kind) ==
  CASE kind = "trip" -> <<"upload", "ffmpeg">>
    [] kind = "roadtrip_probe" -> <<"location", "ffmpeg", "upload">>
    [] kind = "roadtrip_import_ha" -> <<"location">>
    [] kind = "upload" -> <<"upload">>
    [] kind = "thumbnail" -> <<"ffmpeg">>
    [] kind = "none" -> <<>>
Needs(kind) ==
  CASE kind = "trip" -> <<"ffmpeg", "upload">>
    [] kind = "roadtrip_probe" -> <<"location", "ffmpeg", "upload">>
    [] kind = "roadtrip_import_ha" -> <<"location">>
    [] kind = "upload" -> <<"upload">>
    [] kind = "thumbnail" -> <<"ffmpeg">>
    [] kind = "none" -> <<>>
JobKinds == {"trip", "roadtrip_probe", "roadtrip_import_ha", "upload", "thumbnail"}

Held(w)    == {Needs(running[w].kind)[i] : i \in 1..running[w].slots}
Equipped(w) == running[w].slots = Len(Needs(running[w].kind))
Awaited(w) == IF Equipped(w) THEN {} ELSE {Needs(running[w].kind)[running[w].slots + 1]}
MakesMovie(w) == running[w].kind = "trip" /\ Equipped(w)

MovieTypeOK ==
  /\ clipFile \in [MovieClips -> [there : BOOLEAN, content : ClipContents, changed : 0..MaxClipChanges]]
  /\ capture \in Manifests
  /\ tripJob \in [Manifests -> {"none", "queued", "running", "done", "error"}]
  /\ trip.pc \in {"idle", "fingerprints", "checked", "merged", "published"}
  /\ movieFile \in [Manifests -> {"none", "sound", "spoilt"}] /\ movieRow \in [Manifests -> BOOLEAN]
  /\ running \in [Workers -> [kind : JobKinds \cup {"none"}, manifest : Manifests, slots : 0..3]]
  /\ movieTally \in [changes : 0..MaxClipChanges, troubles : 0..MaxMovieTroubles]

MovieInit ==
  /\ clipFile = [c \in MovieClips |-> [there |-> TRUE, content |-> "imported", changed |-> 0]]
  /\ capture = 1 /\ tripJob = [m \in Manifests |-> "none"] /\ trip = NoTrip
  /\ movieFile = [m \in Manifests |-> "none"] /\ movieRow = [m \in Manifests |-> FALSE]
  /\ running = [w \in Workers |-> Resting]
  /\ movieTally = [changes |-> 0, troubles |-> 0]

MovieTrouble == /\ movieTally.troubles < MaxMovieTroubles
                /\ movieTally' = [movieTally EXCEPT !.troubles = @ + 1]

Available == \A c \in MovieClips : clipFile[c].there
\* _fingerprint: a client that writes a clip or puts another file in its place changes it.
Stamps    == [c \in MovieClips |-> clipFile[c].changed]

\* The size and media.checksum, which reads the two ends of a file: all that a trip compares
\* (UploadLedger has the same function as Looks).
LooksImported(c) == clipFile[c].content # "other"

-----------------------------------------------------------------------------
(* queue_trip, and the slots of the job manager *)

QueueTrip ==
  /\ Available /\ tripJob[capture] \notin {"queued", "running"}
  /\ tripJob' = [tripJob EXCEPT ![capture] = "queued"]
  /\ UNCHANGED <<clipFile, capture, trip, movieFile, movieRow, running, movieTally>>

StartTrip(w, m) ==
  /\ running[w] = Resting /\ tripJob[m] = "queued"
  /\ running' = [running EXCEPT ![w].kind = "trip", ![w].manifest = m]
  /\ tripJob' = [tripJob EXCEPT ![m] = "running"]
  /\ UNCHANGED <<clipFile, capture, trip, movieFile, movieRow, movieTally>>

\* The claim keeps the location jobs apart only as a rule (JobQueueAudits): their lock has to.
StartOther(w, kind) ==
  /\ running[w] = Resting /\ kind \in JobKinds \ {"trip"}
  /\ running' = [running EXCEPT ![w].kind = kind]
  /\ UNCHANGED <<clipFile, capture, tripJob, trip, movieFile, movieRow, movieTally>>

TakeSlot(w) ==
  /\ Awaited(w) # {} /\ \A v \in Workers : Awaited(w) \cap Held(v) = {}
  /\ running' = [running EXCEPT ![w].slots = @ + 1]
  /\ UNCHANGED <<clipFile, capture, tripJob, trip, movieFile, movieRow, movieTally>>

OtherEnds(w) ==
  /\ running[w].kind \notin {"none", "trip"} /\ Equipped(w)
  /\ running' = [running EXCEPT ![w] = Resting]
  /\ UNCHANGED <<clipFile, capture, tripJob, trip, movieFile, movieRow, movieTally>>

-----------------------------------------------------------------------------
(* handle_trip *)

TripEnds(w, result) ==
  /\ tripJob' = [tripJob EXCEPT ![running[w].manifest] = result]
  /\ running' = [running EXCEPT ![w] = Resting]
  /\ trip' = IF MakesMovie(w) THEN NoTrip ELSE trip

\* "Trip inputs changed; refresh recording days and create again"
TripBegins(w) ==
  /\ MakesMovie(w) /\ trip.pc = "idle" /\ capture = running[w].manifest /\ Available
  /\ trip' = [trip EXCEPT !.pc = "fingerprints", !.before = Stamps]
  /\ UNCHANGED <<clipFile, capture, tripJob, movieFile, movieRow, running, movieTally>>

TripChecks(w) ==
  /\ MakesMovie(w) /\ trip.pc = "fingerprints"
  /\ Available /\ \A c \in MovieClips : LooksImported(c)
  /\ trip' = [trip EXCEPT !.pc = "checked"]
  /\ UNCHANGED <<clipFile, capture, tripJob, movieFile, movieRow, running, movieTally>>

\* merge_clips into the scratch directory: of the clips that had the first fingerprints and that
\* look like the imported ones, or of anything else.
TripMerges(w) ==
  /\ MakesMovie(w) /\ trip.pc = "checked" /\ Available
  /\ trip' = [trip EXCEPT !.pc = "merged",
                             !.sound = Stamps = trip.before /\ \A c \in MovieClips : LooksImported(c)]
  /\ UNCHANGED <<clipFile, capture, tripJob, movieFile, movieRow, running, movieTally>>

Unaltered_Assumed == TRUE
\* "A source clip changed during the merge; movie was not published"
Unaltered == Available /\ Stamps = trip.before

TripPublishes(w) ==
  /\ MakesMovie(w) /\ trip.pc = "merged" /\ Unaltered
  /\ movieFile' = [movieFile EXCEPT ![running[w].manifest] = IF trip.sound THEN "sound" ELSE "spoilt"]
  /\ trip' = [trip EXCEPT !.pc = "published"]
  /\ UNCHANGED <<clipFile, capture, tripJob, movieRow, running, movieTally>>

TripRecords(w) ==
  /\ MakesMovie(w) /\ trip.pc = "published"
  /\ movieRow' = [movieRow EXCEPT ![running[w].manifest] = TRUE]
  /\ TripEnds(w, "done")
  /\ UNCHANGED <<clipFile, capture, movieFile, movieTally>>

\* A check that fails, once the slots are there, ends the job.
TripRefuses(w) ==
  /\ MakesMovie(w)
  /\ \/ trip.pc = "idle" /\ capture # running[w].manifest
     \/ trip.pc \in {"idle", "fingerprints", "checked"} /\ ~Available
     \/ trip.pc = "fingerprints" /\ \E c \in MovieClips : ~LooksImported(c)
     \/ trip.pc = "merged" /\ ~Unaltered
  /\ TripEnds(w, "error")
  /\ UNCHANGED <<clipFile, capture, movieFile, movieRow, movieTally>>

\* ffmpeg or the NAS fails, or the job is cancelled, wherever it stands.
TripFails(w) ==
  /\ running[w].kind = "trip" /\ MovieTrouble
  /\ TripEnds(w, "error")
  /\ UNCHANGED <<clipFile, capture, movieFile, movieRow>>

\* The process restarts: the trip's job is queued again.
MovieRestart ==
  /\ MovieTrouble
  /\ running' = [w \in Workers |-> Resting] /\ trip' = NoTrip
  /\ tripJob' = [m \in Manifests |-> IF tripJob[m] = "running" THEN "queued" ELSE tripJob[m]]
  /\ UNCHANGED <<clipFile, capture, movieFile, movieRow>>

-----------------------------------------------------------------------------
(* Other clients of the NAS, and corrections of capture times *)

ChangeClip(c, there, content) ==
  /\ movieTally.changes < MaxClipChanges
  /\ movieTally' = [movieTally EXCEPT !.changes = @ + 1]
  /\ clipFile' = [clipFile EXCEPT ![c] = [there |-> there, content |-> content, changed |-> @.changed + 1]]
  /\ UNCHANGED <<capture, tripJob, trip, movieFile, movieRow, running>>

Recapture ==
  /\ capture + 1 \in Manifests /\ capture' = capture + 1
  /\ UNCHANGED <<clipFile, tripJob, trip, movieFile, movieRow, running, movieTally>>

TripStep(w) == \/ TripBegins(w) \/ TripChecks(w) \/ TripMerges(w) \/ TripPublishes(w)
               \/ TripRecords(w) \/ TripRefuses(w)

MovieNext ==
  \/ QueueTrip \/ Recapture \/ MovieRestart
  \/ \E w \in Workers : \/ TakeSlot(w) \/ OtherEnds(w) \/ TripStep(w) \/ TripFails(w)
                        \/ \E m \in Manifests : StartTrip(w, m)
                        \/ \E kind \in JobKinds : StartOther(w, kind)
  \/ \E c \in MovieClips, there \in BOOLEAN, content \in ClipContents : ChangeClip(c, there, content)

MovieSpec == MovieInit /\ [][MovieNext]_movieVars

-----------------------------------------------------------------------------
(* Properties *)

\* A movie that the gallery shows was made of the very state of the clips that handle_trip had
\* fingerprinted before it, whatever another client did to them meanwhile, and in that state each
\* clip had the size and the two ends of the recording that was imported. That is as far as the
\* checksum tells: a clip whose middle had other bytes before goes into a movie unnoticed.
MovieIsOfItsClips == \A m \in Manifests : movieRow[m] => movieFile[m] = "sound"

\* Jobs that wait for each other's slots, in a circle of any length, would wait for ever: among the
\* jobs that have begun one has its slots or can take the next one ("Match trip lock order (ffmpeg
\* then upload) to avoid opposite-order deadlocks").
Busy(w) == running[w].kind # "none"
SlotsNeverDeadlock ==
  (\E w \in Workers : Busy(w)) =>
    \E w \in Workers : Busy(w) /\ (Equipped(w) \/ \A v \in Workers : Awaited(w) \cap Held(v) = {})
=============================================================================
