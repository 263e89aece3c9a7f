---------------------------- MODULE Movies_proofs ----------------------------
(***************************************************************************)
(* Theorems of what is made of recordings: trip movies on the NAS beside   *)
(* the other jobs that need the server's slots (TripMovies), the films of  *)
(* automatic rides as the server sees them (RideFilms), and the spool that *)
(* the server and the render worker share (RenderQueue).                   *)
(***************************************************************************)
EXTENDS TripMovies, RideFilms, RenderQueue, TLAPS

(***************************************************************************)
(* TripMovies, its slots: every job takes them in the order of SlotRank,   *)
(* and one job has each.                                                   *)
(***************************************************************************)

SlotNames == {"location", "ffmpeg", "upload"}
SlotRank(slot) == CASE slot = "location" -> 1 [] slot = "ffmpeg" -> 2 [] slot = "upload" -> 3

SlotsInv ==
  /\ running \in [Workers -> [kind : JobKinds \cup {"none"}, manifest : Manifests, slots : 0..3]]
  /\ \A w \in Workers : running[w].slots <= Len(Needs(running[w].kind))
  /\ \A w, v \in Workers : w # v => Held(w) \cap Held(v) = {}

\* The table of slots, entry by entry.
LEMMA NeedsTable ==
  /\ Len(Needs("trip")) = 2 /\ Needs("trip")[1] = "ffmpeg" /\ Needs("trip")[2] = "upload"
  /\ Len(Needs("roadtrip_probe")) = 3 /\ Needs("roadtrip_probe")[1] = "location"
     /\ Needs("roadtrip_probe")[2] = "ffmpeg" /\ Needs("roadtrip_probe")[3] = "upload"
  /\ Len(Needs("roadtrip_import_ha")) = 1 /\ Needs("roadtrip_import_ha")[1] = "location"
  /\ Len(Needs("upload")) = 1 /\ Needs("upload")[1] = "upload"
  /\ Len(Needs("thumbnail")) = 1 /\ Needs("thumbnail")[1] = "ffmpeg"
  /\ Len(Needs("none")) = 0
  BY DEF Needs

LEMMA NeedsInOrder ==
  ASSUME NEW kind \in JobKinds \cup {"none"}
  PROVE  /\ Len(Needs(kind)) \in 0..3
         /\ \A i \in 1..Len(Needs(kind)) : Needs(kind)[i] \in SlotNames
         /\ \A i, j \in 1..Len(Needs(kind)) : i < j => SlotRank(Needs(kind)[i]) < SlotRank(Needs(kind)[j])
  BY NeedsTable DEF JobKinds, SlotNames, SlotRank

\* A job waits for a slot that comes after all it has.
LEMMA WaitsForHigher ==
  ASSUME SlotsInv, NEW w \in Workers, ~Equipped(w)
  PROVE  \E s \in SlotNames : Awaited(w) = {s} /\ \A t \in Held(w) : SlotRank(t) < SlotRank(s)
<1> DEFINE kind == running[w].kind
           n == running[w].slots
<1>1. kind \in JobKinds \cup {"none"} /\ n \in 0..3 /\ n <= Len(Needs(kind)) /\ n # Len(Needs(kind))
  BY DEF SlotsInv, Equipped
<1>2. n + 1 \in 1..Len(Needs(kind)) /\ \A i \in 1..n : i \in 1..Len(Needs(kind)) /\ i < n + 1
  BY <1>1, NeedsInOrder
<1>3. Awaited(w) = {Needs(kind)[n + 1]}
  BY DEF Awaited
<1>4. Held(w) = {Needs(kind)[i] : i \in 1..n}
  BY DEF Held
<1> HIDE DEF kind, n
<1>5. QED
  BY <1>1, <1>2, <1>3, <1>4, NeedsInOrder

LEMMA HoldersAreBusy ==
  ASSUME SlotsInv, NEW w \in Workers, Held(w) # {}
  PROVE  Busy(w)
  BY NeedsTable DEF SlotsInv, Held, Busy

LEMMA NobodyLeftWaiting == SlotsInv => SlotsNeverDeadlock
<1> SUFFICES ASSUME SlotsInv, NEW w0 \in Workers, Busy(w0),
                    \A w \in Workers : Busy(w) => ~Equipped(w) /\ \E v \in Workers : Awaited(w) \cap Held(v) # {}
             PROVE  FALSE
  BY DEF SlotsNeverDeadlock
<1>1. ASSUME NEW w \in Workers, NEW s, Busy(w), Awaited(w) = {s}
      PROVE  \E v \in Workers, t \in SlotNames : Busy(v) /\ Awaited(v) = {t} /\ SlotRank(s) < SlotRank(t)
  <2>1. PICK v \in Workers : s \in Held(v)
    BY <1>1
  <2>2. Busy(v)
    BY <2>1, HoldersAreBusy
  <2>3. QED
    BY <2>1, <2>2, WaitsForHigher
<1>2. \A s \in SlotNames : SlotRank(s) \in 1..3
  BY DEF SlotNames, SlotRank
<1>3. PICK s0 \in SlotNames : Awaited(w0) = {s0}
  BY WaitsForHigher
<1>4. PICK w1 \in Workers, s1 \in SlotNames : Busy(w1) /\ Awaited(w1) = {s1} /\ SlotRank(s0) < SlotRank(s1)
  BY <1>1, <1>3
<1>5. PICK w2 \in Workers, s2 \in SlotNames : Busy(w2) /\ Awaited(w2) = {s2} /\ SlotRank(s1) < SlotRank(s2)
  BY <1>1, <1>4
<1>6. PICK w3 \in Workers, s3 \in SlotNames : Busy(w3) /\ Awaited(w3) = {s3} /\ SlotRank(s2) < SlotRank(s3)
  BY <1>1, <1>5
<1>7. QED
  BY <1>2, <1>4, <1>5, <1>6

(***************************************************************************)
(* One job at a time makes a movie, and publishes only what it has made of *)
(* recordings that were unchanged from its first look to its last.         *)
(***************************************************************************)

ClipsUnchanged == \A c \in MovieClips : clipFile[c].changed = trip.before[c]
AllLookImported == \A c \in MovieClips : LooksImported(c)

TripFields == trip = [pc |-> trip.pc, before |-> trip.before, sound |-> trip.sound]

MovieInv ==
  /\ MovieTypeOK /\ SlotsInv /\ TripFields
  /\ \A c \in MovieClips : clipFile[c].changed <= movieTally.changes
  /\ trip.pc # "idle" => /\ \E w \in Workers : MakesMovie(w)
                         /\ trip.before \in [MovieClips -> Nat]
                         /\ \A c \in MovieClips : trip.before[c] <= clipFile[c].changed
  /\ trip.pc \in {"checked", "merged"} /\ ClipsUnchanged => AllLookImported
  /\ trip.pc = "merged" /\ ClipsUnchanged => trip.sound
  /\ \A w \in Workers : trip.pc = "published" /\ MakesMovie(w) => movieFile[running[w].manifest] = "sound"
  /\ \A m \in Manifests : movieFile[m] # "spoilt"
  /\ MovieIsOfItsClips

OneMovie == \A w, v \in Workers : MakesMovie(w) /\ MakesMovie(v) => w = v

LEMMA OneMovieAtATime == SlotsInv => OneMovie
<1>1. ASSUME NEW u \in Workers, MakesMovie(u) PROVE "upload" \in Held(u)
  <2>1. running[u].slots = 2 /\ Needs(running[u].kind)[2] = "upload"
    BY <1>1, NeedsTable DEF MakesMovie, Equipped
  <2>2. QED
    BY <2>1 DEF Held
<1>2. QED
  BY <1>1 DEF SlotsInv, OneMovie

\* A worker's job changes without taking a slot: it has begun or ended.
LEMMA JobChanges ==
  ASSUME SlotsInv, NEW w \in Workers,
         NEW m \in [kind : JobKinds \cup {"none"}, manifest : Manifests, slots : 0..3],
         running' = [running EXCEPT ![w] = m], m.slots = 0
  PROVE  /\ SlotsInv'
         /\ \A v \in Workers : running'[v] = (IF v = w THEN m ELSE running[v])
         /\ \A v \in Workers : MakesMovie(v)' => v # w /\ MakesMovie(v)
<1>1. \A v \in Workers : running'[v] = (IF v = w THEN m ELSE running[v])
  BY DEF SlotsInv
<1>2. \A v \in Workers : v # w => Held(v)' = Held(v)
  BY <1>1 DEF Held
<1>3. Held(w)' = {}
  BY <1>1 DEF Held
<1>4. Len(Needs(m.kind)) \in 0..3
  BY NeedsInOrder
<1>5. SlotsInv'
  BY <1>1, <1>2, <1>3, <1>4 DEF SlotsInv
<1>6. ~MakesMovie(w)'
  BY <1>1, NeedsTable DEF MakesMovie, Equipped
<1>7. \A v \in Workers : v # w => (MakesMovie(v)' <=> MakesMovie(v))
  BY <1>1 DEF MakesMovie, Equipped
<1>8. QED
  BY <1>1, <1>5, <1>6, <1>7

LEMMA SlotTaken ==
  ASSUME SlotsInv, NEW w \in Workers, TakeSlot(w)
  PROVE  /\ SlotsInv' /\ \A v \in Workers : running'[v].manifest = running[v].manifest
         /\ \A v \in Workers : MakesMovie(v) => MakesMovie(v)'
<1> DEFINE kind == running[w].kind
           n == running[w].slots
           m == [running[w] EXCEPT !.slots = @ + 1]
<1>0. running[w] \in [kind : JobKinds \cup {"none"}, manifest : Manifests, slots : 0..3]
  BY DEF SlotsInv
<1>1. kind \in JobKinds \cup {"none"} /\ n \in 0..3 /\ n <= Len(Needs(kind)) /\ n # Len(Needs(kind))
  BY <1>0 DEF SlotsInv, TakeSlot, Awaited, Equipped
<1>2. n + 1 \in 1..3 /\ n + 1 <= Len(Needs(kind))
  BY <1>1, NeedsInOrder
<1>3. /\ m \in [kind : JobKinds \cup {"none"}, manifest : Manifests, slots : 0..3]
      /\ m.kind = kind /\ m.manifest = running[w].manifest /\ m.slots = n + 1
  BY <1>0, <1>2
<1>4. running' = [running EXCEPT ![w] = m]
  BY DEF TakeSlot
<1>5. Held(w) = {Needs(kind)[i] : i \in 1..n} /\ Awaited(w) = {Needs(kind)[n + 1]}
  BY <1>1 DEF Held, Awaited, Equipped
<1>6. \A v \in Workers : Awaited(w) \cap Held(v) = {}
  BY DEF TakeSlot
<1> HIDE DEF m, kind, n
<1>7. \A v \in Workers : running'[v] = (IF v = w THEN m ELSE running[v])
  BY <1>4 DEF SlotsInv
<1>8. \A v \in Workers : v # w => Held(v)' = Held(v)
  BY <1>7 DEF Held
<1>9. Held(w)' = Held(w) \cup Awaited(w)
  <2>1. Held(w)' = {Needs(kind)[i] : i \in 1..(n + 1)}
    BY <1>3, <1>7 DEF Held
  <2>2. 1..(n + 1) = (1..n) \cup {n + 1}
    BY <1>1
  <2>3. QED
    BY <1>5, <2>1, <2>2
<1>10. running' \in [Workers -> [kind : JobKinds \cup {"none"}, manifest : Manifests, slots : 0..3]]
  BY <1>3, <1>4 DEF SlotsInv
<1>11. \A v \in Workers : running'[v].slots <= Len(Needs(running'[v].kind))
  BY <1>2, <1>3, <1>7 DEF SlotsInv
<1>12. SlotsInv'
  BY <1>6, <1>8, <1>9, <1>10, <1>11 DEF SlotsInv
<1>13. ~MakesMovie(w)
  BY <1>1 DEF MakesMovie, Equipped, kind, n
<1>14. \A v \in Workers : MakesMovie(v) => MakesMovie(v)'
  BY <1>7, <1>13 DEF MakesMovie, Equipped
<1>15. QED
  BY <1>3, <1>7, <1>12, <1>14

LEMMA MovieTallyStep ==
  ASSUME MovieInv
  PROVE  LET T == [changes : 0..MaxClipChanges, troubles : 0..MaxMovieTroubles]
         IN  /\ MovieTrouble => movieTally' \in T /\ movieTally'.changes = movieTally.changes
             /\ movieTally.changes < MaxClipChanges =>
                  [movieTally EXCEPT !.changes = @ + 1] \in T /\ movieTally.changes \in Nat
             /\ movieTally \in T
  BY TripMoviesAssumption DEF TripMoviesAssumption, MovieTrouble, MovieInv, MovieTypeOK

LEMMA MovieInvInit == MovieInit => MovieInv
<1> SUFFICES ASSUME MovieInit PROVE MovieInv
  OBVIOUS
<1>1. 1 \in Manifests /\ 0 \in 0..MaxClipChanges /\ 0 \in 0..MaxMovieTroubles
  BY TripMoviesAssumption DEF TripMoviesAssumption, Manifests
<1>2. MovieTypeOK
  BY <1>1 DEF MovieInit, MovieTypeOK, NoTrip, Resting, ClipContents
<1>3. SlotsInv
  BY <1>1, NeedsTable DEF MovieInit, SlotsInv, Resting, Held
<1>4. QED
  BY <1>2, <1>3 DEF MovieInit, MovieInv, MovieIsOfItsClips, NoTrip, TripFields

LEMMA MovieInvStep == MovieInv /\ [MovieNext]_movieVars => MovieInv'
<1> SUFFICES ASSUME MovieInv, [MovieNext]_movieVars PROVE MovieInv'
  OBVIOUS
<1> USE DEF movieVars
<1>a. 1 \in Manifests /\ capture \in Manifests
  BY TripMoviesAssumption DEF TripMoviesAssumption, Manifests, MovieInv, MovieTypeOK
\* Steps of jobs that leave the trip, the clips and the movies alone.
<1>b. ASSUME UNCHANGED <<clipFile, trip, movieFile, movieRow>>, capture' \in Manifests,
             tripJob' \in [Manifests -> {"none", "queued", "running", "done", "error"}],
             movieTally' \in [changes : 0..MaxClipChanges, troubles : 0..MaxMovieTroubles],
             movieTally'.changes = movieTally.changes, SlotsInv',
             \A w \in Workers : running'[w].manifest = running[w].manifest \/ ~MakesMovie(w),
             \A w \in Workers : MakesMovie(w) => MakesMovie(w)'
      PROVE  MovieInv'
  <2>0. SlotsInv' => OneMovie'
    BY OneMovieAtATime, PTL
  <2>1. ASSUME NEW w \in Workers, trip.pc = "published", MakesMovie(w)' PROVE movieFile[running'[w].manifest] = "sound"
    <3>1. PICK v \in Workers : MakesMovie(v)
      BY <2>1 DEF MovieInv
    <3>2. v = w
      BY <1>b, <2>0, <2>1, <3>1 DEF OneMovie
    <3>3. QED
      BY <1>b, <2>1, <3>1, <3>2 DEF MovieInv
  <2>2. MovieTypeOK'
    BY <1>b DEF MovieInv, MovieTypeOK, SlotsInv
  <2>3. trip'.pc # "idle" => \E w \in Workers : MakesMovie(w)'
    BY <1>b DEF MovieInv
  <2>4. QED
    BY <1>b, <2>1, <2>2, <2>3 DEF MovieInv, MovieIsOfItsClips, ClipsUnchanged, AllLookImported, LooksImported,
         TripFields
\* The jobs are the same ones, and stand where they stood.
<1>c. ASSUME UNCHANGED running
      PROVE  SlotsInv' /\ \A w \in Workers : running'[w].manifest = running[w].manifest /\ (MakesMovie(w)' <=> MakesMovie(w))
  <2>1. \A w \in Workers : Held(w)' = Held(w) /\ (MakesMovie(w)' <=> MakesMovie(w))
    BY <1>c DEF Held, MakesMovie, Equipped
  <2>2. SlotsInv
    BY DEF MovieInv
  <2>3. QED
    BY <1>c, <2>1, <2>2 DEF SlotsInv
<1>d. ASSUME NEW w \in Workers, NEW m \in [kind : JobKinds \cup {"none"}, manifest : Manifests, slots : 0..3],
             ~MakesMovie(w), m.slots = 0, running' = [running EXCEPT ![w] = m]
      PROVE  /\ SlotsInv'
             /\ \A v \in Workers : running'[v].manifest = running[v].manifest \/ ~MakesMovie(v)
             /\ \A v \in Workers : MakesMovie(v) => MakesMovie(v)'
  <2>0. SlotsInv
    BY DEF MovieInv
  <2>1. SlotsInv' /\ \A v \in Workers : running'[v] = (IF v = w THEN m ELSE running[v])
    BY <1>d, <2>0, JobChanges
  <2>2. QED
    BY <1>d, <2>1 DEF MakesMovie, Equipped
<1>e. Resting \in [kind : JobKinds \cup {"none"}, manifest : Manifests, slots : 0..3] /\ Resting.slots = 0
      /\ \A w \in Workers : running[w] = Resting => ~MakesMovie(w)
  BY <1>a DEF Resting, MakesMovie
<1>f. movieTally \in [changes : 0..MaxClipChanges, troubles : 0..MaxMovieTroubles]
  BY MovieTallyStep
<1>1. CASE QueueTrip
  BY <1>1, <1>a, <1>b, <1>c, <1>f DEF QueueTrip, MovieInv, MovieTypeOK
<1>2. CASE Recapture
  BY <1>2, <1>b, <1>c, <1>f DEF Recapture, MovieInv, MovieTypeOK
<1>3. ASSUME NEW w \in Workers, NEW m \in Manifests, StartTrip(w, m) PROVE MovieInv'
  <2> DEFINE job == [running[w] EXCEPT !.kind = "trip", !.manifest = m]
  <2>1. job \in [kind : JobKinds \cup {"none"}, manifest : Manifests, slots : 0..3] /\ job.slots = 0
    BY <1>3, <1>e DEF StartTrip, Resting, JobKinds
  <2>2. running' = [running EXCEPT ![w] = job]
    BY <1>3 DEF StartTrip, MovieInv, SlotsInv
  <2> HIDE DEF job
  <2>3. ~MakesMovie(w)
    BY <1>3, <1>e DEF StartTrip
  <2>4. QED
    BY <1>3, <1>a, <1>b, <1>d, <1>f, <2>1, <2>2, <2>3 DEF StartTrip, MovieInv, MovieTypeOK
<1>4. ASSUME NEW w \in Workers, NEW kind \in JobKinds, StartOther(w, kind) PROVE MovieInv'
  <2> DEFINE job == [running[w] EXCEPT !.kind = kind]
  <2>1. job \in [kind : JobKinds \cup {"none"}, manifest : Manifests, slots : 0..3] /\ job.slots = 0
    BY <1>4, <1>e DEF StartOther, Resting
  <2>2. running' = [running EXCEPT ![w] = job]
    BY <1>4 DEF StartOther, MovieInv, SlotsInv
  <2> HIDE DEF job
  <2>3. ~MakesMovie(w)
    BY <1>4, <1>e DEF StartOther
  <2>4. QED
    BY <1>4, <1>a, <1>b, <1>d, <1>f, <2>1, <2>2, <2>3 DEF StartOther, MovieInv, MovieTypeOK
<1>5. ASSUME NEW w \in Workers, TakeSlot(w) PROVE MovieInv'
  <2>1. /\ SlotsInv' /\ \A v \in Workers : running'[v].manifest = running[v].manifest
        /\ \A v \in Workers : MakesMovie(v) => MakesMovie(v)'
    BY <1>5, SlotTaken DEF MovieInv
  <2>2. QED
    BY <1>5, <1>a, <1>b, <1>f, <2>1 DEF TakeSlot, MovieInv, MovieTypeOK
<1>6. ASSUME NEW w \in Workers, OtherEnds(w) PROVE MovieInv'
  <2>1. ~MakesMovie(w)
    BY <1>6 DEF OtherEnds, MakesMovie
  <2>2. QED
    BY <1>6, <1>a, <1>b, <1>d, <1>e, <1>f, <2>1 DEF OtherEnds, MovieInv, MovieTypeOK
\* The trip goes on; its worker is the only one that makes a movie.
<1>g. ASSUME NEW w \in Workers, MakesMovie(w) PROVE \A v \in Workers : MakesMovie(v) => v = w
  BY <1>g, OneMovieAtATime DEF MovieInv, OneMovie
<1>h. ASSUME NEW w \in Workers, MakesMovie(w),
             UNCHANGED <<clipFile, capture, tripJob, movieRow, running, movieTally>>, TripFields',
             trip'.pc \in {"fingerprints", "checked", "merged", "published"},
             trip'.before \in [MovieClips -> Nat], \A c \in MovieClips : trip'.before[c] <= clipFile[c].changed,
             trip'.pc \in {"checked", "merged"} /\ ClipsUnchanged' => AllLookImported,
             trip'.pc = "merged" /\ ClipsUnchanged' => trip'.sound,
             movieFile' \in [Manifests -> {"none", "sound"}],
             \A m \in Manifests : movieFile[m] = "sound" => movieFile'[m] = "sound",
             trip'.pc = "published" => movieFile'[running[w].manifest] = "sound"
      PROVE  MovieInv'
  <2>1. SlotsInv' /\ \A v \in Workers : running'[v].manifest = running[v].manifest /\ (MakesMovie(v)' <=> MakesMovie(v))
    BY <1>c, <1>h
  <2>2. MovieTypeOK'
    BY <1>h DEF MovieInv, MovieTypeOK
  <2>3. \A v \in Workers : trip'.pc = "published" /\ MakesMovie(v)' => movieFile'[running'[v].manifest] = "sound"
    BY <1>g, <1>h, <2>1
  <2>4. AllLookImported' <=> AllLookImported
    BY <1>h DEF AllLookImported, LooksImported
  <2>5. QED
    BY <1>h, <2>1, <2>2, <2>3, <2>4 DEF MovieInv, MovieIsOfItsClips
<1>i. \A c \in MovieClips : clipFile[c].changed \in 0..MaxClipChanges
  BY DEF MovieInv, MovieTypeOK
<1>j. movieFile \in [Manifests -> {"none", "sound"}]
  BY DEF MovieInv, MovieTypeOK
<1>7. ASSUME NEW w \in Workers, TripBegins(w) PROVE MovieInv'
  <2>1. /\ trip' = [trip EXCEPT !.pc = "fingerprints", !.before = Stamps] /\ MakesMovie(w)
        /\ UNCHANGED <<clipFile, capture, tripJob, movieFile, movieRow, running, movieTally>>
    BY <1>7 DEF TripBegins
  <2>2. trip'.pc = "fingerprints" /\ trip'.before = Stamps /\ TripFields'
    BY <2>1 DEF MovieInv, TripFields
  <2>3. Stamps \in [MovieClips -> Nat] /\ \A c \in MovieClips : Stamps[c] = clipFile[c].changed
    BY <1>i, TripMoviesAssumption DEF TripMoviesAssumption, Stamps
  <2>4. \A c \in MovieClips : trip'.before[c] <= clipFile[c].changed
    BY <1>i, <2>2, <2>3, TripMoviesAssumption DEF TripMoviesAssumption
  <2>5. QED
    BY <1>h, <1>j, <2>1, <2>2, <2>3, <2>4
<1>k. ASSUME trip.pc # "idle"
      PROVE  trip.before \in [MovieClips -> Nat] /\ \A c \in MovieClips : trip.before[c] <= clipFile[c].changed
  BY <1>k DEF MovieInv
<1>8. ASSUME NEW w \in Workers, TripChecks(w) PROVE MovieInv'
  <2>1. /\ trip' = [trip EXCEPT !.pc = "checked"] /\ MakesMovie(w) /\ trip.pc # "idle" /\ AllLookImported
        /\ UNCHANGED <<clipFile, capture, tripJob, movieFile, movieRow, running, movieTally>>
    BY <1>8 DEF TripChecks, AllLookImported
  <2>2. trip'.pc = "checked" /\ trip'.before = trip.before /\ TripFields'
    BY <2>1 DEF MovieInv, TripFields
  <2>5. QED
    BY <1>h, <1>j, <1>k, <2>1, <2>2
<1>9. ASSUME NEW w \in Workers, TripMerges(w) PROVE MovieInv'
  <2> DEFINE sound == Stamps = trip.before /\ AllLookImported
  <2>1. /\ trip' = [trip EXCEPT !.pc = "merged", !.sound = sound] /\ MakesMovie(w) /\ trip.pc = "checked"
        /\ UNCHANGED <<clipFile, capture, tripJob, movieFile, movieRow, running, movieTally>>
    BY <1>9 DEF TripMerges, AllLookImported
  <2>2. ClipsUnchanged => sound
    <3>1. ASSUME ClipsUnchanged PROVE Stamps = trip.before
      BY <1>k, <2>1, <3>1 DEF ClipsUnchanged, Stamps
    <3>2. QED
      BY <2>1, <3>1 DEF MovieInv
  <2> HIDE DEF sound
  <2>3. trip'.pc = "merged" /\ trip'.before = trip.before /\ trip'.sound = sound /\ TripFields'
    BY <2>1 DEF MovieInv, TripFields
  <2>4. ClipsUnchanged' => sound /\ AllLookImported
    BY <2>1, <2>2, <2>3 DEF MovieInv, ClipsUnchanged
  <2>5. QED
    BY <1>h, <1>j, <1>k, <2>1, <2>3, <2>4
<1>10. ASSUME NEW w \in Workers, TripPublishes(w) PROVE MovieInv'
  <2> DEFINE m == running[w].manifest
  <2>1. /\ trip' = [trip EXCEPT !.pc = "published"] /\ MakesMovie(w) /\ trip.pc = "merged" /\ Stamps = trip.before
        /\ movieFile' = [movieFile EXCEPT ![m] = IF trip.sound THEN "sound" ELSE "spoilt"]
        /\ UNCHANGED <<clipFile, capture, tripJob, movieRow, running, movieTally>>
    BY <1>10 DEF TripPublishes, Unaltered
  <2>2. trip'.pc = "published" /\ trip'.before = trip.before /\ TripFields'
    BY <2>1 DEF MovieInv, TripFields
  <2>3. trip.sound
    BY <2>1 DEF MovieInv, ClipsUnchanged, Stamps
  <2>4. m \in Manifests
    BY DEF MovieInv, SlotsInv
  <2> HIDE DEF m
  <2>5. /\ movieFile' \in [Manifests -> {"none", "sound"}] /\ movieFile'[m] = "sound"
        /\ \A o \in Manifests : movieFile[o] = "sound" => movieFile'[o] = "sound"
    BY <1>j, <2>1, <2>3, <2>4
  <2>6. QED
    BY <1>h, <1>k, <2>1, <2>2, <2>5 DEF m
\* A job of a trip ends, whatever becomes of it.
<1>l. ASSUME NEW w \in Workers, NEW result \in {"done", "error"}, TripEnds(w, result),
             UNCHANGED <<clipFile, capture, movieFile>>,
             movieTally' \in [changes : 0..MaxClipChanges, troubles : 0..MaxMovieTroubles],
             movieTally'.changes = movieTally.changes,
             movieRow' \in [Manifests -> BOOLEAN], \A m \in Manifests : movieRow'[m] => movieFile[m] = "sound"
      PROVE  MovieInv'
  <2>0. running' = [running EXCEPT ![w] = Resting] /\ running[w].manifest \in Manifests
    BY <1>l DEF TripEnds, MovieInv, SlotsInv
  <2>1. SlotsInv
    BY DEF MovieInv
  <2>2. /\ SlotsInv' /\ \A v \in Workers : running'[v] = (IF v = w THEN Resting ELSE running[v])
        /\ \A v \in Workers : MakesMovie(v)' => v # w /\ MakesMovie(v)
    BY <1>e, <2>0, <2>1, JobChanges
  <2>3. tripJob' \in [Manifests -> {"none", "queued", "running", "done", "error"}]
    BY <1>l, <2>0 DEF TripEnds, MovieInv, MovieTypeOK
  <2>4. trip' = (IF MakesMovie(w) THEN NoTrip ELSE trip)
    BY <1>l DEF TripEnds
  <2>5. \A v \in Workers : v # w => (MakesMovie(v)' <=> MakesMovie(v))
    BY <2>2 DEF MakesMovie, Equipped
  <2>6. MovieTypeOK' /\ TripFields'
    BY <1>l, <2>2, <2>3, <2>4 DEF MovieInv, MovieTypeOK, SlotsInv, TripFields, NoTrip
  <2>7. trip'.pc # "idle" => trip' = trip /\ \E v \in Workers : v # w /\ MakesMovie(v)
    BY <2>4 DEF MovieInv, NoTrip
  <2>8. trip'.pc # "idle" => /\ \E v \in Workers : MakesMovie(v)'
                             /\ trip'.before \in [MovieClips -> Nat]
                             /\ \A c \in MovieClips : trip'.before[c] <= clipFile'[c].changed
    BY <1>k, <1>l, <2>5, <2>7
  <2>9. \A v \in Workers : trip'.pc = "published" /\ MakesMovie(v)' => movieFile'[running'[v].manifest] = "sound"
    BY <1>l, <2>2, <2>7 DEF MovieInv
  <2>10. /\ trip'.pc # "idle" => (ClipsUnchanged' <=> ClipsUnchanged)
         /\ AllLookImported' <=> AllLookImported
    BY <1>l, <2>7 DEF ClipsUnchanged, AllLookImported, LooksImported
  <2>11. /\ trip'.pc \in {"checked", "merged"} /\ ClipsUnchanged' => AllLookImported'
         /\ trip'.pc = "merged" /\ ClipsUnchanged' => trip'.sound
    BY <2>7, <2>10 DEF MovieInv
  <2>12. QED
    BY <1>l, <2>2, <2>6, <2>8, <2>9, <2>11 DEF MovieInv, MovieIsOfItsClips
<1>11. ASSUME NEW w \in Workers, TripRecords(w) PROVE MovieInv'
  <2>1. /\ TripEnds(w, "done") /\ MakesMovie(w) /\ trip.pc = "published"
        /\ movieRow' = [movieRow EXCEPT ![running[w].manifest] = TRUE]
        /\ UNCHANGED <<clipFile, capture, movieFile, movieTally>>
    BY <1>11 DEF TripRecords
  <2>2. running[w].manifest \in Manifests /\ movieFile[running[w].manifest] = "sound"
    BY <2>1 DEF MovieInv, SlotsInv
  <2>3. movieRow' \in [Manifests -> BOOLEAN] /\ \A m \in Manifests : movieRow'[m] => movieFile[m] = "sound"
    BY <2>1, <2>2 DEF MovieInv, MovieTypeOK, MovieIsOfItsClips
  <2>4. QED
    BY <1>f, <1>l, <2>1, <2>3
<1>m. movieRow \in [Manifests -> BOOLEAN] /\ \A m \in Manifests : movieRow[m] => movieFile[m] = "sound"
  BY DEF MovieInv, MovieTypeOK, MovieIsOfItsClips
<1>12. ASSUME NEW w \in Workers, TripRefuses(w) PROVE MovieInv'
  <2>1. TripEnds(w, "error") /\ UNCHANGED <<clipFile, capture, movieFile, movieRow, movieTally>>
    BY <1>12 DEF TripRefuses
  <2>2. QED
    BY <1>f, <1>l, <1>m, <2>1
<1>13. ASSUME NEW w \in Workers, TripFails(w) PROVE MovieInv'
  <2>1. TripEnds(w, "error") /\ UNCHANGED <<clipFile, capture, movieFile, movieRow>> /\ MovieTrouble
    BY <1>13 DEF TripFails
  <2>2. /\ movieTally' \in [changes : 0..MaxClipChanges, troubles : 0..MaxMovieTroubles]
        /\ movieTally'.changes = movieTally.changes
    BY <2>1, MovieTallyStep
  <2>3. QED
    BY <1>l, <1>m, <2>1, <2>2
<1>14. CASE MovieRestart
  <2>1. /\ MovieTrouble /\ running' = [w \in Workers |-> Resting] /\ trip' = NoTrip
        /\ UNCHANGED <<clipFile, capture, movieFile, movieRow>>
    BY <1>14 DEF MovieRestart
  <2>2. /\ movieTally' \in [changes : 0..MaxClipChanges, troubles : 0..MaxMovieTroubles]
        /\ movieTally'.changes = movieTally.changes
    BY <2>1, MovieTallyStep
  <2>3. SlotsInv'
    BY <1>e, <2>1, NeedsTable DEF SlotsInv, Held, Resting
  <2>4. tripJob' \in [Manifests -> {"none", "queued", "running", "done", "error"}]
    BY <1>14 DEF MovieRestart, MovieInv, MovieTypeOK
  <2>5. MovieTypeOK' /\ TripFields' /\ trip'.pc = "idle"
    BY <2>1, <2>2, <2>3, <2>4 DEF MovieInv, MovieTypeOK, SlotsInv, TripFields, NoTrip
  <2>6. QED
    BY <2>1, <2>2, <2>3, <2>5 DEF MovieInv, MovieIsOfItsClips
<1>15. ASSUME NEW c \in MovieClips, NEW there \in BOOLEAN, NEW content \in ClipContents,
              ChangeClip(c, there, content)
       PROVE  MovieInv'
  <2> DEFINE file == [there |-> there, content |-> content, changed |-> clipFile[c].changed + 1]
  <2>1. /\ movieTally.changes < MaxClipChanges /\ movieTally' = [movieTally EXCEPT !.changes = @ + 1]
        /\ clipFile' = [clipFile EXCEPT ![c] = file]
        /\ UNCHANGED <<capture, tripJob, trip, movieFile, movieRow, running>>
    BY <1>15 DEF ChangeClip
  <2>2. /\ movieTally' \in [changes : 0..MaxClipChanges, troubles : 0..MaxMovieTroubles]
        /\ movieTally.changes \in Nat /\ movieTally'.changes = movieTally.changes + 1
    BY <1>f, <2>1, MovieTallyStep
  <2>3. clipFile[c].changed <= movieTally.changes /\ clipFile[c].changed \in Nat
    BY <1>i, TripMoviesAssumption DEF TripMoviesAssumption, MovieInv
  <2>4. file \in [there : BOOLEAN, content : ClipContents, changed : 0..MaxClipChanges]
        /\ file.changed = clipFile[c].changed + 1
    BY <2>1, <2>2, <2>3, TripMoviesAssumption DEF TripMoviesAssumption
  <2> HIDE DEF file
  <2>5. /\ clipFile' \in [MovieClips -> [there : BOOLEAN, content : ClipContents, changed : 0..MaxClipChanges]]
        /\ \A o \in MovieClips : clipFile'[o] = (IF o = c THEN file ELSE clipFile[o])
    BY <2>1, <2>4 DEF MovieInv, MovieTypeOK
  <2>6. \A o \in MovieClips : clipFile'[o].changed <= movieTally'.changes /\ clipFile[o].changed <= clipFile'[o].changed
    <3>1. \A o \in MovieClips : clipFile[o].changed \in Nat /\ clipFile[o].changed <= movieTally.changes
      BY <1>i, TripMoviesAssumption DEF TripMoviesAssumption, MovieInv
    <3>2. QED
      BY <2>2, <2>3, <2>4, <2>5, <3>1
  <2>7. SlotsInv' /\ \A v \in Workers : running'[v].manifest = running[v].manifest /\ (MakesMovie(v)' <=> MakesMovie(v))
    BY <1>c, <2>1
  <2>8. MovieTypeOK' /\ TripFields'
    BY <2>1, <2>2, <2>5 DEF MovieInv, MovieTypeOK, TripFields
  <2>9. trip'.pc # "idle" => /\ \E v \in Workers : MakesMovie(v)'
                             /\ trip'.before \in [MovieClips -> Nat]
                             /\ \A o \in MovieClips : trip'.before[o] <= clipFile'[o].changed
    <3>1. ASSUME trip.pc # "idle" PROVE \A o \in MovieClips : trip.before[o] <= clipFile'[o].changed
      BY <1>i, <1>k, <2>5, <2>6, <3>1, TripMoviesAssumption DEF TripMoviesAssumption
    <3>2. QED
      BY <1>k, <2>1, <2>7, <3>1 DEF MovieInv
  <2>10. ASSUME trip.pc # "idle" PROVE ~ClipsUnchanged'
    <3>1. trip.before[c] <= clipFile[c].changed /\ trip.before[c] \in Nat
      BY <1>k, <2>10
    <3>2. clipFile'[c].changed = clipFile[c].changed + 1
      BY <2>4, <2>5
    <3>3. clipFile'[c].changed # trip'.before[c]
      BY <2>1, <2>3, <3>1, <3>2
    <3>4. QED
      BY <3>3 DEF ClipsUnchanged
  <2>11. QED
    BY <2>1, <2>6, <2>7, <2>8, <2>9, <2>10 DEF MovieInv, MovieIsOfItsClips
<1>16. CASE UNCHANGED movieVars
  BY <1>16, <1>a, <1>b, <1>c, <1>f DEF MovieInv, MovieTypeOK
<1>17. QED
  BY <1>1, <1>2, <1>3, <1>4, <1>5, <1>6, <1>7, <1>8, <1>9, <1>10, <1>11, <1>12, <1>13, <1>14, <1>15, <1>16
     DEF MovieNext, TripStep

LEMMA MovieInvHolds == MovieSpec => []MovieInv
  BY MovieInvInit, MovieInvStep, PTL DEF MovieSpec

\* Every variable of the trip movies stays of its type: among others the manifests, job states and
\* slots that the handlers of workflow.py write.
THEOREM MovieTypes == MovieSpec => []MovieTypeOK
<1>1. MovieInv => MovieTypeOK
  BY DEF MovieInv
<1>2. QED
  BY <1>1, MovieInvHolds, PTL

\* However many workers there are, and whatever jobs they run, their waiting for the ffmpeg, the
\* NAS and the location slots never closes into a circle.
THEOREM JobsGoOn == MovieSpec => []SlotsNeverDeadlock
<1>1. MovieInv => SlotsNeverDeadlock
  BY NobodyLeftWaiting DEF MovieInv
<1>2. QED
  BY <1>1, MovieInvHolds, PTL

\* workflow.py: a movie with a row in the database was made of one state of the clips, in which each
\* has the size and the two ends of its import, however often other clients change them while it is
\* made. (What the sampled checksum does not read may have been changed before.)
THEOREM MoviesAreOfTheirClips == MovieSpec => []MovieIsOfItsClips
<1>1. MovieInv => MovieIsOfItsClips
  BY DEF MovieInv
<1>2. QED
  BY <1>1, MovieInvHolds, PTL

(***************************************************************************)
(* RideFilms: each thread's record of a film is what the spool has said of *)
(* that film, and what it said last if that was "done".                    *)
(***************************************************************************)

SpoolOK == spool \in [Films -> [state : States, cancel : BOOLEAN]]

\* A record that calls a film done names a film that the spool has finished.
Vouched(t) == t.state = "done" => t.film \in Films /\ spool[t.film].state = "done"

IndexOK ==
  /\ index \in [film : Films \cup {None}, input : Inputs \cup {None}, state : States]
  /\ index.input # None => index.film = FilmOf[index.input]
  /\ index.state # "not_queued" => index.film \in Films
  /\ Vouched(index)

DiscoveryOK ==
  /\ discovery \in Thread({"idle", "reads", "matches", "commits", "defers", "cancels", "notes",
                           "requests", "ends"})
  /\ discovery.pc \in {"cancels", "notes"} => discovery.film \in Films
  /\ discovery.pc \in {"reads", "matches", "commits", "defers"} => discovery.state = "not_queued"
  /\ Vouched(discovery)

PrepareOK ==
  /\ prepare \in Thread({"idle", "reads", "queues", "commits", "undoes", "notes"})
  /\ prepare.pc \in {"queues", "commits", "undoes", "notes"} =>
       prepare.input \in Inputs /\ prepare.film = FilmOf[prepare.input]
  /\ prepare.pc \in {"reads", "queues"} => prepare.state = "not_queued"
  /\ Vouched(prepare)

MonitorOK ==
  /\ monitor \in Thread({"idle", "polls", "asks", "cancels", "notes"})
  /\ monitor.pc \in {"asks", "cancels", "notes"} => monitor.film \in Films
  /\ Vouched(monitor)

InputsOK ==
  /\ {inputs, ride} \subseteq Inputs \cup {None}
  /\ discovered \in [saved : BOOLEAN, inputs : Inputs \cup {None}, deferred : BOOLEAN]
  /\ spent \in [changes : 0..MaxChanges, asks : 0..MaxVisits, troubles : 0..MaxFilmTroubles]

\* At most one caller is between its query and its insert.
QueueOK ==
  /\ queued \in [Kinds -> Nat] /\ looked \in [Callers -> Kinds \cup {"nothing"}]
  /\ \A c, d \in Callers : looked[c] # "nothing" /\ looked[d] # "nothing" => c = d
  /\ EnqueuesOnce

FilmInv == SpoolOK /\ IndexOK /\ DiscoveryOK /\ PrepareOK /\ MonitorOK /\ InputsOK /\ QueueOK

SpoolState == [state : States, cancel : BOOLEAN]
DoneStays == \A g \in Films : spool[g].state = "done" => spool'[g].state = "done"

\* queue_render and cancel_render leave a finished film alone, and finish none.
LEMMA OrdersOfAFilm ==
  ASSUME SpoolOK, NEW f \in Films
  PROVE  /\ Cancelled(f) \in SpoolState /\ (spool[f].state = "done" <=> Cancelled(f).state = "done")
         /\ QueuedAgain(f) \in SpoolState /\ (spool[f].state = "done" <=> QueuedAgain(f).state = "done")
<1>1. spool[f] \in SpoolState
  BY DEF SpoolOK, SpoolState
<1>2. [spool[f] EXCEPT !.cancel = TRUE] \in SpoolState /\ [spool[f] EXCEPT !.cancel = TRUE].state = spool[f].state
  BY <1>1 DEF SpoolState
<1>3. /\ [state |-> "cancelled", cancel |-> TRUE] \in SpoolState
      /\ [state |-> "queued", cancel |-> FALSE] \in SpoolState
  BY DEF SpoolState, States, Waiting
<1>4. Cancelled(f) \in SpoolState /\ (spool[f].state = "done" <=> Cancelled(f).state = "done")
  BY <1>1, <1>2, <1>3 DEF Cancelled
<1>5. QueuedAgain(f) \in SpoolState /\ (spool[f].state = "done" <=> QueuedAgain(f).state = "done")
  BY <1>1, <1>3 DEF QueuedAgain
<1>6. QED
  BY <1>4, <1>5

LEMMA FilmMoves ==
  ASSUME SpoolOK, NEW f \in Films, NEW x \in SpoolState, spool' = [spool EXCEPT ![f] = x],
         spool[f].state = "done" => x.state = "done"
  PROVE  SpoolOK' /\ DoneStays /\ spool'[f] = x
  BY DEF SpoolOK, SpoolState, DoneStays

\* What the spool does to films leaves the records of the threads true.
LEMMA RecordsStayTrue ==
  ASSUME DoneStays
  PROVE  /\ IndexOK /\ UNCHANGED index => IndexOK'
         /\ DiscoveryOK /\ UNCHANGED discovery => DiscoveryOK'
         /\ PrepareOK /\ UNCHANGED prepare => PrepareOK'
         /\ MonitorOK /\ UNCHANGED monitor => MonitorOK'
<1>1. /\ index.state = "done" /\ index.film \in Films /\ spool[index.film].state = "done" => spool'[index.film].state = "done"
      /\ discovery.film \in Films /\ spool[discovery.film].state = "done" => spool'[discovery.film].state = "done"
      /\ prepare.film \in Films /\ spool[prepare.film].state = "done" => spool'[prepare.film].state = "done"
      /\ monitor.film \in Films /\ spool[monitor.film].state = "done" => spool'[monitor.film].state = "done"
  BY DEF DoneStays
<1>2. IndexOK /\ UNCHANGED index => IndexOK'
  BY <1>1 DEF IndexOK, Vouched
<1>3. DiscoveryOK /\ UNCHANGED discovery => DiscoveryOK'
  BY <1>1 DEF DiscoveryOK, Vouched
<1>4. PrepareOK /\ UNCHANGED prepare => PrepareOK'
  BY <1>1 DEF PrepareOK, Vouched
<1>5. MonitorOK /\ UNCHANGED monitor => MonitorOK'
  BY <1>1 DEF MonitorOK, Vouched
<1>6. QED
  BY <1>2, <1>3, <1>4, <1>5

\* A thread writes the state it has fetched.
LEMMA Noted ==
  ASSUME IndexOK, NEW t, t.film \in Films, t.state \in States, Vouched(t), Notes(t), UNCHANGED spool
  PROVE  IndexOK'
<1>1. CASE index' = index
  BY <1>1 DEF IndexOK, Vouched
<1>2. CASE index' = [index EXCEPT !.state = t.state] /\ index.film = t.film
  <2>1. /\ index' \in [film : Films \cup {None}, input : Inputs \cup {None}, state : States]
        /\ index'.film = t.film /\ index'.input = index.input /\ index'.state = t.state
    BY <1>2 DEF IndexOK
  <2>2. QED
    BY <1>2, <2>1 DEF IndexOK, Vouched
<1>3. QED
  BY <1>1, <1>2 DEF Notes, SameFilm

LEMMA FilmsTroubleStep ==
  ASSUME spent \in [changes : 0..MaxChanges, asks : 0..MaxVisits, troubles : 0..MaxFilmTroubles]
  PROVE  LET T == [changes : 0..MaxChanges, asks : 0..MaxVisits, troubles : 0..MaxFilmTroubles]
         IN  /\ Trouble => spent' \in T
             /\ spent.changes < MaxChanges => [spent EXCEPT !.changes = @ + 1] \in T
             /\ spent.asks < MaxVisits => [spent EXCEPT !.asks = @ + 1] \in T
  BY RideFilmsAssumption DEF RideFilmsAssumption, Trouble

(***************************************************************************)
(* The queue of the two jobs of automatic rides                            *)
(***************************************************************************)

\* No query or insert, and no thread that begins a job of its own accord.
LEMMA QueueAsBefore ==
  ASSUME QueueOK, UNCHANGED <<queued, looked>>,
         discovery'.pc # "idle" => discovery.pc # "idle", prepare'.pc # "idle" => prepare.pc # "idle"
  PROVE  QueueOK'
<1>1. \A kind \in Kinds : Active(kind)' => Active(kind)
  BY DEF Active
<1>2. QED
  BY <1>1 DEF QueueOK, EnqueuesOnce

\* A caller looks while nobody has the lock.
LEMMA QueueLooked ==
  ASSUME QueueOK, LockFree, NEW c \in Callers, NEW kind \in Kinds, Look(c, kind), UNCHANGED queued,
         discovery'.pc # "idle" => discovery.pc # "idle", prepare'.pc # "idle" => prepare.pc # "idle"
  PROVE  QueueOK'
<1>1. \A k \in Kinds : Active(k)' => Active(k)
  BY DEF Active
<1>2. CASE looked' = looked
  BY <1>1, <1>2 DEF QueueOK, EnqueuesOnce
<1>3. CASE looked' = [looked EXCEPT ![c] = kind] /\ ~Active(kind)
  <2>1. \A d \in Callers : looked'[d] = (IF d = c THEN kind ELSE "nothing")
    BY <1>3 DEF QueueOK, LockFree
  <2>2. looked' \in [Callers -> Kinds \cup {"nothing"}]
    BY <1>3 DEF QueueOK
  <2>3. "nothing" \notin Kinds
    BY DEF Kinds
  <2>4. QED
    BY <1>1, <1>3, <2>1, <2>2, <2>3 DEF QueueOK, EnqueuesOnce
<1>4. QED
  BY <1>2, <1>3 DEF Look

LEMMA QueueInserted ==
  ASSUME QueueOK, NEW c \in Callers, Insert(c)
  PROVE  QueueOK'
<1> DEFINE kind == looked[c]
<1>1. kind \in Kinds /\ queued[kind] \in Nat
  BY DEF Insert, QueueOK
<1>2. queued' = [queued EXCEPT ![kind] = @ + 1] /\ looked' = [looked EXCEPT ![c] = "nothing"]
      /\ UNCHANGED <<discovery, prepare>>
  BY DEF Insert
<1>3. \A d \in Callers : looked'[d] = "nothing"
  BY <1>1, <1>2 DEF QueueOK, Kinds
<1>4. queued' \in [Kinds -> Nat] /\ looked' \in [Callers -> Kinds \cup {"nothing"}]
  BY <1>1, <1>2 DEF QueueOK
<1>5. "nothing" \notin Kinds
  BY DEF Kinds
<1>6. QED
  BY <1>3, <1>4, <1>5 DEF QueueOK, EnqueuesOnce

\* A worker takes a job that is queued: its kind is as active as before.
LEMMA QueueTaken ==
  ASSUME QueueOK, NEW kind \in Kinds, queued[kind] > 0, queued' = [queued EXCEPT ![kind] = @ - 1],
         UNCHANGED looked,
         discovery'.pc # "idle" => discovery.pc # "idle" \/ kind = "auto_rides_discover",
         prepare'.pc # "idle" => prepare.pc # "idle" \/ kind = "auto_ride_prepare"
  PROVE  QueueOK'
<1>1. queued' \in [Kinds -> Nat] /\ \A k \in Kinds : queued'[k] > 0 => queued[k] > 0
  BY DEF QueueOK
<1>2. \A k \in Kinds : Active(k)' => Active(k)
  BY <1>1 DEF Active
<1>3. QED
  BY <1>1, <1>2 DEF QueueOK, EnqueuesOnce

(***************************************************************************)
(* Every step of the films                                                 *)
(***************************************************************************)

\* The threads' records, where they begin and where they are at rest.
LEMMA ThreadsAtRest ==
  /\ Rests \in Thread({"idle"}) /\ Rests.pc = "idle" /\ Rests.state = "not_queued"
  /\ \A pc \in STRING : /\ [Rests EXCEPT !.pc = pc] \in Thread({pc})
                         /\ [Rests EXCEPT !.pc = pc].pc = pc /\ [Rests EXCEPT !.pc = pc].state = "not_queued"
  BY DEF Rests, Thread, States, Waiting

LEMMA DiscoveryKeeps == FilmInv /\ (DiscoveryStep \/ DiscoveryStops) => FilmInv'
<1> SUFFICES ASSUME FilmInv, DiscoveryStep \/ DiscoveryStops PROVE FilmInv'
  OBVIOUS
<1> USE DEF database
<1> DEFINE pcs == {"idle", "reads", "matches", "commits", "defers", "cancels", "notes", "requests", "ends"}
<1>1. /\ SpoolOK /\ IndexOK /\ DiscoveryOK /\ PrepareOK /\ MonitorOK /\ InputsOK /\ QueueOK
      /\ discovery \in Thread(pcs)
  BY DEF FilmInv, DiscoveryOK
\* Steps that leave the spool, the index and the other threads alone.
<1>a. ASSUME UNCHANGED <<spool, index, prepare, monitor>>, DiscoveryOK', InputsOK', QueueOK' PROVE FilmInv'
  <2>1. SpoolOK' /\ DoneStays
    BY <1>1, <1>a DEF SpoolOK, DoneStays
  <2>2. QED
    BY <1>1, <1>a, <2>1, RecordsStayTrue DEF FilmInv
<1>b. UNCHANGED <<inputs, ride, discovered, spent>> => InputsOK'
  BY <1>1 DEF InputsOK
<1>c. Trouble /\ UNCHANGED <<inputs, ride, discovered>> => InputsOK'
  BY <1>1, FilmsTroubleStep DEF InputsOK
\* A step from one point to another, with what it has read so far.
<1>d. ASSUME NEW pc \in pcs \ {"cancels", "notes", "idle"}, discovery' = [discovery EXCEPT !.pc = pc], UNCHANGED spool,
             pc \in {"reads", "matches", "commits", "defers"} => discovery.state = "not_queued"
      PROVE  DiscoveryOK' /\ discovery'.pc = pc
  <2>1. discovery' \in Thread(pcs) /\ discovery'.pc = pc /\ discovery'.film = discovery.film
        /\ discovery'.state = discovery.state
    BY <1>1, <1>d DEF Thread
  <2>2. QED
    BY <1>1, <1>d, <2>1 DEF DiscoveryOK, Vouched
<1>e. discovery' = Rests => DiscoveryOK' /\ discovery'.pc = "idle"
  BY ThreadsAtRest DEF DiscoveryOK, Vouched, Thread
<1>2. CASE DiscoveryBegins
  <2>1. discovery' = [Rests EXCEPT !.pc = "reads"] /\ UNCHANGED <<database, spool, looked, prepare, monitor, spent>>
        /\ queued["auto_rides_discover"] > 0 /\ queued' = [queued EXCEPT !["auto_rides_discover"] = @ - 1]
    BY <1>2 DEF DiscoveryBegins
  <2>2. DiscoveryOK'
    BY <2>1, ThreadsAtRest DEF DiscoveryOK, Vouched, Thread
  <2>3. QueueOK'
    BY <1>1, <2>1, QueueTaken DEF Kinds
  <2>4. QED
    BY <1>a, <1>b, <2>1, <2>2, <2>3
<1>3. CASE DiscoveryReads
  <2>1. /\ discovery.pc = "reads" /\ discovery' = [discovery EXCEPT !.pc = "matches", !.input = inputs]
        /\ UNCHANGED <<database, spool, queued, looked, prepare, monitor, spent>>
    BY <1>3 DEF DiscoveryReads
  <2>2. /\ discovery' \in Thread(pcs) /\ discovery'.pc = "matches" /\ discovery'.film = discovery.film
        /\ discovery'.state = discovery.state
    BY <1>1, <2>1 DEF Thread, InputsOK
  <2>3. DiscoveryOK'
    BY <1>1, <2>1, <2>2 DEF DiscoveryOK, Vouched
  <2>4. QueueOK'
    BY <1>1, <2>1, QueueAsBefore
  <2>5. QED
    BY <1>a, <1>b, <2>1, <2>3, <2>4
<1>4. CASE DiscoveryMatches
  <2>1. discovery.pc = "matches" /\ UNCHANGED <<database, spool, queued, looked, prepare, monitor>>
    BY <1>4 DEF DiscoveryMatches
  <2>2. discovery.state = "not_queued"
    BY <1>1, <2>1 DEF DiscoveryOK
  <2>3. QueueOK'
    BY <1>1, <2>1, QueueAsBefore
  <2>4. DiscoveryOK'
    BY <1>4, <1>d, <2>1, <2>2 DEF DiscoveryMatches
  <2>5. InputsOK'
    BY <1>4, <1>b, <1>c, <2>1 DEF DiscoveryMatches
  <2>6. QED
    BY <1>a, <2>1, <2>3, <2>4, <2>5
<1>5. CASE DiscoveryCommits
  <2> DEFINE deferred == discovery.pc = "defers"
             f == IF Outdated(ride') THEN index.film ELSE None
             pc == IF Outdated(ride') THEN "cancels" ELSE "requests"
  <2>1. /\ discovery.pc \in {"commits", "defers"}
        /\ ride' \in Upserted(discovery.input, deferred)
        /\ discovered' = [saved |-> TRUE, inputs |-> inputs, deferred |-> deferred]
        /\ discovery' = [discovery EXCEPT !.pc = pc, !.film = f]
        /\ UNCHANGED <<inputs, index, spool, queued, looked, prepare, monitor, spent>>
    BY <1>5 DEF DiscoveryCommits
  <2>2. Outdated(ride') => f \in Films
    BY <1>1 DEF Outdated, IndexOK, Waiting
  <2>3. f \in Films \cup {None} /\ pc \in pcs /\ (pc = "cancels" => f \in Films) /\ pc \in {"cancels", "requests"}
    BY <2>2
  <2> HIDE DEF f, pc
  <2>4. discovery' \in Thread(pcs) /\ discovery'.pc = pc /\ discovery'.film = f /\ discovery'.state = "not_queued"
    BY <1>1, <2>1, <2>3 DEF Thread, DiscoveryOK
  <2>5. DiscoveryOK'
    BY <2>3, <2>4 DEF DiscoveryOK, Vouched
  <2>6. ride' \in Inputs \cup {None} /\ deferred \in BOOLEAN
    BY <1>1, <2>1 DEF Upserted, InputsOK, Thread
  <2>7. InputsOK'
    BY <1>1, <2>1, <2>6 DEF InputsOK
  <2>8. QueueOK'
    BY <1>1, <2>1, QueueAsBefore
  <2>9. QED
    BY <1>a, <2>1, <2>5, <2>7, <2>8
<1>6. CASE DiscoveryCancels
  <2> DEFINE f == discovery.film
             x == Cancelled(f)
  <2>1. discovery.pc = "cancels" /\ UNCHANGED <<database, queued, looked, prepare, monitor>> /\ f \in Films
    BY <1>1, <1>6 DEF DiscoveryCancels, DiscoveryOK
  <2>2. QueueOK'
    BY <1>1, <2>1, QueueAsBefore
  <2>3. CASE spool' = [spool EXCEPT ![f] = x] /\ UNCHANGED spent
             /\ discovery' = [discovery EXCEPT !.pc = "notes", !.state = x.state]
    <3>1. x \in SpoolState /\ (spool[f].state = "done" <=> x.state = "done")
      BY <1>1, <2>1, OrdersOfAFilm
    <3> HIDE DEF x
    <3>2. SpoolOK' /\ DoneStays /\ spool'[f] = x
      BY <1>1, <2>1, <2>3, <3>1, FilmMoves
    <3>3. discovery' \in Thread(pcs) /\ discovery'.pc = "notes" /\ discovery'.film = f /\ discovery'.state = x.state
      BY <1>1, <2>3, <3>1 DEF Thread, SpoolState
    <3> HIDE DEF f
    <3>4. DiscoveryOK'
      BY <2>1, <3>2, <3>3 DEF DiscoveryOK, Vouched
    <3>5. QED
      BY <1>1, <1>b, <2>1, <2>2, <2>3, <3>2, <3>4, RecordsStayTrue DEF FilmInv
  <2>4. CASE Trouble /\ discovery' = [discovery EXCEPT !.pc = "requests"] /\ UNCHANGED spool
    BY <1>a, <1>c, <1>d, <2>1, <2>2, <2>4
  <2>5. QED
    BY <1>6, <2>3, <2>4 DEF DiscoveryCancels
<1>7. CASE DiscoveryNotes
  <2>1. /\ discovery.pc = "notes" /\ Notes(discovery) /\ discovery' = [discovery EXCEPT !.pc = "requests"]
        /\ UNCHANGED <<inputs, ride, discovered, spool, queued, looked, prepare, monitor, spent>>
    BY <1>7 DEF DiscoveryNotes
  <2>2. discovery.film \in Films /\ discovery.state \in States /\ Vouched(discovery)
    BY <1>1, <2>1 DEF DiscoveryOK, Thread
  <2>3. IndexOK'
    BY <1>1, <2>1, <2>2, Noted
  <2>4. SpoolOK' /\ DoneStays
    BY <1>1, <2>1 DEF SpoolOK, DoneStays
  <2>5. QueueOK'
    BY <1>1, <2>1, QueueAsBefore
  <2>6. QED
    BY <1>1, <1>b, <1>d, <2>1, <2>3, <2>4, <2>5, RecordsStayTrue DEF FilmInv
<1>8. CASE DiscoveryRequests
  <2>1. /\ discovery.pc = "requests" /\ LockFree /\ discovery' = [discovery EXCEPT !.pc = "ends"]
        /\ Look("job", "auto_ride_prepare") \/ UNCHANGED looked
        /\ UNCHANGED <<database, spool, queued, prepare, monitor, spent>>
    BY <1>8 DEF DiscoveryRequests
  <2>2. QueueOK'
    BY <1>1, <2>1, QueueAsBefore, QueueLooked DEF Kinds, Callers
  <2>3. QED
    BY <1>a, <1>b, <1>d, <2>1, <2>2
<1>9. CASE DiscoveryEnds
  <2>1. discovery' = Rests /\ UNCHANGED <<database, spool, queued, looked, prepare, monitor, spent>>
    BY <1>9 DEF DiscoveryEnds
  <2>2. QueueOK'
    BY <1>1, <1>e, <2>1, QueueAsBefore
  <2>3. QED
    BY <1>a, <1>b, <1>e, <2>1, <2>2
<1>10. CASE DiscoveryStops
  <2>1. Trouble /\ discovery' = Rests /\ UNCHANGED <<database, spool, queued, looked, prepare, monitor>>
    BY <1>10 DEF DiscoveryStops
  <2>2. QueueOK'
    BY <1>1, <1>e, <2>1, QueueAsBefore
  <2>3. QED
    BY <1>a, <1>c, <1>e, <2>1, <2>2
<1>11. QED
  BY <1>2, <1>3, <1>4, <1>5, <1>6, <1>7, <1>8, <1>9, <1>10 DEF DiscoveryStep

LEMMA PrepareKeeps == FilmInv /\ (PrepareStep \/ PrepareStops) => FilmInv'
<1> SUFFICES ASSUME FilmInv, PrepareStep \/ PrepareStops PROVE FilmInv'
  OBVIOUS
<1> USE DEF database
<1> DEFINE pcs == {"idle", "reads", "queues", "commits", "undoes", "notes"}
<1>1. /\ SpoolOK /\ IndexOK /\ DiscoveryOK /\ PrepareOK /\ MonitorOK /\ InputsOK /\ QueueOK
      /\ prepare \in Thread(pcs)
  BY DEF FilmInv, PrepareOK
<1>a. ASSUME UNCHANGED <<spool, index, discovery, monitor>>, PrepareOK', InputsOK', QueueOK' PROVE FilmInv'
  <2>1. SpoolOK' /\ DoneStays
    BY <1>1, <1>a DEF SpoolOK, DoneStays
  <2>2. QED
    BY <1>1, <1>a, <2>1, RecordsStayTrue DEF FilmInv
<1>b. UNCHANGED <<inputs, ride, discovered, spent>> => InputsOK'
  BY <1>1 DEF InputsOK
<1>c. Trouble /\ UNCHANGED <<inputs, ride, discovered>> => InputsOK'
  BY <1>1, FilmsTroubleStep DEF InputsOK
<1>d. prepare' = Rests => PrepareOK' /\ prepare'.pc = "idle"
  BY ThreadsAtRest DEF PrepareOK, Vouched, Thread
\* Its order to the spool, and what it remembers of the answer.
<1>e. ASSUME prepare.pc \in {"queues", "undoes"}, NEW x \in SpoolState,
             spool[prepare.film].state = "done" <=> x.state = "done", spool' = [spool EXCEPT ![prepare.film] = x],
             NEW pc \in {"commits", "notes"}, prepare' = [prepare EXCEPT !.pc = pc, !.state = x.state],
             UNCHANGED <<database, queued, looked, discovery, monitor, spent>>
      PROVE  FilmInv'
  <2>1. prepare.film \in Films /\ prepare.input \in Inputs /\ prepare.film = FilmOf[prepare.input]
    BY <1>1, <1>e, RideFilmsAssumption DEF PrepareOK, RideFilmsAssumption
  <2>2. SpoolOK' /\ DoneStays /\ spool'[prepare.film] = x
    BY <1>1, <1>e, <2>1, FilmMoves
  <2>3. prepare' \in Thread(pcs) /\ prepare'.pc = pc /\ prepare'.film = prepare.film
        /\ prepare'.input = prepare.input /\ prepare'.state = x.state
    BY <1>1, <1>e DEF Thread, SpoolState
  <2>4. PrepareOK'
    BY <1>e, <2>1, <2>2, <2>3 DEF PrepareOK, Vouched
  <2>5. QueueOK'
    BY <1>1, <1>e, QueueAsBefore
  <2>6. QED
    BY <1>1, <1>b, <1>e, <2>2, <2>4, <2>5, RecordsStayTrue DEF FilmInv
<1>f. ASSUME prepare.pc \in {"queues", "commits", "undoes", "notes"} PROVE prepare.film \in Films
  BY <1>1, <1>f, RideFilmsAssumption DEF PrepareOK, RideFilmsAssumption
\* It stops before it has told the index.
<1>g. ASSUME prepare.pc = "commits", prepare' = [prepare EXCEPT !.pc = "undoes"], UNCHANGED spool PROVE PrepareOK'
  <2>1. prepare' \in Thread(pcs) /\ prepare'.pc = "undoes" /\ prepare'.film = prepare.film
        /\ prepare'.input = prepare.input /\ prepare'.state = prepare.state
    BY <1>1, <1>g DEF Thread
  <2>2. QED
    BY <1>1, <1>g, <2>1 DEF PrepareOK, Vouched
<1>2. CASE PrepareBegins
  <2>1. prepare' = [Rests EXCEPT !.pc = "reads"] /\ UNCHANGED <<database, spool, looked, discovery, monitor, spent>>
        /\ queued["auto_ride_prepare"] > 0 /\ queued' = [queued EXCEPT !["auto_ride_prepare"] = @ - 1]
    BY <1>2 DEF PrepareBegins
  <2>2. PrepareOK'
    BY <2>1, ThreadsAtRest DEF PrepareOK, Vouched, Thread
  <2>3. QueueOK'
    BY <1>1, <2>1, QueueTaken DEF Kinds
  <2>4. QED
    BY <1>a, <1>b, <2>1, <2>2, <2>3
<1>3. CASE PrepareReads
  <2>1. prepare.pc = "reads" /\ UNCHANGED <<database, spool, queued, looked, discovery, monitor, spent>>
    BY <1>3 DEF PrepareReads
  <2>2. QueueOK'
    BY <1>1, <2>1, QueueAsBefore
  <2>3. CASE Valid(ride) /\ prepare' = [prepare EXCEPT !.pc = "queues", !.input = ride, !.film = FilmOf[ride]]
    <3>1. ride \in Inputs /\ FilmOf[ride] \in Films
      BY <1>1, <2>3, RideFilmsAssumption DEF RideFilmsAssumption, Valid, InputsOK
    <3>2. prepare' \in Thread(pcs) /\ prepare'.pc = "queues" /\ prepare'.film = FilmOf[ride] /\ prepare'.input = ride
          /\ prepare'.state = "not_queued"
      BY <1>1, <2>1, <2>3, <3>1 DEF Thread, PrepareOK
    <3>3. PrepareOK'
      BY <2>1, <3>1, <3>2 DEF PrepareOK, Vouched
    <3>4. QED
      BY <1>a, <1>b, <2>1, <2>2, <3>3
  <2>4. CASE prepare' = Rests
    BY <1>a, <1>b, <1>d, <2>1, <2>2, <2>4
  <2>5. QED
    BY <1>3, <2>3, <2>4 DEF PrepareReads, Detail
<1>4. CASE PrepareQueues
  <2>1. QueuedAgain(prepare.film) \in SpoolState
        /\ (spool[prepare.film].state = "done" <=> QueuedAgain(prepare.film).state = "done")
    BY <1>1, <1>4, <1>f, OrdersOfAFilm DEF PrepareQueues
  <2>2. QED
    BY <1>4, <1>e, <2>1 DEF PrepareQueues
<1>5. CASE PrepareUndoes
  <2>1. Cancelled(prepare.film) \in SpoolState
        /\ (spool[prepare.film].state = "done" <=> Cancelled(prepare.film).state = "done")
    BY <1>1, <1>5, <1>f, OrdersOfAFilm DEF PrepareUndoes
  <2>2. QED
    BY <1>5, <1>e, <2>1 DEF PrepareUndoes
<1>6. CASE PrepareCommits
  <2>1. prepare.pc = "commits"
        /\ UNCHANGED <<inputs, ride, discovered, spool, queued, looked, discovery, monitor, spent>>
    BY <1>6 DEF PrepareCommits
  <2>2. QueueOK'
    BY <1>1, <1>6, <1>d, <2>1, QueueAsBefore DEF PrepareCommits
  <2>3. CASE index' = [film |-> prepare.film, input |-> prepare.input, state |-> prepare.state] /\ prepare' = Rests
    <3>1. prepare.input \in Inputs /\ prepare.film = FilmOf[prepare.input] /\ prepare.film \in Films
          /\ prepare.state \in States /\ Vouched(prepare)
      BY <1>1, <1>f, <2>1 DEF PrepareOK, Thread
    <3>2. IndexOK'
      BY <2>1, <2>3, <3>1 DEF IndexOK, Vouched
    <3>3. SpoolOK' /\ DoneStays
      BY <1>1, <2>1 DEF SpoolOK, DoneStays
    <3>4. QED
      BY <1>1, <1>b, <1>d, <2>1, <2>2, <2>3, <3>2, <3>3, RecordsStayTrue DEF FilmInv
  <2>4. CASE UNCHANGED index /\ prepare' = [prepare EXCEPT !.pc = "undoes"]
    BY <1>a, <1>b, <1>g, <2>1, <2>2, <2>4
  <2>5. QED
    BY <1>6, <2>3, <2>4 DEF PrepareCommits
<1>7. CASE PrepareNotes
  <2>1. prepare.pc = "notes" /\ Notes(prepare) /\ prepare' = Rests
        /\ UNCHANGED <<inputs, ride, discovered, spool, queued, looked, discovery, monitor, spent>>
    BY <1>7 DEF PrepareNotes
  <2>2. prepare.film \in Films /\ prepare.state \in States /\ Vouched(prepare)
    BY <1>1, <1>f, <2>1 DEF PrepareOK, Thread
  <2>3. IndexOK'
    BY <1>1, <2>1, <2>2, Noted
  <2>4. SpoolOK' /\ DoneStays
    BY <1>1, <2>1 DEF SpoolOK, DoneStays
  <2>5. QueueOK'
    BY <1>1, <1>d, <2>1, QueueAsBefore
  <2>6. QED
    BY <1>1, <1>b, <1>d, <2>1, <2>3, <2>4, <2>5, RecordsStayTrue DEF FilmInv
<1>8. CASE PrepareStops
  <2>1. prepare.pc # "idle" /\ Trouble /\ UNCHANGED <<database, spool, queued, looked, discovery, monitor>>
    BY <1>8 DEF PrepareStops
  <2>2. QueueOK'
    BY <1>1, <2>1, QueueAsBefore
  <2>3. PrepareOK'
    BY <1>8, <1>d, <1>g, <2>1 DEF PrepareStops
  <2>4. QED
    BY <1>a, <1>c, <2>1, <2>2, <2>3
<1>9. QED
  BY <1>2, <1>3, <1>4, <1>5, <1>6, <1>7, <1>8 DEF PrepareStep

LEMMA MonitorKeeps == FilmInv /\ (MonitorStep \/ MonitorSkips) => FilmInv'
<1> SUFFICES ASSUME FilmInv, MonitorStep \/ MonitorSkips PROVE FilmInv'
  OBVIOUS
<1> USE DEF database
<1> DEFINE pcs == {"idle", "polls", "asks", "cancels", "notes"}
<1>1. /\ SpoolOK /\ IndexOK /\ DiscoveryOK /\ PrepareOK /\ MonitorOK /\ InputsOK /\ QueueOK
      /\ monitor \in Thread(pcs)
  BY DEF FilmInv, MonitorOK
<1>a. ASSUME UNCHANGED <<spool, index, discovery, prepare>>, MonitorOK', InputsOK', QueueOK' PROVE FilmInv'
  <2>1. SpoolOK' /\ DoneStays
    BY <1>1, <1>a DEF SpoolOK, DoneStays
  <2>2. QED
    BY <1>1, <1>a, <2>1, RecordsStayTrue DEF FilmInv
<1>b. UNCHANGED <<inputs, ride, discovered, spent>> => InputsOK'
  BY <1>1 DEF InputsOK
<1>c. Trouble /\ UNCHANGED <<inputs, ride, discovered>> => InputsOK'
  BY <1>1, FilmsTroubleStep DEF InputsOK
<1>d. monitor' = Rests => MonitorOK'
  BY ThreadsAtRest DEF MonitorOK, Vouched, Thread
<1>2. CASE MonitorChecks
  <2>1. /\ monitor' = [Rests EXCEPT !.pc = "polls"] /\ UNCHANGED <<database, spool, queued, discovery, prepare, spent>>
        /\ (LockFree /\ Look("monitor", "auto_rides_discover")) \/ UNCHANGED looked
    BY <1>2 DEF MonitorChecks
  <2>2. MonitorOK'
    BY <2>1, ThreadsAtRest DEF MonitorOK, Vouched, Thread
  <2>3. QueueOK'
    BY <1>1, <2>1, QueueAsBefore, QueueLooked DEF Kinds, Callers
  <2>4. QED
    BY <1>a, <1>b, <2>1, <2>2, <2>3
<1>3. CASE MonitorPolls
  <2>1. UNCHANGED <<database, spool, queued, looked, discovery, prepare, spent>>
    BY <1>3 DEF MonitorPolls
  <2>2. QueueOK'
    BY <1>1, <2>1, QueueAsBefore
  <2>3. CASE index.state \in Waiting /\ monitor' = [Rests EXCEPT !.pc = Asks, !.film = index.film]
    <3>1. index.film \in Films /\ Asks \in {"cancels", "asks"}
      BY <1>1, <2>3 DEF IndexOK, Waiting, Asks
    <3>2. /\ monitor' \in Thread(pcs) /\ monitor'.pc = Asks /\ monitor'.film = index.film
          /\ monitor'.state = "not_queued"
      BY <2>3, <3>1 DEF Rests, Thread, States
    <3>3. MonitorOK'
      BY <3>1, <3>2 DEF MonitorOK, Vouched
    <3>4. QED
      BY <1>a, <1>b, <2>1, <2>2, <3>3
  <2>4. CASE monitor' = Rests
    BY <1>a, <1>b, <1>d, <2>1, <2>2, <2>4
  <2>5. QED
    BY <1>3, <2>3, <2>4 DEF MonitorPolls
<1>4. CASE MonitorAsks
  <2> DEFINE f == monitor.film
             x == IF monitor.pc = "cancels" THEN Cancelled(f) ELSE spool[f]
  <2>1. /\ monitor.pc \in {"asks", "cancels"} /\ spool' = [spool EXCEPT ![f] = x]
        /\ monitor' = [monitor EXCEPT !.pc = "notes", !.state = x.state]
        /\ UNCHANGED <<database, queued, looked, discovery, prepare, spent>>
    BY <1>4 DEF MonitorAsks
  <2>2. f \in Films
    BY <1>1, <2>1 DEF MonitorOK
  <2>3. x \in SpoolState /\ (spool[f].state = "done" <=> x.state = "done")
    BY <1>1, <2>2, OrdersOfAFilm DEF SpoolOK, SpoolState
  <2> HIDE DEF x
  <2>4. SpoolOK' /\ DoneStays /\ spool'[f] = x
    BY <1>1, <2>1, <2>2, <2>3, FilmMoves
  <2>5. monitor' \in Thread(pcs) /\ monitor'.pc = "notes" /\ monitor'.film = f /\ monitor'.state = x.state
    BY <1>1, <2>1, <2>3 DEF Thread, SpoolState
  <2> HIDE DEF f
  <2>6. MonitorOK'
    BY <2>2, <2>4, <2>5 DEF MonitorOK, Vouched
  <2>7. QueueOK'
    BY <1>1, <2>1, QueueAsBefore
  <2>8. QED
    BY <1>1, <1>b, <2>1, <2>4, <2>6, <2>7, RecordsStayTrue DEF FilmInv
<1>5. CASE MonitorNotes
  <2>1. monitor.pc = "notes" /\ Notes(monitor) /\ monitor' = Rests
        /\ UNCHANGED <<inputs, ride, discovered, spool, queued, looked, discovery, prepare, spent>>
    BY <1>5 DEF MonitorNotes
  <2>2. monitor.film \in Films /\ monitor.state \in States /\ Vouched(monitor)
    BY <1>1, <2>1 DEF MonitorOK, Thread
  <2>3. IndexOK'
    BY <1>1, <2>1, <2>2, Noted
  <2>4. SpoolOK' /\ DoneStays
    BY <1>1, <2>1 DEF SpoolOK, DoneStays
  <2>5. QueueOK'
    BY <1>1, <2>1, QueueAsBefore
  <2>6. QED
    BY <1>1, <1>b, <1>d, <2>1, <2>3, <2>4, <2>5, RecordsStayTrue DEF FilmInv
<1>6. CASE MonitorSkips
  <2>1. Trouble /\ monitor' = Rests /\ UNCHANGED <<database, spool, queued, looked, discovery, prepare>>
    BY <1>6 DEF MonitorSkips
  <2>2. QueueOK'
    BY <1>1, <2>1, QueueAsBefore
  <2>3. QED
    BY <1>a, <1>c, <1>d, <2>1, <2>2
<1>7. QED
  BY <1>2, <1>3, <1>4, <1>5, <1>6 DEF MonitorStep

LEMMA FilmInvInit == FilmsInit => FilmInv
<1> SUFFICES ASSUME FilmsInit PROVE FilmInv
  OBVIOUS
<1>1. SpoolOK /\ IndexOK
  BY DEF FilmsInit, SpoolOK, IndexOK, Vouched, States, Waiting
<1>2. DiscoveryOK /\ PrepareOK /\ MonitorOK
  BY ThreadsAtRest DEF FilmsInit, DiscoveryOK, PrepareOK, MonitorOK, Vouched, Thread
<1>3. InputsOK
  BY RideFilmsAssumption DEF FilmsInit, InputsOK, RideFilmsAssumption
<1>4. QueueOK
  BY DEF FilmsInit, QueueOK, EnqueuesOnce, Kinds
<1>5. QED
  BY <1>1, <1>2, <1>3, <1>4 DEF FilmInv

LEMMA FilmInvStep == FilmInv /\ [FilmsNext]_filmsVars => FilmInv'
<1> SUFFICES ASSUME FilmInv, [FilmsNext]_filmsVars PROVE FilmInv'
  OBVIOUS
<1> USE DEF database
<1>1. SpoolOK /\ IndexOK /\ DiscoveryOK /\ PrepareOK /\ MonitorOK /\ InputsOK /\ QueueOK
  BY DEF FilmInv
\* Steps of none of the three threads that leave the films alone.
<1>a. ASSUME UNCHANGED <<spool, index, discovery, prepare, monitor>>, InputsOK', QueueOK' PROVE FilmInv'
  <2>1. SpoolOK' /\ DoneStays
    BY <1>1, <1>a DEF SpoolOK, DoneStays
  <2>2. QED
    BY <1>1, <1>a, <2>1, RecordsStayTrue DEF FilmInv
<1>b. UNCHANGED <<inputs, ride, discovered, spent>> => InputsOK'
  BY <1>1 DEF InputsOK
<1>2. ASSUME NEW c \in Callers, Insert(c) PROVE FilmInv'
  BY <1>1, <1>2, <1>a, <1>b, QueueInserted DEF Insert
<1>3. ASSUME NEW kind \in Kinds, WebAsks(kind) PROVE FilmInv'
  <2>1. /\ LockFree /\ Look("web", kind) /\ spent.asks < MaxVisits /\ spent' = [spent EXCEPT !.asks = @ + 1]
        /\ UNCHANGED <<database, spool, queued, discovery, prepare, monitor>>
    BY <1>3 DEF WebAsks
  <2>2. InputsOK'
    BY <1>1, <2>1, FilmsTroubleStep DEF InputsOK
  <2>3. QueueOK'
    BY <1>1, <2>1, QueueLooked DEF Callers
  <2>4. QED
    BY <1>a, <2>1, <2>2, <2>3
<1>4. ASSUME NEW f \in Films, Renders(f) PROVE FilmInv'
  <2>1. UNCHANGED <<database, queued, looked, discovery, prepare, monitor, spent>>
    BY <1>4 DEF Renders
  <2>2. PICK s \in States : spool[f].state # "done" /\ spool' = [spool EXCEPT ![f].state = s]
    BY <1>4 DEF Renders, States, Waiting
  <2> DEFINE x == [spool[f] EXCEPT !.state = s]
  <2>3. x \in SpoolState /\ spool' = [spool EXCEPT ![f] = x]
    BY <1>1, <2>2 DEF SpoolOK, SpoolState
  <2> HIDE DEF x
  <2>4. SpoolOK' /\ DoneStays
    BY <1>1, <2>2, <2>3, FilmMoves
  <2>5. QueueOK'
    BY <1>1, <2>1, QueueAsBefore
  <2>6. QED
    BY <1>1, <1>b, <2>1, <2>4, <2>5, RecordsStayTrue DEF FilmInv
<1>5. CASE InputsChange
  <2>1. /\ spent.changes < MaxChanges /\ spent' = [spent EXCEPT !.changes = @ + 1] /\ inputs' \in Inputs \cup {None}
        /\ UNCHANGED <<ride, discovered, index, spool, queued, looked, discovery, prepare, monitor>>
    BY <1>5 DEF InputsChange
  <2>2. InputsOK'
    BY <1>1, <2>1, FilmsTroubleStep DEF InputsOK
  <2>3. QueueOK'
    BY <1>1, <2>1, QueueAsBefore
  <2>4. QED
    BY <1>a, <2>1, <2>2, <2>3
<1>6. CASE Restart
  <2>1. /\ Trouble /\ discovery' = Rests /\ prepare' = Rests /\ monitor' = Rests
        /\ looked' = [c \in Callers |-> "nothing"] /\ UNCHANGED <<database, spool>>
        /\ queued' = [queued EXCEPT
             !["auto_rides_discover"] = @ + IF discovery.pc # "idle" THEN 1 ELSE 0,
             !["auto_ride_prepare"] = @ + IF prepare.pc # "idle" THEN 1 ELSE 0]
    BY <1>6 DEF Restart
  <2>2. queued' \in [Kinds -> Nat]
    BY <1>1, <2>1 DEF QueueOK, Kinds
  <2>3. QueueOK'
    BY <2>1, <2>2 DEF QueueOK, EnqueuesOnce, Kinds
  <2>4. InputsOK'
    BY <1>1, <2>1, FilmsTroubleStep DEF InputsOK
  <2>5. DiscoveryOK' /\ PrepareOK' /\ MonitorOK'
    BY <2>1, ThreadsAtRest DEF DiscoveryOK, PrepareOK, MonitorOK, Vouched, Thread
  <2>6. SpoolOK' /\ DoneStays
    BY <1>1, <2>1 DEF SpoolOK, DoneStays
  <2>7. QED
    BY <1>1, <2>1, <2>3, <2>4, <2>5, <2>6, RecordsStayTrue DEF FilmInv
<1>7. CASE UNCHANGED filmsVars
  BY <1>1, <1>7, <1>a, <1>b, QueueAsBefore DEF filmsVars
<1>8. QED
  BY <1>2, <1>3, <1>4, <1>5, <1>6, <1>7, DiscoveryKeeps, PrepareKeeps, MonitorKeeps DEF FilmsNext

LEMMA FilmInvHolds == FilmsSpec => []FilmInv
  BY FilmInvInit, FilmInvStep, PTL DEF FilmsSpec

\* What the three threads of auto_ride_jobs.py have read and written stays of its type.
THEOREM FilmsTypes == FilmsSpec => []FilmsTypeOK
<1>1. FilmInv => FilmsTypeOK
  BY DEF FilmInv, SpoolOK, IndexOK, DiscoveryOK, PrepareOK, MonitorOK, InputsOK, QueueOK, FilmsTypeOK
<1>2. QED
  BY <1>1, FilmInvHolds, PTL

\* However late a thread writes what it fetched of the spool, the gallery offers only films that
\* the spool has finished, and of the ride's present inputs.
THEOREM FilmsShownAreMade == FilmsSpec => []ShownFilmIsMade
<1>1. FilmInv => ShownFilmIsMade
  BY DEF FilmInv, IndexOK, InputsOK, Vouched, ShownFilmIsMade
<1>2. QED
  BY <1>1, FilmInvHolds, PTL

\* What a caller's query found still holds at its insert: no two jobs of a kind are queued,
\* whoever asks at the same time.
THEOREM FilmsAskedOnce == FilmsSpec => []EnqueuesOnce
<1>1. FilmInv => EnqueuesOnce
  BY DEF FilmInv, QueueOK
<1>2. QED
  BY <1>1, FilmInvHolds, PTL

(***************************************************************************)
(* RenderQueue: what the worker has in hand and has made of it.            *)
(***************************************************************************)

\* Whoever is at work has a ride in hand.
RidesInHand ==
  /\ \A c \in Client : cpc[c] # "idle" => cride[c] \in Ride
  /\ wpc # "idle" => wride \in Ride

\* What the worker has done of its ride by the place where it stands: it joins the film of a
\* ride whose parts are all there, and says "done" once the film is in its place.
WorkerHasMade ==
  /\ wpc \in {"film", "done"} => parts[wride] = Clips
  /\ wpc = "done" => film[wride]

SpoolInv == SpoolTypeOK /\ RidesInHand /\ WorkerHasMade /\ DoneHasFilm

\* The bounds, as the arithmetic below needs them.
LEMMA ClipsAndStops == Clips \in Nat /\ 0 \in 0 .. Clips /\ MaxStops \in Nat /\ 0 \in 0 .. MaxStops
  BY RenderQueueAssumption DEF RenderQueueAssumption

\* A counter below its bound has room for one more, and one that is not is at its bound.
LEMMA CounterGoesOn ==
  ASSUME NEW m \in Nat, NEW n \in 0 .. m
  PROVE  /\ n >= m => n = m
         /\ ~(n >= m) \/ n < m => n + 1 \in 0 .. m
  OBVIOUS

(***************************************************************************)
(* Type correctness: the types are inductive together with the rides that  *)
(* the threads and the worker have in hand.                                *)
(***************************************************************************)

\* The initial state is well typed and nobody is at work.
LEMMA SpoolTypeInit == SpoolInit => SpoolTypeOK /\ RidesInHand
  BY ClipsAndStops DEF SpoolInit, SpoolTypeOK, RidesInHand, InQueue, TERMINAL

\* Every step of a request thread keeps the types and the rides in hand.
LEMMA ClientType ==
  ASSUME SpoolTypeOK, RidesInHand, NEW c \in Client,
         ClientStep(c) \/ \E r \in Ride : Queue(c, r) \/ Cancel(c, r)
  PROVE  SpoolTypeOK' /\ RidesInHand'
<1> USE DEF SpoolTypeOK, RidesInHand, disk, worker, ClientGoes, Requests, InQueue, TERMINAL
<1>1. CASE QueueClear(c)
  BY <1>1 DEF QueueClear
<1>2. CASE QueueState(c)
  BY <1>2 DEF QueueState
<1>3. CASE QueueRequest(c)
  BY <1>3 DEF QueueRequest
<1>4. CASE CancelMark(c)
  BY <1>4 DEF CancelMark
<1>5. CASE CancelState(c)
  BY <1>5 DEF CancelState
<1>6. ASSUME NEW r \in Ride, Queue(c, r) PROVE SpoolTypeOK' /\ RidesInHand'
  BY <1>6 DEF Queue
<1>7. ASSUME NEW r \in Ride, Cancel(c, r) PROVE SpoolTypeOK' /\ RidesInHand'
  BY <1>7 DEF Cancel
<1>8. QED
  BY <1>1, <1>2, <1>3, <1>4, <1>5, <1>6, <1>7 DEF ClientStep

\* Every step of the worker, and its stops and crashes, keep the types and the rides in hand.
LEMMA WorkerType ==
  ASSUME SpoolTypeOK, RidesInHand, WorkerStep \/ WorkerTrouble
  PROVE  SpoolTypeOK' /\ RidesInHand'
<1> USE DEF SpoolTypeOK, RidesInHand, disk, client, worker, WorkerGoes, WorkerRests, Writes,
            InQueue, TERMINAL
<1>1. ASSUME NEW r \in Ride, Pick(r) PROVE SpoolTypeOK' /\ RidesInHand'
  BY <1>1 DEF Pick
<1>2. CASE Load \/ CheckState \/ Start
  BY <1>2 DEF Load, CheckState, Start
<1>3. CASE Render
  <2>1. parts[wride] \in 0 .. Clips /\ ~(parts[wride] >= Clips)
    BY <1>3 DEF Render, Rendered
  <2>2. parts[wride] + 1 \in 0 .. Clips
    BY <2>1, ClipsAndStops, CounterGoesOn
  <2>3. parts' \in [Ride -> 0 .. Clips]
    BY <1>3, <2>2 DEF Render
  <2>4. QED
    BY <1>3, <2>3 DEF Render
<1>4. CASE Assemble \/ PublishFilm \/ Done
  BY <1>4 DEF Assemble, Publishes, PublishFilm, Done
<1>5. CASE Abandon \/ AbandonState \/ Fail
  BY <1>5 DEF Abandon, AbandonState, Fail
<1>6. CASE Clean
  <2>1. parts' \in [Ride -> 0 .. Clips]
    BY <1>6, ClipsAndStops DEF Clean
  <2>2. QED
    BY <1>6, <2>1 DEF Clean
<1>7. CASE WorkerTrouble
  <2>1. stops' \in 0 .. MaxStops
    BY <1>7, ClipsAndStops, CounterGoesOn DEF WorkerTrouble
  <2>2. QED
    BY <1>7, <2>1 DEF WorkerTrouble, WorkerStop, WorkerCrash
<1>8. QED
  BY <1>1, <1>2, <1>3, <1>4, <1>5, <1>6, <1>7 DEF WorkerStep

\* Every step does.
LEMMA SpoolTypeStep ==
  SpoolTypeOK /\ RidesInHand /\ [SpoolNext]_spoolVars => SpoolTypeOK' /\ RidesInHand'
<1> SUFFICES ASSUME SpoolTypeOK, RidesInHand, [SpoolNext]_spoolVars
             PROVE  SpoolTypeOK' /\ RidesInHand'
  OBVIOUS
<1>1. CASE UNCHANGED spoolVars
  BY <1>1 DEF spoolVars, SpoolTypeOK, RidesInHand
<1>2. QED
  BY <1>1, ClientType, WorkerType DEF SpoolNext

\* ride_render.py, ride_render_worker.py: the files, threads and worker keep their types.
THEOREM SpoolTypes == SpoolSpec => []SpoolTypeOK
  BY SpoolTypeInit, SpoolTypeStep, PTL DEF SpoolSpec

(***************************************************************************)
(* The film.  No client touches parts or films, so what the worker has     *)
(* made of its ride is its own doing; and nothing ever removes a film.     *)
(***************************************************************************)

LEMMA FilmInit == SpoolInit => WorkerHasMade /\ DoneHasFilm
  BY DEF SpoolInit, WorkerHasMade, DoneHasFilm

\* A request thread never says "done", and touches neither parts nor films.
LEMMA ClientFilm ==
  ASSUME SpoolInv, NEW c \in Client,
         ClientStep(c) \/ \E r \in Ride : Queue(c, r) \/ Cancel(c, r)
  PROVE  WorkerHasMade' /\ DoneHasFilm'
<1> USE DEF SpoolInv, SpoolTypeOK, RidesInHand, WorkerHasMade, DoneHasFilm, disk, worker,
            ClientGoes, Requests
<1>1. CASE QueueClear(c) \/ QueueRequest(c) \/ CancelMark(c)
  BY <1>1 DEF QueueClear, QueueRequest, CancelMark
<1>2. CASE QueueState(c) \/ CancelState(c)
  BY <1>2 DEF QueueState, CancelState
<1>3. CASE \E r \in Ride : Queue(c, r) \/ Cancel(c, r)
  BY <1>3 DEF Queue, Cancel
<1>4. QED
  BY <1>1, <1>2, <1>3 DEF ClientStep

\* The worker goes on only with what it has made.
LEMMA WorkerFilm ==
  ASSUME SpoolInv, WorkerStep \/ WorkerTrouble
  PROVE  WorkerHasMade' /\ DoneHasFilm'
<1> USE DEF SpoolInv, SpoolTypeOK, RidesInHand, WorkerHasMade, DoneHasFilm, disk, client,
            worker, WorkerGoes, WorkerRests, Writes
<1>1. ASSUME NEW r \in Ride, Pick(r) PROVE WorkerHasMade' /\ DoneHasFilm'
  BY <1>1 DEF Pick
<1>2. CASE Load \/ CheckState \/ Start \/ Render
  BY <1>2 DEF Load, CheckState, Start, Render
<1>3. CASE Assemble
  <2>1. parts[wride] \in 0 .. Clips /\ parts[wride] >= Clips
    BY <1>3 DEF Assemble, Rendered
  <2>2. parts[wride] = Clips
    BY <2>1, ClipsAndStops, CounterGoesOn
  <2>3. QED
    BY <1>3, <2>2 DEF Assemble, Publishes
<1>4. CASE PublishFilm \/ Done
  BY <1>4 DEF PublishFilm, Done
<1>5. CASE Abandon \/ AbandonState \/ Clean \/ Fail
  BY <1>5 DEF Abandon, AbandonState, Clean, Fail
<1>6. CASE WorkerTrouble
  BY <1>6 DEF WorkerTrouble, WorkerStop, WorkerCrash
<1>7. QED
  BY <1>1, <1>2, <1>3, <1>4, <1>5, <1>6 DEF WorkerStep

LEMMA SpoolInvStep == SpoolInv /\ [SpoolNext]_spoolVars => SpoolInv'
<1> SUFFICES ASSUME SpoolInv, [SpoolNext]_spoolVars PROVE SpoolInv'
  OBVIOUS
<1>1. SpoolTypeOK' /\ RidesInHand'
  BY SpoolTypeStep DEF SpoolInv
<1>2. WorkerHasMade' /\ DoneHasFilm'
  <2>1. CASE UNCHANGED spoolVars
    BY <2>1 DEF spoolVars, SpoolInv, WorkerHasMade, DoneHasFilm
  <2>2. QED
    BY <2>1, ClientFilm, WorkerFilm DEF SpoolNext
<1>3. QED
  BY <1>1, <1>2 DEF SpoolInv

LEMMA SpoolInvariant == SpoolSpec => []SpoolInv
<1>1. SpoolInit => SpoolInv
  BY SpoolTypeInit, FilmInit DEF SpoolInv
<1>2. QED
  BY <1>1, SpoolInvStep, PTL DEF SpoolSpec

\* ride_render_worker.py: whenever a ride's state says "done" its film is on the NAS, whatever
\* was requested, cancelled, stopped or crashed before.
THEOREM DoneMeansFilm == SpoolSpec => []DoneHasFilm
<1>1. SpoolInv => DoneHasFilm
  BY DEF SpoolInv
<1>2. QED
  BY <1>1, SpoolInvariant, PTL

\* Only PublishFilm makes a film, and it comes after Assemble.
LEMMA FilmStep ==
  ASSUME SpoolInv, [SpoolNext]_spoolVars, NEW r \in Ride, ~film[r], film'[r]
  PROVE  parts[r] = Clips
<1> USE DEF disk, client, worker
<1>1. CASE PublishFilm
  BY <1>1 DEF PublishFilm, SpoolInv, SpoolTypeOK, RidesInHand, WorkerHasMade
<1>2. ASSUME NEW c \in Client,
             ClientStep(c) \/ \E s \in Ride : Queue(c, s) \/ Cancel(c, s)
      PROVE  film' = film
  BY <1>2 DEF ClientStep, QueueClear, QueueState, QueueRequest, CancelMark, CancelState,
              Queue, Cancel, Requests
<1>3. CASE WorkerStep /\ ~PublishFilm
  BY <1>3 DEF WorkerStep, Pick, Load, CheckState, Start, Render, Assemble, Done, Abandon,
              AbandonState, Clean, Fail
<1>4. CASE WorkerTrouble
  BY <1>4 DEF WorkerTrouble, WorkerStop, WorkerCrash
<1>5. CASE UNCHANGED spoolVars
  BY <1>5 DEF spoolVars
<1>6. QED
  BY <1>1, <1>2, <1>3, <1>4, <1>5 DEF SpoolNext

\* ride_render_worker.py: a film appears on the NAS only when every clip of the ride has its
\* part, however often the worker was stopped, crashed or resumed while it made them.
THEOREM FilmsAreWhole == SpoolSpec => FilmIsWhole
<1>1. SpoolInv /\ [SpoolNext]_spoolVars
        => [\A r \in Ride : ~film[r] /\ film'[r] => parts[r] = Clips]_spoolVars
  BY FilmStep
<1>2. QED
  BY <1>1, SpoolInvariant, PTL DEF SpoolSpec, FilmIsWhole
=============================================================================
