------------------------------ MODULE MCSafety ------------------------------
(***************************************************************************)
(* All components but the job queue side by side in one instance, for the  *)
(* properties that need no fairness.  They share no variable, so a         *)
(* behaviour runs one of them, named by component, and the others stay in  *)
(* their initial state: every step of every component, under the bounds    *)
(* that the configuration gives it, is a step of this module.              *)
(***************************************************************************)
EXTENDS
  ProcessingSync, RideFilms, HaRefresh, RenderQueue, UploadLedger, DateCorrection, PiGateway,
  Archive, StateBackup, Intake, CameraRead, Destinations, LocationImport, DateReview, TripMovies

VARIABLE component

RideFilmOf   == <<1, 2>>       \* the film of each input signature
RideMonthOf  == <<1, 1, 2>>    \* two days of one month and one of the next
MCSampled    == {1, Chunks}    \* decay between the ends is invisible to the fast check
IntakeCards  == {[p \in Paths |-> "a"]}          \* one recording at every connection
IntakeBefore == {[path |-> "p1", sum |-> "b"]}   \* another one had its name before
Jumps        == {<<1, 2>>, <<2, 3>>}             \* nobody gets from the one to the other in that time
FixDay       == <<1, 1, 1, 2, 2>>
CardHeaders  == {[at |-> 1, meta |-> TRUE], [at |-> 2, meta |-> TRUE], [at |-> 2, meta |-> FALSE]}

Components == {
  "sync", "films", "ha", "spool", "upload", "dates", "gateway", "archive", "backup", "intake",
  "read", "remote", "locations", "review", "movies"}

\* Where a component may start in several states, it stays in one of them while another runs.
Parked ==
  /\ component # "films"   => inputs = 1
  /\ component # "ha"      => today = 1
  /\ component # "dates"   => row.st = "trusted" /\ clip.st = "none" /\ copies = {}
  /\ component # "archive" => \A i, j \in Inodes : file[i] = file[j]
  /\ component # "backup"  => card.key = CHOOSE k \in SecretKeys : TRUE
  /\ component # "intake"  => archived = {}
  /\ component # "remote"  => backend = "sftp"

Init ==
  /\ component \in Components
  /\ SyncInit /\ FilmsInit /\ HaInit /\ SpoolInit /\ LedgerInit /\ DatesInit
  /\ GatewayInit /\ ArchiveInit /\ BackupInit /\ IntakeInit /\ ReadInit /\ DestInit
  /\ ImportInit /\ ReviewInit /\ MovieInit
  /\ Parked

OthersRest(c) ==
  /\ component' = component
  /\ c # "sync"      => UNCHANGED syncVars
  /\ c # "films"     => UNCHANGED filmsVars
  /\ c # "ha"        => UNCHANGED haVars
  /\ c # "spool"     => UNCHANGED spoolVars
  /\ c # "upload"    => UNCHANGED ledgerVars
  /\ c # "dates"     => UNCHANGED datesVars
  /\ c # "gateway"   => UNCHANGED gatewayVars
  /\ c # "archive"   => UNCHANGED archiveVars
  /\ c # "backup"    => UNCHANGED backupVars
  /\ c # "intake"    => UNCHANGED intakeVars
  /\ c # "read"      => UNCHANGED readVars
  /\ c # "remote"    => UNCHANGED destVars
  /\ c # "locations" => UNCHANGED importVars
  /\ c # "review"    => UNCHANGED reviewVars
  /\ c # "movies"    => UNCHANGED movieVars

Next ==
  \/ component = "sync"      /\ SyncNext    /\ OthersRest("sync")
  \/ component = "films"     /\ FilmsNext   /\ OthersRest("films")
  \/ component = "ha"        /\ HaNext      /\ OthersRest("ha")
  \/ component = "spool"     /\ SpoolNext   /\ OthersRest("spool")
  \/ component = "upload"    /\ LedgerNext  /\ OthersRest("upload")
  \/ component = "dates"     /\ DatesNext   /\ OthersRest("dates")
  \/ component = "gateway"   /\ GatewayNext /\ OthersRest("gateway")
  \/ component = "archive"   /\ ArchiveNext /\ OthersRest("archive")
  \/ component = "backup"    /\ BackupNext  /\ OthersRest("backup")
  \/ component = "intake"    /\ IntakeNext  /\ OthersRest("intake")
  \/ component = "read"      /\ ReadNext    /\ OthersRest("read")
  \/ component = "remote"    /\ DestNext    /\ OthersRest("remote")
  \/ component = "locations" /\ ImportNext  /\ OthersRest("locations")
  \/ component = "review"    /\ ReviewNext  /\ OthersRest("review")
  \/ component = "movies"    /\ MovieNext   /\ OthersRest("movies")

vars == <<component, syncVars, filmsVars, haVars, spoolVars, ledgerVars, datesVars, gatewayVars,
          archiveVars, backupVars, intakeVars, readVars, destVars, importVars, reviewVars,
          movieVars>>

Spec == Init /\ [][Next]_vars

\* The types of the variables of the component that runs, and the gateway's count of its cache.
TypeOK ==
  /\ component \in Components
  /\ component = "sync"      => SyncTypeOK
  /\ component = "films"     => FilmsTypeOK
  /\ component = "ha"        => HaTypeOK
  /\ component = "spool"     => SpoolTypeOK
  /\ component = "upload"    => LedgerTypeOK
  /\ component = "dates"     => DatesTypeOK
  /\ component = "gateway"   => GatewayTypeOK /\ CacheIsCounted
  /\ component = "archive"   => ArchiveTypeOK
  /\ component = "backup"    => BackupTypeOK
  /\ component = "intake"    => IntakeTypeOK
  /\ component = "read"      => ReadTypeOK
  /\ component = "remote"    => DestTypeOK
  /\ component = "locations" => ImportTypeOK
  /\ component = "review"    => ReviewTypeOK
  /\ component = "movies"    => MovieTypeOK

\* Work that is asked for twice is queued once: uploads of one recording (tasks.py), date checks
\* and metadata copies (date_review.py), automatic films (auto_ride_jobs.py).
WorkIsAskedOnce == OneUploadEach /\ OneScanEach /\ EnqueuesOnce

\* GPS fixes that were saved stay saved, whether a month is refreshed from Home Assistant
\* (auto_ride_ha.py) or imported by hand (roadtrips.py).
GpsIsKept == GpsNeverLost /\ ImportsKeepGps
=============================================================================
