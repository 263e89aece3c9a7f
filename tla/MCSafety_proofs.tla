--------------------------- MODULE MCSafety_proofs ---------------------------
(***************************************************************************)
(* Theorems of the composition that the run Safety checks.  Whatever it    *)
(* does, each component does what its own module says or nothing, so what  *)
(* is proved of the components holds of it, for every value of their       *)
(* constants.                                                              *)
(***************************************************************************)
EXTENDS MCSafety, Storage_proofs, Cameras_proofs, Pi_proofs, Dates_proofs, Movies_proofs,
  Locations_proofs

\* Every component takes a step of its own or rests.
EachGoesOn ==
  /\ [SyncNext]_syncVars /\ [FilmsNext]_filmsVars /\ [HaNext]_haVars
  /\ [SpoolNext]_spoolVars /\ [LedgerNext]_ledgerVars /\ [DatesNext]_datesVars
  /\ [GatewayNext]_gatewayVars /\ [ArchiveNext]_archiveVars /\ [BackupNext]_backupVars
  /\ [IntakeNext]_intakeVars /\ [ReadNext]_readVars /\ [DestNext]_destVars
  /\ [ImportNext]_importVars /\ [ReviewNext]_reviewVars /\ [MovieNext]_movieVars

\* The one that runs takes the step.
LEMMA OneGoesAtATime == [Next]_vars => EachGoesOn /\ component' = component
<1> SUFFICES ASSUME [Next]_vars PROVE EachGoesOn /\ component' = component
  OBVIOUS
<1>1. CASE component = "sync" /\ SyncNext /\ OthersRest("sync")
  BY <1>1 DEF OthersRest, EachGoesOn
<1>2. CASE component = "films" /\ FilmsNext /\ OthersRest("films")
  BY <1>2 DEF OthersRest, EachGoesOn
<1>3. CASE component = "ha" /\ HaNext /\ OthersRest("ha")
  BY <1>3 DEF OthersRest, EachGoesOn
<1>4. CASE component = "spool" /\ SpoolNext /\ OthersRest("spool")
  BY <1>4 DEF OthersRest, EachGoesOn
<1>5. CASE component = "upload" /\ LedgerNext /\ OthersRest("upload")
  BY <1>5 DEF OthersRest, EachGoesOn
<1>6. CASE component = "dates" /\ DatesNext /\ OthersRest("dates")
  BY <1>6 DEF OthersRest, EachGoesOn
<1>7. CASE component = "gateway" /\ GatewayNext /\ OthersRest("gateway")
  BY <1>7 DEF OthersRest, EachGoesOn
<1>8. CASE component = "archive" /\ ArchiveNext /\ OthersRest("archive")
  BY <1>8 DEF OthersRest, EachGoesOn
<1>9. CASE component = "backup" /\ BackupNext /\ OthersRest("backup")
  BY <1>9 DEF OthersRest, EachGoesOn
<1>10. CASE component = "intake" /\ IntakeNext /\ OthersRest("intake")
  BY <1>10 DEF OthersRest, EachGoesOn
<1>11. CASE component = "read" /\ ReadNext /\ OthersRest("read")
  BY <1>11 DEF OthersRest, EachGoesOn
<1>12. CASE component = "remote" /\ DestNext /\ OthersRest("remote")
  BY <1>12 DEF OthersRest, EachGoesOn
<1>13. CASE component = "locations" /\ ImportNext /\ OthersRest("locations")
  BY <1>13 DEF OthersRest, EachGoesOn
<1>14. CASE component = "review" /\ ReviewNext /\ OthersRest("review")
  BY <1>14 DEF OthersRest, EachGoesOn
<1>15. CASE component = "movies" /\ MovieNext /\ OthersRest("movies")
  BY <1>15 DEF OthersRest, EachGoesOn
<1>16. CASE UNCHANGED vars
  BY <1>16 DEF vars, EachGoesOn
<1>17. QED
  BY <1>1, <1>2, <1>3, <1>4, <1>5, <1>6, <1>7, <1>8, <1>9, <1>10,
     <1>11, <1>12, <1>13, <1>14, <1>15, <1>16 DEF Next

\* The composition adds nothing: what the run Safety does is, seen from any one component, a
\* behaviour of that component.
THEOREM EachRunsByItself ==
  Spec =>
    /\ SyncInit /\ [][SyncNext]_syncVars
    /\ FilmsInit /\ [][FilmsNext]_filmsVars
    /\ HaInit /\ [][HaNext]_haVars
    /\ SpoolInit /\ [][SpoolNext]_spoolVars
    /\ LedgerInit /\ [][LedgerNext]_ledgerVars
    /\ DatesInit /\ [][DatesNext]_datesVars
    /\ GatewayInit /\ [][GatewayNext]_gatewayVars
    /\ ArchiveInit /\ [][ArchiveNext]_archiveVars
    /\ BackupInit /\ [][BackupNext]_backupVars
    /\ IntakeInit /\ [][IntakeNext]_intakeVars
    /\ ReadInit /\ [][ReadNext]_readVars
    /\ DestInit /\ [][DestNext]_destVars
    /\ ImportInit /\ [][ImportNext]_importVars
    /\ ReviewInit /\ [][ReviewNext]_reviewVars
    /\ MovieInit /\ [][MovieNext]_movieVars
  BY OneGoesAtATime, PTL DEF Spec, Init, EachGoesOn

\* Whichever component runs, its variables keep their types and the gateway's count is right.
THEOREM TypesHold == Spec => []TypeOK
<1>1. Init => component \in Components
  BY DEF Init
<1>2. component \in Components /\ [Next]_vars => (component \in Components)'
  BY OneGoesAtATime
<1>3. /\ SyncInv => SyncTypeOK
      /\ FilmInv => FilmsTypeOK
      /\ GpsInv => HaTypeOK
      /\ IntakeInv => IntakeTypeOK
  BY DEF SyncInv, GpsInv, IntakeInv,
         FilmInv, SpoolOK, IndexOK, DiscoveryOK, PrepareOK, MonitorOK, InputsOK, QueueOK, FilmsTypeOK
<1>4. Spec => []SyncInv
  BY EachRunsByItself, SyncInvInit, SyncInvStep, PTL
<1>5. Spec => []FilmInv
  BY EachRunsByItself, FilmInvInit, FilmInvStep, PTL
<1>6. Spec => []GpsInv
  <2>1. GpsInv /\ [HaNext]_haVars => GpsInv'
    BY GpsInvStep
  <2>2. QED
    BY <2>1, EachRunsByItself, GpsInvInit, PTL
<1>7. Spec => []IntakeInv
  BY EachRunsByItself, IntakeInvInit, IntakeInvStep, PTL
<1>8. Spec => []SpoolTypeOK
  BY EachRunsByItself, SpoolTypes, PTL DEF SpoolSpec
<1>9. Spec => []LedgerTypeOK
  BY EachRunsByItself, LedgerTypes, PTL DEF LedgerSpec
<1>10. Spec => []DatesTypeOK
  BY EachRunsByItself, DatesTypes, PTL DEF DatesSpec
<1>11. Spec => []ArchiveTypeOK
  BY EachRunsByItself, ArchiveTypes, PTL DEF ArchiveSpec
<1>12. Spec => []BackupTypeOK
  BY EachRunsByItself, BackupTypes, PTL DEF BackupSpec
<1>13. Spec => []ReadTypeOK
  BY EachRunsByItself, ReadTypes, PTL DEF ReadSpec
<1>14. Spec => []DestTypeOK
  BY EachRunsByItself, DestTypes, PTL DEF DestSpec
<1>15. Spec => []ImportTypeOK
  BY EachRunsByItself, ImportTypes, PTL DEF ImportSpec
<1>16. Spec => []ReviewTypeOK
  BY EachRunsByItself, ReviewTypes, PTL DEF ReviewSpec
<1>17. Spec => []MovieTypeOK
  BY EachRunsByItself, MovieTypes, PTL DEF MovieSpec
<1>18. Spec => [](GatewayTypeOK /\ CacheIsCounted)
  BY EachRunsByItself, GatewayTypes, CountIsRight, PTL DEF GatewaySpec
<1>19. /\ component \in Components /\ SyncTypeOK /\ FilmsTypeOK /\ HaTypeOK /\ IntakeTypeOK
       /\ SpoolTypeOK /\ LedgerTypeOK /\ DatesTypeOK /\ ArchiveTypeOK /\ BackupTypeOK
       /\ ReadTypeOK /\ DestTypeOK /\ ImportTypeOK /\ ReviewTypeOK /\ MovieTypeOK
       /\ GatewayTypeOK /\ CacheIsCounted
       => TypeOK
  BY DEF TypeOK
<1>20. QED
  BY <1>1, <1>2, <1>3, <1>4, <1>5, <1>6, <1>7, <1>8, <1>9, <1>10,
     <1>11, <1>12, <1>13, <1>14, <1>15, <1>16, <1>17, <1>18, <1>19, PTL DEF Spec

\* No work that is asked for twice is queued twice: uploads, date scans, automatic films.
THEOREM EverythingIsAskedOnce == Spec => []WorkIsAskedOnce
<1>1. FilmInv => EnqueuesOnce
  BY DEF FilmInv, QueueOK
<1>2. IntakeInv => OneUploadEach
  BY DEF IntakeInv
<1>3. Spec => []EnqueuesOnce
  BY <1>1, EachRunsByItself, FilmInvInit, FilmInvStep, PTL
<1>4. Spec => []OneUploadEach
  BY <1>2, EachRunsByItself, IntakeInvInit, IntakeInvStep, PTL
<1>5. Spec => []OneScanEach
  BY EachRunsByItself, OneScan, PTL DEF ReviewSpec
<1>6. QED
  BY <1>3, <1>4, <1>5, PTL DEF WorkIsAskedOnce

\* No refresh and no import loses GPS fixes that were saved, unless, in an import, an earlier fix
\* displaces one that could not have been reached from it.
THEOREM GpsStays == Spec => GpsIsKept
<1> DEFINE Keeps == \A d \in Days : saved[d].fixes \subseteq saved'[d].fixes
<1>1. GpsInv /\ [HaNext]_haVars => GpsInv'
  BY GpsInvStep
<1>2. GpsInv /\ [HaNext]_haVars => [Keeps]_haVars
  BY GpsInvStep
<1>3. Spec => [][Keeps]_haVars
  BY <1>1, <1>2, EachRunsByItself, GpsInvInit, PTL
<1>4. Spec => GpsNeverLost
  BY <1>3 DEF GpsNeverLost
<1>5. Spec => ImportsKeepGps
  BY EachRunsByItself, ImportsLoseNoGps, PTL DEF ImportSpec
<1>6. QED
  BY <1>4, <1>5 DEF GpsIsKept
=============================================================================
