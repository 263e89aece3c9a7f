----------------------------- MODULE MCLiveness -----------------------------
(***************************************************************************)
(* The components whose threads owe the user an end, side by side in one   *)
(* instance: processing_sync, the automatic films, the Home Assistant      *)
(* refresh, the render queue, the upload ledger and the date correction.   *)
(* They share no variable, so a behaviour runs one of them, named by       *)
(* component, and the others stay in their initial state; every behaviour  *)
(* of every component is one of this module, under its own fairness.       *)
(***************************************************************************)
EXTENDS ProcessingSync, RideFilms, HaRefresh, RenderQueue, UploadLedger, DateCorrection

VARIABLE component

RideFilmOf  == <<1, 2>>       \* the film of each input signature
RideMonthOf == <<1, 1, 2>>    \* two days of one month and one of the next
MCSampled   == {1, Chunks}    \* decay between the ends is invisible to the fast check

Components == {"sync", "films", "ha", "spool", "upload", "dates"}

\* Where a component may start in several states, it stays in one of them while another runs.
Parked ==
  /\ component # "films" => inputs = 1
  /\ component # "ha"    => today = 1
  /\ component # "dates" => row.st = "trusted" /\ clip.st = "none" /\ copies = {}

Init ==
  /\ component \in Components
  /\ SyncInit /\ FilmsInit /\ HaInit /\ SpoolInit /\ LedgerInit /\ DatesInit
  /\ Parked

OthersRest(c) ==
  /\ component' = component
  /\ c # "sync"   => UNCHANGED syncVars
  /\ c # "films"  => UNCHANGED filmsVars
  /\ c # "ha"     => UNCHANGED haVars
  /\ c # "spool"  => UNCHANGED spoolVars
  /\ c # "upload" => UNCHANGED ledgerVars
  /\ c # "dates"  => UNCHANGED datesVars

Next ==
  \/ component = "sync"   /\ SyncNext   /\ OthersRest("sync")
  \/ component = "films"  /\ FilmsNext  /\ OthersRest("films")
  \/ component = "ha"     /\ HaNext     /\ OthersRest("ha")
  \/ component = "spool"  /\ SpoolNext  /\ OthersRest("spool")
  \/ component = "upload" /\ LedgerNext /\ OthersRest("upload")
  \/ component = "dates"  /\ DatesNext  /\ OthersRest("dates")

vars == <<component, syncVars, filmsVars, haVars, spoolVars, ledgerVars, datesVars>>

\* Each component's fairness, owed while it is the one that runs.
Fairness ==
  /\ WF_syncVars(component = "sync" /\ SyncStep)
  /\ WF_filmsVars(component = "films" /\ DiscoveryStep)
  /\ WF_filmsVars(component = "films" /\ PrepareStep)
  /\ WF_filmsVars(component = "films" /\ MonitorStep)
  /\ \A c \in Callers : WF_filmsVars(component = "films" /\ Insert(c))
  /\ WF_haVars(component = "ha" /\ RefreshStep)
  /\ WF_spoolVars(component = "spool" /\ WorkerStep)
  /\ \A c \in Client : WF_spoolVars(component = "spool" /\ ClientStep(c))
  /\ \A s \in Slot : /\ SF_ledgerVars(component = "upload" /\ TransferStep(s))
                     /\ WF_ledgerVars(component = "upload" /\ Begin(s))
  /\ WF_ledgerVars(component = "upload" /\ VerifyStep)
  /\ SF_ledgerVars(component = "upload" /\ VerifyBegin)
  /\ \A p \in Plans : SF_datesVars(component = "dates" /\ CorrectionStep(p))
  /\ SF_datesVars(component = "dates" /\ UploadStep)

Spec == Init /\ [][Next]_vars /\ Fairness

\* ProcessingSync's MirroredAtLast and UploadLedger's RepairedAtLast, in the behaviours that run
\* those components.
PiIsMirrored      == component = "sync" => MirroredAtLast
ArchiveIsRepaired == component = "upload" => RepairedAtLast
=============================================================================
