\* One component per behaviour; the bounds of each are its own constants.
SPECIFICATION Spec
CONSTANTS
  Recs = {r1}
  Files = {f1}
  MaxRev = 2
  MaxEdits = 4
  MaxOutages = 1
  Inputs = {1, 2}
  Films = {1, 2}
  FilmOf <- RideFilmOf
  None = None
  MaxChanges = 1
  MaxVisits = 0
  MaxFilmTroubles = 1
  Days = {1, 2, 3}
  MonthOf <- RideMonthOf
  Fixes = {1}
  Poor = {}
  AtHome = {}
  Impossible = {}
  MaxDays = 1
  MaxFixes = 1
  MaxLapses = 0
  MaxHaTroubles = 1
  Ride = {r1, r2}
  Client = {c1}
  Clips = 1
  MaxStops = 0
  Slot = {s1}
  Chunks = 3
  Sampled <- MCSampled
  MaxUploadTroubles = 1
  MaxRots = 2
  Dates = {"May", "June"}
  Original = "May"
  MaxPlans = 1
  MaxDateTroubles = 2
INVARIANT ShownFilmIsMade
PROPERTIES
  PiIsMirrored OutdatedFilmIsStopped NeededDaysAreChecked RequestEnds ArchiveIsRepaired HoldEnds
CHECK_DEADLOCK FALSE
