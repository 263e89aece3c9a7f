\* One component per behaviour; the bounds of each are its own constants.
SPECIFICATION Spec
CONSTANTS
  Recs = {r1}
  Files = {f1}
  MaxRev = 2
  MaxEdits = 4
  MaxOutages = 1
  Inputs = {1, 2}
  Films = {1, 2}
  FilmOf <- RideFilmOf
  None = None
  MaxChanges = 1
  MaxVisits = 1
  MaxFilmTroubles = 0
  Days = {1, 2, 3}
  MonthOf <- RideMonthOf
  Fixes = {1, 2, 3, 4, 5}
  Poor = {4}
  AtHome = {1}
  Impossible <- Jumps
  MaxDays = 2
  MaxFixes = 2
  MaxLapses = 1
  MaxHaTroubles = 1
  Ride = {r1}
  Client = {c1, c2}
  Clips = 2
  MaxStops = 2
  Slot = {s1}
  Chunks = 3
  Sampled <- MCSampled
  MaxUploadTroubles = 2
  MaxRots = 2
  Dates = {"May", "June"}
  Original = "May"
  MaxPlans = 2
  MaxDateTroubles = 2
  Keys = {k1, k2}
  NoKey = NoKey
  Tabs = {t1, t2}
  Sizes = {1, 2}
  MaxCache = 1
  MaxEntries = 2
  MaxCommands = 1
  MaxAgings = 1
  Names = {n1, n2}
  Contents = {x, y}
  Nothing = Nothing
  MaxInode = 3
  MaxArchiveChanges = 1
  MaxUnmounts = 1
  SecretKeys = {s1, s2}
  NoSecret = NoSecret
  MaxDbEdits = 2
  MaxLosses = 3
  Paths = {"p1"}
  Before <- IntakeBefore
  Cards <- IntakeCards
  Recordings = {"a", "b"}
  Missing = "no"
  Imports = {1, 2}
  MaxItems = 3
  MaxPlugs = 2
  MaxAsks = 2
  MaxMishaps = 1
  Readers = {d1, d2}
  FileLength = 3
  Streams = 2
  MaxVersions = 2
  MaxBreaks = 1
  Backends = {"sftp", "nextcloud", "rsync"}
  Length = 3
  SampleLength = 1
  MaxBreakdowns = 3
  DaysOfMonth = {1, 2}
  DayOf <- FixDay
  MaxImports = 2
  MaxImportTroubles = 1
  Counters = {1, 2, 3}
  Headers <- CardHeaders
  Today = 2
  Rounds = {1, 2}
  Askers = {m1, m2}
  MaxCardChanges = 3
  MaxDecisions = 1
  MaxAsked = 2
  Workers = {w1, w2}
  MovieClips = {1, 2}
  MaxCaptures = 2
  MaxClipChanges = 1
  MaxMovieTroubles = 1
INVARIANTS
  TypeOK CorrectionsStayWhole DoneHasFilm PublishedIsWhole DoneIsArchived SendsToCurrentFolder
  CorrectionsApply ArchiveStaysReachable ReadsSeeCommands OneReadPerKey VerifiedIsProof
  RecoveryCopyOpens IndexedIsQueued ReadsOneVersion StoredSurvives SuggestionsLieBetween
  MovieIsOfItsClips SlotsNeverDeadlock WorkIsAskedOnce
PROPERTIES
  DecisionsStand FilmIsWhole RepairIsReal JobsKeepEveryFile UnpluggedKeepsCache
  ItemsKeepTheirRecording ScansKeepDecisions GpsIsKept
CHECK_DEADLOCK FALSE
