\* No pauses; stop and cancel, a restart and a lost camera; weak fairness.
SPECIFICATION FairSpec
CONSTANTS
  Worker = {w1, w2}
  Client = {c1}
  Buttons = {"stop", "cancel"}
  Kinds = {"audit", "upload"}
  MaxJobs = 2
  MaxCrashes = 1
  MaxLosses = 1
INVARIANT SingleExecution
PROPERTIES JobsSettle ImplementsBoard
