\* Two maintenance jobs and the pause and resume buttons.
SPECIFICATION Spec
CONSTANTS
  Worker = {w1, w2}
  Client = {c1}
  Buttons = {"pause", "resume"}
  Kinds = {"audit", "discover"}
  MaxJobs = 2
  MaxCrashes = 0
  MaxLosses = 0
INVARIANT OneMaintenanceJob
