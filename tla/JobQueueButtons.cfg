\* Two threads, every button, one restart and one lost camera host.
SPECIFICATION Spec
CONSTANTS
  Worker = {w1, w2}
  Client = {c1}
  Buttons = {"pause", "resume", "stop", "cancel"}
  Kinds = {"audit", "upload"}
  MaxJobs = 2
  MaxCrashes = 1
  MaxLosses = 1
SYMMETRY Symmetry
INVARIANTS TypeOK RunningIsHeld
PROPERTY NoWorkAfterCancel
