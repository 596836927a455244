CONSTANTS
  Jobs = {j1, j2}
  Clips = {c1}
  NoClip = noclip
  NoJob = nojob
  Handlers = {h1}
  MaxAttempts = 2
  MaxRev = 1
  MaxStops = 1
  MaxBuilds = 2
  Ops = {"compile", "edit", "cleanup"}
  DbTimeouts = FALSE
  RemovalFails = FALSE
SPECIFICATION FairSpec
CHECK_DEADLOCK FALSE
INVARIANT EditAppliedOnce
PROPERTY EveryJobSettles
PROPERTY ShutdownEnds
