CONSTANTS
  Jobs = {j1, j2}
  Clips = {c1}
  NoClip = noclip
  NoJob = nojob
  Handlers = {h1, h2}
  MaxAttempts = 1
  MaxRev = 1
  MaxStops = 0
  MaxBuilds = 2
  Ops = {"stale", "recompile", "scan", "hide", "cancel"}
  DbTimeouts = FALSE
  RemovalFails = FALSE
SPECIFICATION Spec
CHECK_DEADLOCK FALSE
SYMMETRY Symmetry
INVARIANT NoDuplicateWork
INVARIANT AvailableOutputExists
