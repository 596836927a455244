CONSTANTS
  Jobs = {j1, j2}
  Clips = {c1}
  NoClip = noclip
  NoJob = nojob
  Handlers = {h1}
  MaxAttempts = 2
  MaxRev = 1
  MaxStops = 1
  MaxBuilds = 2
  Ops = {"compile", "edit", "cancel"}
  DbTimeouts = TRUE
  RemovalFails = TRUE
SPECIFICATION Spec
CHECK_DEADLOCK FALSE
SYMMETRY Symmetry
INVARIANT RunningIsHeld
INVARIANT AttemptsBounded
INVARIANT NoTempLeak
