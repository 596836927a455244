CONSTANTS
  Jobs = {j1, j2}
  Clips = {c1}
  NoClip = noclip
  NoJob = nojob
  Handlers = {h1}
  MaxAttempts = 2
  MaxRev = 2
  MaxStops = 1
  MaxBuilds = 2
  Ops = {"compile", "edit", "cancel", "replace"}
  DbTimeouts = FALSE
  RemovalFails = FALSE
SPECIFICATION Spec
CHECK_DEADLOCK FALSE
SYMMETRY Symmetry
INVARIANT SuccessWasPublished
INVARIANT ReadyIsCurrent
PROPERTY LifecycleSpec
