CONSTANTS
  Handlers = {h1, h2}
  Ids = {i1, i2}
  Nowhere = nowhere
  Paths = {"here", "there"}
  Targets <- MCTargets
  Apart = TRUE
  MaxRequests = 4
  MaxFaults = 1
SPECIFICATION Spec
SYMMETRY MCSymmetry
CHECK_DEADLOCK FALSE
INVARIANT EveryFileHasRecord
INVARIANT ListedTrashIsComplete
INVARIANT NothingIsLost
