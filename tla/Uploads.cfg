CONSTANTS
  Browsers = {b1, b2}
  Threads = {t1, t2, t3}
  Uploads = {u1, u2}
  Nobody = nobody
  Names = {"a", "b"}
  Sizes = {2, 3}
  Cap = 2
  MaxFaults = 3
SPECIFICATION Spec
SYMMETRY MCSymmetry
CHECK_DEADLOCK FALSE
INVARIANT CataloguedIsComplete
INVARIANT StagingWithinCap
INVARIANT SuccessIsCatalogued
