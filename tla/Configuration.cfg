CONSTANTS
  Profiles = {p}
  Collections = {c1, c2}
  Stored = {p, c1, c2}
  Users = {u1}
  Migration = migration
  Nobody = nobody
  Threads = {t1, t2}
  MaxAttempts = 2
  MaxSaves = 1
  MaxFaults = 1
SPECIFICATION Spec
SYMMETRY MCSymmetry
CHECK_DEADLOCK FALSE
INVARIANT TypeOK
INVARIANT RemovedMeansStored
INVARIANT RepeatIsAccepted
PROPERTY DefaultIsHandedOver
PROPERTY NoBlindOverwrite
