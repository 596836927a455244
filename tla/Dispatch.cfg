CONSTANTS
  Collections = {1, 2}
  None = none
  DayLength = 1
  WeekLength = 2
  Configs <- MCConfigs
  MaxClock = 2
  MaxListeners = 2
  MaxEvents = 1
  Handlers = {h1, h2}
  Slots = {s1, s2}
  NoSlot = noslot
  MaxTries = 2
  TokenLimit = 1
SPECIFICATION FairSpec
CHECK_DEADLOCK FALSE
INVARIANT TypeOK
INVARIANT OncePerOccurrence
INVARIANT SucceededMeansAccepted
PROPERTY CallbacksEnd
