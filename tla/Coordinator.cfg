CONSTANTS
  Collections = {1, 2}
  None = none
  DayLength = 2
  WeekLength = 2
  Configs <- MCConfigs
  Overrides <- MCOverrides
  MaxClock = 4
  MaxEvents = 2
  MaxFailures = 43
SPECIFICATION FairSpec
CHECK_DEADLOCK FALSE
INVARIANT NextScheduleIsNext
PROPERTY OutageKeepsSelection
PROPERTY CatchesUp
