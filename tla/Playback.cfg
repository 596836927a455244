CONSTANTS
  Collections = {"a"}
  ClipIds = {1, 2}
  NoClip = 0
  Calls = {k1, k2}
  Free = free
  Offers <- MCOffers
  Daily = TRUE
  MaxRound = 3
  MaxDay = 2
  MaxFaults = 1
  Home <- MCHome
  PageSize = 1
  CustomOrder <- MCOrder
  MaxEdits = 1
SPECIFICATION PlaySpec
CHECK_DEADLOCK FALSE
SYMMETRY Symmetry
INVARIANT TypeOK
INVARIANT NoRepeat
INVARIANT MarksAreEarned
INVARIANT RoundsAreDurable
INVARIANT FlagMatchesRound
PROPERTY RolloverIsEarned
PROPERTY ReadyClipIsOffered
