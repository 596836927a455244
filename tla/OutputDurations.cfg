CONSTANTS
  Clips = {1, 2, 3}
  Slow = {1}
  Pollers = {ha}
  Visitors = {user}
  Free = free
  Retry = 2
  MaxChanges = 2
SPECIFICATION Spec
INVARIANT MeasuredIsPlayed
PROPERTY EveryOutputIsMeasured
