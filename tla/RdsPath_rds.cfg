SPECIFICATION Spec
CONSTANTS
  Stations = {s1, s2}
  FirstStation = s1
  None = None
  QueueLimit = 2
  Window = 2
  MuteBlocks = 1
  Backlog = 1
  MaxBlocks = 3
  MaxGroups = 3
  MaxTunes = 1
INVARIANTS TypeOK QueueIsFresh PiDebounced
PROPERTIES ContinuousFeed StopReturns
CHECK_DEADLOCK FALSE
