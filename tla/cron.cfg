\* Two schedulers tick at a time and fail anywhere.
SPECIFICATION FairSpec
CONSTANTS
  Schedulers = {s1, s2}
  Occurrences <- Irregular
  MaxClock = 7
  MaxFaults = 2
INVARIANTS
  TypeOK
  RowLockSuffices
  NeverEarly
  InstancesQueued
PROPERTIES
  DueIsTaken
  DisabledStops
  RecoversInOneTick
\* When the clock has stopped and the row is not due, nothing is left to do.
CHECK_DEADLOCK FALSE
