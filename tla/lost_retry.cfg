\* One ScheduleRetry whose answer is lost; no race.
SPECIFICATION Spec
CONSTANTS
  Workers = {w1, w2}
  Handlers = {h1}
  Schedulers = {s1}
  MaxAttempts = 3
  MaxPoisonDeliveries = 3
  MaxGen = 4
  MaxMsgs = 6
  MaxFaults = 1
  FaultPoints = {"scheduleRetryError"}
  Races = {}
SYMMETRY Symmetry
INVARIANT NoLostJob
\* A job that has reached a terminal status leaves nothing to do.
CHECK_DEADLOCK FALSE
