\* Two crashes make an entry poison, then its data cannot be read; no race.
SPECIFICATION Spec
CONSTANTS
  Workers = {w1, w2}
  Handlers = {h1}
  Schedulers = {s1}
  MaxAttempts = 3
  MaxPoisonDeliveries = 2
  MaxGen = 4
  MaxMsgs = 6
  MaxFaults = 3
  FaultPoints = {"idle", "resolve"}
  Races = {}
SYMMETRY Symmetry
INVARIANT NoLostJob
\* A job that has reached a terminal status leaves nothing to do.
CHECK_DEADLOCK FALSE
