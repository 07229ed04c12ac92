\* A handoff may be overtaken; no fault.
SPECIFICATION Spec
CONSTANTS
  Workers = {w1, w2}
  Handlers = {h1}
  Schedulers = {s1}
  MaxAttempts = 3
  MaxPoisonDeliveries = 3
  MaxGen = 4
  MaxMsgs = 6
  MaxFaults = 0
  FaultPoints = {}
  Races = {"handoff"}
SYMMETRY Symmetry
INVARIANT NoLostJob
\* A job that has reached a terminal status leaves nothing to do.
CHECK_DEADLOCK FALSE
