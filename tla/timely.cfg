\* No race, faults wherever they leave no duplicate behind, fairness.
SPECIFICATION FairSpec
CONSTANTS
  Workers = {w1, w2}
  Handlers = {h1}
  Schedulers = {s1}
  MaxAttempts = 2
  MaxPoisonDeliveries = 3
  MaxGen = 3
  MaxMsgs = 7
  MaxFaults = 2
  FaultPoints <- SafePoints
  Races = {}
INVARIANTS
  NoLostJob
  SingleRunner
  AttemptsBounded
PROPERTIES
  ImplementsLifecycle
  EventuallyTerminal
\* A job that has reached a terminal status leaves nothing to do.
CHECK_DEADLOCK FALSE
