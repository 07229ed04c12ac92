\* The consumer group is lost at any moment, and nothing else goes wrong.
SPECIFICATION FairSpec
CONSTANTS
  Workers = {w1, w2}
  Handlers = {h1}
  Schedulers = {s1}
  MaxAttempts = 3
  MaxPoisonDeliveries = 3
  MaxGen = 1
  MaxMsgs = 9
  MaxFaults = 1
  FaultPoints = {"group"}
  Races = {"regroup"}
PROPERTY EventuallyTerminal
\* A job that has reached a terminal status leaves nothing to do.
CHECK_DEADLOCK FALSE
