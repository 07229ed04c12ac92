\* Every race allowed, and one fault where it is hardest to recover from.
SPECIFICATION Spec
CONSTANTS
  Workers = {w1, w2}
  Handlers = {h1}
  Schedulers = {s1}
  MaxAttempts = 2
  MaxPoisonDeliveries = 2
  MaxGen = 2
  MaxMsgs = 2
  MaxFaults = 1
  FaultPoints <- HardPoints
  Races <- RaceKinds
SYMMETRY Symmetry
INVARIANTS
  TypeOK
  AttemptsExclusive
  InsertNeverConflicts
  AuditBeforeCallback
  DoneHasEvidence
  DeadHasLetter
  QueueWithinFence
  LedgerInv
PROPERTIES
  FenceMonotone
  ImplementsLedger
\* A job that has reached a terminal status leaves nothing to do.
CHECK_DEADLOCK FALSE
