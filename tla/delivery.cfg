\* Two jobs, four attempts, a batch of one.
SPECIFICATION Spec
CONSTANTS
  x = x
  z = z
  Addresses <- HostAddresses
  Private <- PrivateAddresses
  AllowPrivateIPs = FALSE
  MaxRedirects = 3
  BaseDelay = 2
  MaxDelay = 6
  Jobs = {j1, j2}
  MaxAttempts = 4
  Second = 2
  Batch = 1
  MaxAhead = 3
  MaxLate = 6
INVARIANTS
  DoneIsDelivered
  ConnectsToValidated
  DelayBounded
PROPERTIES
  RetrySpacing
  RetriesYield
  EveryJobConcludes
\* Jobs that are done or dead leave nothing to do.
CHECK_DEADLOCK FALSE
