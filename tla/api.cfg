\* Two requests with one idempotency key, two API keys, two addresses.
SPECIFICATION Spec
CONSTANTS
  Requests = {r1, r2}
  None = None
  p = p
  Bodies <- SmallBodies
  Exact = 4
  Largest = 6
  MaxFaults = 1
  Keys = {k1, k2}
  Addresses = {a1, a2}
  KeyLimit = 1
  IPLimit = 1
  Window = 2
  Skew = 1
  MaxTime = 2
SYMMETRY Symmetry
INVARIANTS
  ServedWithinQuota
  LookupsThrottled
  QuotaIsOwn
  OneJobPerKey
  CommittedIsCarried
  ReplayHonest
PROPERTY PartsImplement
\* Every request is answered in the end, and the clock stops.
CHECK_DEADLOCK FALSE
