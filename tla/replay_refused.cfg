\* A client sends one request twice, byte for byte, with quota for both.
SPECIFICATION Spec
CONSTANTS
  Requests = {r1, r2}
  None = None
  p = p
  Bodies <- SmallBodies
  Exact = 4
  Largest = 6
  MaxFaults = 0
  Keys = {k1}
  Addresses = {a1}
  KeyLimit = 2
  IPLimit = 2
  Window = 2
  Skew = 0
  MaxTime = 0
INVARIANT ExactReplayAccepted
CHECK_DEADLOCK FALSE
