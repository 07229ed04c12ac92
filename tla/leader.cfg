\* Crashes, shutdowns, failed calls and reused instance ids.
SPECIFICATION FairSpec
CONSTANTS
  Schedulers = {s1, s2, s3}
  None = None
  Gone = Gone
  TTL = 4
  MaxLag = 1
  Mishaps <- MishapKinds
  MaxMishaps = 2
INVARIANTS
  TypeOK
  LeaseInv
  SingleActor
PROPERTIES
  LeaseRespected
  Led
