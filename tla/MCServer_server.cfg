CONSTANTS
  Clients = {c1}
  Zones = {"query", "upload"}
  Workers = {w1}
  NoBucket = NoBucket
  Cost = 3
  Rate <- MCRate
  Burst <- MCBurst
  CleanupEvery = 2
  IdleLimit = 3
  MaxNow = 6
  MaxChecks = 3
  None = None
SPECIFICATION ServerSpec
INVARIANTS PartsTypeOK WithinRate RetryAfterSuffices AnswersRunOut ReadsItsWrites KeyVerdicts LogIsOrdered PoolSettles
PROPERTIES ImplementsIdealBucket LossIsExcused ServerGoesOn
