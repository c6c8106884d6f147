SPECIFICATION FairSpec
CONSTANTS
  NULL = NULL
  v1 = v1
  v2 = v2
  Ids = {1}
  Keys = {}
  Versions = {v1, v2}
  Catalogs <- MCCatalogs
  Tests = 2
  MaxAttempts = 2
  Workers = {w1, w2}
  FaultKinds = {"crash", "hang", "store"}
  MaxFaults = 1
INVARIANTS
  TypeOK
  LeaseCoversInFlight
  TokensAreUnique
  VerdictMatchesTests
  ErrorExplainsIE
PROPERTIES
  DoneIsFinal
  LiveLeaseIsExclusive
  VerdictIsJudged
  ProgressIsMonotone
  ImplementsLifecycle
  EventuallyDone
