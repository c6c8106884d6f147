SPECIFICATION Spec
CONSTANTS
  NULL = NULL
  v1 = v1
  v2 = v2
  Ids = {1}
  Keys = {}
  Versions = {v1, v2}
  Catalogs <- MCCatalogs
  Tests = 1
  MaxAttempts = 2
  Workers = {w1}
  FaultKinds = {"crash"}
  MaxFaults = 1
INVARIANT AttemptsBounded
