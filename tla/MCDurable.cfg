SPECIFICATION DurableSpec
CONSTANTS
  NULL = NULL
  v1 = v1
  Ids = {1, 2}
  Keys = {k1}
  Versions = {v1}
  Catalogs <- MCOneCatalog
  Tests = 1
  MaxAttempts = 1
  Workers = {w1}
  FaultKinds = {"power", "crash", "hang", "store"}
  MaxFaults = 1
  MaxSyncs = 1
INVARIANTS
  FirstTriesInOrder
  KeysAreUnique
  AcceptedSurvivesCrashes
  DiskIsThePast
