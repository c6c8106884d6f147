SPECIFICATION EventsFairSpec
CONSTANTS
  NULL = NULL
  v1 = v1
  Ids = {1}
  Keys = {}
  Versions = {v1}
  Catalogs <- MCCatalogsGone
  Tests = 1
  MaxAttempts = 1
  Workers = {w1}
  FaultKinds = {"crash"}
  MaxFaults = 1
  Clients = {c1}
  Capacity = 2
PROPERTY StreamsEnd
