SPECIFICATION EventsFairSpec
CONSTANTS
  NULL = NULL
  v1 = v1
  Ids = {1}
  Keys = {}
  Versions = {v1}
  Catalogs <- MCCatalogs
  Tests = 2
  MaxAttempts = 2
  Workers = {w1}
  FaultKinds = {"crash"}
  MaxFaults = 1
  Clients = {c1}
  Capacity = 2
PROPERTY StreamsEnd
