SPECIFICATION EventsSpec
CONSTANTS
  NULL = NULL
  v1 = v1
  Ids = {1}
  Keys = {}
  Versions = {v1}
  Catalogs <- MCCatalogs
  Tests = 1
  MaxAttempts = 2
  Workers = {w1, w2}
  FaultKinds = {"crash", "hang"}
  MaxFaults = 1
  Clients = {c1}
  Capacity = 2
INVARIANTS
  EventsTypeOK
  ClosedWithVerdict
  VerdictOnItsWay
