SPECIFICATION RecoveringSpec
CONSTANTS
  NULL = NULL
  Workers = {w1, w2}
  Runs = {r1, r2}
  RunCapacity = 1
  RunBurst = 2
  MaxBacklog = 2
INVARIANTS
  TypeOK
  RecordsMatchWork
PROPERTIES
  RunsAreServed
  SubmissionsAreServed
