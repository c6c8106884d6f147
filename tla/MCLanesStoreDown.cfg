SPECIFICATION FairSpec
CONSTANTS
  NULL = NULL
  Workers = {w1}
  Runs = {r1, r2, r3}
  RunCapacity = 2
  RunBurst = 1
  MaxBacklog = 2
PROPERTY RunsAreServed
