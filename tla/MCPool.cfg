SPECIFICATION FairSpec
CONSTANTS
  NULL = NULL
  Users = {u1, u2, u3}
  Slots = 2
  MaxExecs = 2
INVARIANTS
  TypeOK
  PermitImpliesFreeId
  EachBoxOnce
  BoxIsFresh
  ReportIsOwn
PROPERTY EveryoneIsServed
