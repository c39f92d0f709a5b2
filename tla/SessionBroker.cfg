SPECIFICATION MCSpec
CONSTANTS
  c1 = c1
  c2 = c2
  t1 = t1
  t2 = t2
  NoEntry = NoEntry
  Controllers = {c1, c2}
  Targets = {t1, t2}
  Provisioned = {t1}
  SameIntranet <- MCSameIntranet
  TTL = 1
  MaxRequests = 2
  MaxNow = 1
INVARIANTS
  IInv
  GrantIsAnswered
PROPERTIES
  BookSpec
  LiveEntryIsKept
  GrantReachesController
  WriteHalfIsReleased
