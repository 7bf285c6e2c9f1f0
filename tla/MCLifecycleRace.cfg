CONSTANTS
  Clients = {c1}
  Conns = {k1, k2}
  Expiries = {0, 1}
  Delays = {0, 1}
  MaxSessionExpiry = 1
  MaxTime = 3
  Null = Null
SPECIFICATION FairSpec
INVARIANTS
  TypeOK
  DeadlinesIndexed
  RouteIsCurrent
  WillAtMostOnce
PROPERTIES
  TakeoverCompletes
  WillSettled
CHECK_DEADLOCK FALSE
