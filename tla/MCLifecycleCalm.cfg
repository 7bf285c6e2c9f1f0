CONSTANTS
  Clients = {c1, c2}
  Conns = {k1, k2, k3}
  Expiries = {0, 1}
  Delays = {1}
  MaxSessionExpiry = 1
  MaxTime = 2
  Null = Null
SPECIFICATION CalmSpec
SYMMETRY Symm
INVARIANTS
  SingleOwner
  LiveSessionKept
PROPERTIES
  WillOnlyAfterLoss
  NoWillLostByExpiry
  ImplementsContract
CHECK_DEADLOCK FALSE
