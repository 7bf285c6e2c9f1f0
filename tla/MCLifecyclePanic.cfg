CONSTANTS
  Clients = {c1}
  Conns = {k1, k2, k3}
  Expiries = {0, 1}
  Delays = {1}
  MaxSessionExpiry = 1
  MaxTime = 2
  Null = Null
SPECIFICATION Spec
SYMMETRY Symm
INVARIANT UnwrapSafe
CHECK_DEADLOCK FALSE
