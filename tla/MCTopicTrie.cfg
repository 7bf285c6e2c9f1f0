CONSTANTS
  Clients = {c1, c2}
  Main = "root"
  Shares = {"share"}
  Filters <- MCFilters
  Topics <- MCTopics
  Payloads = {1, 2}
  UsizeSize = 16
  None = None
SPECIFICATION Spec
SYMMETRY Symm
INVARIANTS
  NoDeadBranches
  CountsExact
  WalksExact
PROPERTY ImplementsTable
CHECK_DEADLOCK FALSE
