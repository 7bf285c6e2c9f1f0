CONSTANTS
  Connects <- MCConnects
  Sendable <- MCSendableToo
  Limit = 155
  ReadSizes = {1, 256}
  MaxSent = 2
  None = None
SPECIFICATION Spec
INVARIANTS
  DecodedAsSent
  NothingRefused
  EndIsClean
CHECK_DEADLOCK FALSE
