CONSTANTS
  Connects <- V4WillConnects
  Sendable <- Nothing
  Limit = None
  ReadSizes = {256}
  MaxSent = 1
  None = None
SPECIFICATION Spec
INVARIANT NothingRefused
CHECK_DEADLOCK FALSE
