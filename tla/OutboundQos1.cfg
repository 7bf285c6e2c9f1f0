CONSTANTS
  Level = "V5"
  QosLevels = {0, 1}
  ReceiveMaxes = {1, 2, 15}
  MaxPacketId = 3
  UsizeSize = 16
  MayRefuse = FALSE
  MayDrop = TRUE
  MaySendFail = FALSE
  MaxMessages = 4
  MaxReconnects = 2
SPECIFICATION Spec
INVARIANTS
  AtLeastOnce
  InOrder
  ConformingClientKept
CHECK_DEADLOCK FALSE
