CONSTANTS
  Level = "V5"
  QosLevels = {0, 1, 2}
  ReceiveMaxes = {1, 2, 15}
  MaxPacketId = 3
  UsizeSize = 16
  MayRefuse = TRUE
  MayDrop = TRUE
  MaySendFail = TRUE
  MaxMessages = 4
  MaxReconnects = 2
SPECIFICATION Spec
INVARIANTS
  TypeOK
  WithinReceiveMax
CHECK_DEADLOCK FALSE
