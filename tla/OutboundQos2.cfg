CONSTANTS
  Level = "V5"
  QosLevels = {2}
  ReceiveMaxes = {1, 2, 3, 15}
  MaxPacketId = 3
  UsizeSize = 16
  MayRefuse = FALSE
  MayDrop = FALSE
  MaySendFail = FALSE
  MaxMessages = 5
  MaxReconnects = 0
SPECIFICATION FairSpec
INVARIANTS
  ExactlyOnce
  PacketIdsDistinct
PROPERTIES
  EventuallyReceived
CHECK_DEADLOCK FALSE
