CONSTANTS
  Level = "V5"
  QosLevels = {0, 1, 2}
  ReceiveMax = 2
  PacketIds = {1, 2, 3}
  MaxRogue = 1
  MayDrop = TRUE
  MaxMessages = 3
  MaxReconnects = 1
  MaxInTransit = 2
  None = None
SPECIFICATION FairSpec
INVARIANTS
  HeldWithinReceiveMax
  ConformingClientKept
  AtMostOnce
  DeliveredWithoutReconnect
PROPERTIES
  HeldUntilReleased
  ReleaseCompletes
CHECK_DEADLOCK FALSE
