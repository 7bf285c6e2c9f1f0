CONSTANTS
  Clients = {c1, c2}
  Filters <- OverlapFilters
  InvalidFilters = {"$share"}
  WildcardFilters = {"a/+"}
  Share <- OverlapShare
  Topics <- OverlapTopics
  Covering <- OverlapCovering
  InvalidTopics = {"$SYS"}
  SubscribePackets <- OverlapSubscribes
  PublishPackets <- OverlapPublishes
  Rewrite <- OverlapRewrite
  Wills = {}
  Proxies <- MCProxies
  MaximumQos = 1
  WildcardAvailable = TRUE
  RetainAvailable = FALSE
  MaxTopicAlias = 1
  Denied = {"denied"}
  MaxMessages = 2
  MaxSubscribes = 2
  MaxTime = 0
  MaxConnects = 2
  None = None
SPECIFICATION Spec
SYMMETRY Symm
INVARIANTS
  AliasOfThisConnection
PROPERTIES
  ServedOnce
  OverlapRespected
  NoLocalKept
  UsesTopicTable
CHECK_DEADLOCK FALSE
