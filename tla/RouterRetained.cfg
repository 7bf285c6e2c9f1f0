CONSTANTS
  Clients = {c1, c2}
  Filters <- MCFilters
  InvalidFilters = {"$share"}
  WildcardFilters = {"a/+"}
  Share <- MCShare
  Topics <- MCTopics
  Covering <- MCCovering
  InvalidTopics = {"$SYS"}
  SubscribePackets <- RetainedSubscribes
  PublishPackets <- RetainedPublishes
  Rewrite <- MCRewrite
  Wills <- MCWills
  Proxies <- NoProxies
  MaximumQos = 2
  WildcardAvailable = TRUE
  RetainAvailable = TRUE
  MaxTopicAlias = 0
  Denied = {}
  MaxMessages = 2
  MaxSubscribes = 2
  MaxTime = 2
  MaxConnects = 2
  None = None
SPECIFICATION Spec
SYMMETRY Symm
INVARIANTS
  TypeOK
  SubscribersUpToDate
  FreshWhenQueued
CHECK_DEADLOCK FALSE
