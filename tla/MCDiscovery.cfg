SPECIFICATION mcSpec
CONSTANTS
  Video = {v1, v2, v3}
  Name = {n1}
  Link = {l1, l2}
  BusLink = {l1}
  None = None
  MaxSenders = 3
  MaxBus = 3
  MaxResolvers = 2
  Tab = {0, 1}
  Url = {"no-jmri", "own", "jmri"}
  DefaultURL = "no-jmri"
  NoUrl = ""
  JmriServer = {"jmri"}
  WideRecord = {"r1", "r2"}
  WideLookup = {"l1", "l2"}
  Server = {"s1", "s2"}
  ServerLists <- mcServerLists
  Retries = 2
  MaxSends = 4
  CacheMax = 1
  HostAddress = {"a1"}
  HostLink = {"i1", "i2"}
INVARIANTS BrowseInv EmbeddedInv WebInv WideInv HostResolverInv
PROPERTIES GoneCamerasDisappear StayingCamerasAreFound ResolversDrain LookupsEnd HostStaysFound
