SPECIFICATION mcSpec
CONSTANTS
  Name = {"n0", "n1"}
  Root = "n0"
  BrowseLink = {"i1", "i2"}
  AskedLink = {"i1"}
  MaxLookups = 3
  MaxCached = 3
  HostName = {"h1", "h2"}
  PtrLink = {"i1", "i2"}
  Srv = {"v1", "v2", "v3"}
  MaxInfo = 2
  Domain = {"d1", "d2"}
  BrowseDomains <- mcBrowseDomains
  Instance = {"x1", "x2"}
  Splittable = {"x1"}
  Record = {"ptr", "srv"}
  Key = {"kp", "ks"}
  KeyOf <- mcKeyOf
  Unique = {"srv"}
  Aux <- mcAux
  Host = {h1, h2}
  ProbeRecord = {"a", "aaaa", "srv"}
  NameOf <- mcNameOf
  Room = 5
SYMMETRY mcSymmetry
CHECK_DEADLOCK FALSE
INVARIANTS BrowserInv AddrResolverInv ClientInv RespInv WithdrawnStaysWithdrawn ProbeInv
PROPERTIES ImplementsView
