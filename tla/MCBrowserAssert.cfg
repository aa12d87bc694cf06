SPECIFICATION BrowserSpec
CONSTANTS
  Name = {"n0", "n1"}
  Root = "n0"
  BrowseLink = {"i1", "i2"}
  AskedLink = {"i1"}
  MaxLookups = 3
  MaxCached = 3
INVARIANTS AssertionsHold
CHECK_DEADLOCK FALSE
