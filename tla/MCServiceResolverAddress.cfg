SPECIFICATION ResolverSpec
CONSTANTS
  Host = {h1, h2}
  Text = {t1}
  Link = {l1}
  None = None
  ReqInterface = None
  MaxRecords = 4
INVARIANT AddressOfHost
