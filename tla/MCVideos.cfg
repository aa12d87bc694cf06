SPECIFICATION mcSpec
CONSTANTS
  v1 = v1
  v2 = v2
  v3 = v3
  Video = {v1, v2, v3, v4, v5}
  Name = {n1, n2}
  Host = {h1, h2}
  Text = {t1}
  Link = {l1, l2}
  None = None
  ReqInterface = None
  MaxRecords = 3
SYMMETRY mcSymmetry
INVARIANTS OneVideoPerPane HiddenPanesEmpty NoVideoOfGoneSender ResolverInv NeverLeftWaiting CalledOnceIfFreed
PROPERTIES ReplacesOldest
