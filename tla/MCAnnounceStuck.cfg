SPECIFICATION Spec
CHECK_DEADLOCK FALSE
CONSTANTS
  u = u
  s = s
  x = x
  i1 = i1
  i2 = i2
  Entry = {u, s, x}
  Interface = {i1, i2}
  Match <- MCMatch
  Unique = {u, x}
  NoProbe = {x}
  NoAnnounce = {x}
  MaxProbing = 2
  MaxCalls = 2
INVARIANT RegisteringIsProbing
