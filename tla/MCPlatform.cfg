CONSTANTS
  TimeEvent = {e1, e2, e3, e4}
  MaxTime = 2
  Millisecond = 2
  Watch = {w1, w2}
  Timeout = {t1}
  MaxClock = 2
  Expiry = {1, 3}
  PollMillisecond = 2
  IntMax = 1
  Addr = {a1, a2}
  NoAddr = NoAddr
  HostName = {h1, h2}
  Extra = {"hinfo", "workstation"}
  JoinOK = {TRUE, FALSE}
  c1 = c1
  c2 = c2
  n1 = n1
  n2 = n2
  Client = {c1, c2}
  Net = {n1, n2}
  LinkOf <- mcLinkOf
  QueryId = {1}
  SlotsMax = 2
  IdModulus = 5
  MaxPackets = 2
  Grp = {g1, g2}
  Svc = {s1}
  Port = {p1, p2}
  Text = {x1, x2}
  Host = {host1, host2}
  IP = {ip1}
  MaxEntries = 4
  MaxServiceEntries = 8
  probed = probed
  shared = shared
  plain = plain
  i1 = i1
  i2 = i2
  Entry = {probed, shared, plain}
  Interface = {i1, i2}
  Match <- mcMatch
  Unique = {probed, plain}
  NoProbe = {plain}
  NoAnnounce = {plain}
  MaxProbing = 2
  MaxCalls = 2
SPECIFICATION mcSpec
CHECK_DEADLOCK FALSE
INVARIANTS TimeInv PollInv HostRecordsInv ReflectInv EntriesInv ProbingIsCounted NobodyIsStranded PublishedTogether
PROPERTIES RegistrationEnds
