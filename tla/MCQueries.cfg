SPECIFICATION mcSpec
CONSTANTS
  r1 = r1
  r2 = r2
  r3 = r3
  r4 = r4
  k1 = k1
  k2 = k2
  k3 = k3
  q1 = q1
  q2 = q2
  l1 = l1
  l2 = l2
  Record = {r1, r2, r3, r4}
  Key = {k1, k2, k3}
  KeyOf <- mcKeyOf
  Unique = {k1}
  Subscribed = {k1, k2, k3}
  Address = {a1, a2}
  TTL = 34
  Second = 1
  MaxEntries = 2
  MaxLost = 3
  QueryKey = {q1, q2}
  Lookup = {l1, l2}
  QuerySecond = 2
  MaxDelay = 4
  MaxPosted = 2
INVARIANTS QueryInv LiveRecordsStay NoEntryOutlivesTTL
PROPERTIES WantedQueriesAreSent LookupsKeepAsking OutdatedRecordsLeave
