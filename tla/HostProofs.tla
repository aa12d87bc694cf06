----------------------------- MODULE HostProofs -----------------------------
(***************************************************************************)
(* Proofs about the records of the host, for any finite set of addresses   *)
(* and any host names.                                                     *)
(*                                                                         *)
(* An update of the records is a walk over the addresses, each round of    *)
(* which updates one group.  A server that is not REGISTERING only changes *)
(* the group (PlainStep).  One that is REGISTERING counts, too, and when   *)
(* the count gets to zero on the way it becomes RUNNING and updates all    *)
(* addresses in the middle of the walk: the walk passes from Counting to   *)
(* Arrived (RoundOfCounting, RoundOfArrived), unless something remains to  *)
(* be waited for (Steady).  Sound is what an update needs of the server,   *)
(* Current what it leaves, and the server is Current between any two steps.*)
(***************************************************************************)
EXTENDS HostRecords, FiniteSetTheorems, TLAPS

GroupType == [state : {"UNCOMMITED", "REGISTERING", "ESTABLISHED", "COLLISION"}, name : HostName]

HostType == [state : {"INVALID", "REGISTERING", "RUNNING", "COLLISION"}, pending : Nat,
             name : HostName, group : [Group -> GroupType]]

\* Is the record of group g published?
Up(h, g) == h.group[g] # Empty

Pending(h) == {g \in Group : h.group[g].state = "REGISTERING"}

Live(s) == s \in {"RUNNING", "REGISTERING"}

\* The addresses to be published by a server that is live
Wanted(v) == {a \in Elements(v.addrs) : v.complete /\ AddressRelevant(v, a) /\ Relevant(v)}

ViewOK(v) == v.addrs \in Seq(Addr) /\ (v.known \/ v.addrs = <<>>)

\* What an update leaves alone
SameOthers(t, h, v) ==
  \A x \in (Addr \ Elements(v.addrs)) \cup {"hinfo"} : t.group[x] = h.group[x]

\* One round of each of the two walks over the addresses
PlainRound(p, h, a) == UpdateAddressBy(Aborted, h, p.v, a, p.remove)
CountedRound(p, h, a) == UpdateAddress(h, p.v, a, p.remove)

PlainWalk == INSTANCE FoldProofs WITH Op <- PlainRound
CountedWalk == INSTANCE FoldProofs WITH Op <- CountedRound

LEMMA EmptyType ==
  ASSUME NEW h \in HostType
  PROVE  Empty \in GroupType /\ Empty.state = "UNCOMMITED"
<1>1. HostName # {}
  BY DEF HostType
<1>2. (CHOOSE n \in HostName : TRUE) \in HostName
  BY <1>1
<1> QED
  BY <1>2 DEF Empty, GroupType

\* Changing one group
LEMMA GroupSet ==
  ASSUME NEW h \in HostType, NEW g \in Group, NEW e \in GroupType, NEW t, t = [h EXCEPT !.group[g] = e]
  PROVE  /\ t \in HostType /\ t.state = h.state /\ t.pending = h.pending /\ t.name = h.name
         /\ t.group[g] = e /\ \A x \in Group \ {g} : t.group[x] = h.group[x]
BY DEF HostType

\* What a server that does not count makes of a group
PlainlyUpdated(t, h, g, wanted) ==
  /\ t \in HostType /\ t.state = h.state /\ t.pending = h.pending /\ t.name = h.name
  /\ Up(t, g) <=> wanted
  /\ \A x \in Group \ {g} : t.group[x] = h.group[x]

LEMMA GroupCommitted ==
  ASSUME NEW h \in HostType, NEW s \in {"REGISTERING", "ESTABLISHED"}
  PROVE  [state |-> s, name |-> h.name] \in GroupType /\ [state |-> s, name |-> h.name] # Empty
BY EmptyType DEF HostType, GroupType

LEMMA PlainUpdate ==
  ASSUME NEW h \in HostType, h.state # "REGISTERING", NEW g \in Group, NEW wanted \in BOOLEAN, NEW v
  PROVE  /\ PlainlyUpdated(UpdateGroupBy(Aborted, h, v, g, wanted), h, g, wanted)
         /\ PlainlyUpdated(UpdateGroupBy(avahi_server_decrease_host_rr_pending, h, v, g, wanted), h, g, wanted)
<1>1. PICK r, e : r = [state |-> "REGISTERING", name |-> h.name] /\ e = [state |-> "ESTABLISHED", name |-> h.name]
  OBVIOUS
<1>2. r \in GroupType /\ r # Empty /\ e \in GroupType /\ e # Empty /\ Empty \in GroupType
  BY <1>1, GroupCommitted, EmptyType
<1>3. PICK c, d, z : c = [h EXCEPT !.group[g] = r] /\ d = [h EXCEPT !.group[g] = e] /\ z = [h EXCEPT !.group[g] = Empty]
  OBVIOUS
<1>4. PlainlyUpdated(c, h, g, TRUE) /\ PlainlyUpdated(d, h, g, TRUE) /\ PlainlyUpdated(z, h, g, FALSE)
  BY <1>2, <1>3, GroupSet DEF PlainlyUpdated, Up
<1>5. [h EXCEPT !.group[g] = [state |-> "REGISTERING", name |-> h.name], !.pending = IF h.state = "REGISTERING" THEN @ + 1 ELSE @] = c
  BY <1>1, <1>3 DEF HostType
<1>6. [c EXCEPT !.group[g].state = "ESTABLISHED"] = d
  <2>1. c \in HostType /\ c.group[g] = r
    BY <1>2, <1>3, GroupSet
  <2>2. [r EXCEPT !.state = "ESTABLISHED"] = e
    BY <1>1
  <2>3. [c EXCEPT !.group[g].state = "ESTABLISHED"] = [c EXCEPT !.group[g] = e]
    BY <2>1, <2>2 DEF HostType
  <2>4. [c EXCEPT !.group[g] = e] = d
    BY <1>3 DEF HostType
  <2> QED
    BY <2>3, <2>4
<1>7. c.state = h.state
  BY <1>4 DEF PlainlyUpdated
<1>8. CASE wanted /\ ~Up(h, g)
  <2>1. /\ UpdateGroupBy(Aborted, h, v, g, wanted) = IF g \in v.waits THEN c ELSE d
        /\ UpdateGroupBy(avahi_server_decrease_host_rr_pending, h, v, g, wanted) = IF g \in v.waits THEN c ELSE d
    BY <1>5, <1>6, <1>7, <1>8, Zenon DEF UpdateGroupBy, CommitBy, EstablishedBy, Up
  <2> QED
    BY <1>4, <1>8, <2>1
<1>9. CASE ~wanted /\ Up(h, g)
  <2>1. /\ UpdateGroupBy(Aborted, h, v, g, wanted) = z
        /\ UpdateGroupBy(avahi_server_decrease_host_rr_pending, h, v, g, wanted) = z
    BY <1>3, <1>9, Zenon DEF UpdateGroupBy, WithdrawGroupBy, Up
  <2> QED
    BY <1>4, <1>9, <2>1
<1>10. CASE wanted <=> Up(h, g)
  <2>1. /\ UpdateGroupBy(Aborted, h, v, g, wanted) = h
        /\ UpdateGroupBy(avahi_server_decrease_host_rr_pending, h, v, g, wanted) = h
    BY <1>10, Zenon DEF UpdateGroupBy, Up
  <2> QED
    BY <1>10, <2>1 DEF PlainlyUpdated
<1> QED
  BY <1>8, <1>9, <1>10

LEMMA AddressUpdate ==
  ASSUME NEW v, ViewOK(v), NEW a \in Elements(v.addrs), NEW remove \in BOOLEAN, NEW h,
         NEW w, w = (a \in Wanted(v) /\ ~remove /\ Live(h.state))
  PROVE  /\ w \in BOOLEAN /\ a \in Addr /\ a \in Group /\ a # "hinfo" /\ a # "workstation"
         /\ UpdateAddressBy(Aborted, h, v, a, remove) = UpdateGroupBy(Aborted, h, v, a, w)
         /\ UpdateAddress(h, v, a, remove)
              = UpdateGroupBy(avahi_server_decrease_host_rr_pending, h, v, a, w)
<1>1. a \in Addr
  BY DEF ViewOK, Elements
<1>2. w <=> /\ v.complete /\ AddressRelevant(v, a) /\ Relevant(v) /\ ~remove
            /\ h.state \in {"RUNNING", "REGISTERING"}
  BY DEF Wanted, Live
<1>3. w = (/\ v.complete /\ AddressRelevant(v, a) /\ Relevant(v) /\ ~remove
           /\ h.state \in {"RUNNING", "REGISTERING"})
  BY <1>2
<1>4. w \in BOOLEAN
  OBVIOUS
<1>5. a \in Group /\ a # "hinfo" /\ a # "workstation"
  BY <1>1, HostAssumption DEF Group
<1>6. /\ UpdateAddressBy(Aborted, h, v, a, remove) = UpdateGroupBy(Aborted, h, v, a, w)
      /\ UpdateAddress(h, v, a, remove)
           = UpdateGroupBy(avahi_server_decrease_host_rr_pending, h, v, a, w)
  BY <1>3, Zenon DEF UpdateAddressBy, UpdateAddress
<1> QED
  BY <1>1, <1>4, <1>5, <1>6

\* A walk over the addresses that does not count: h after k rounds from h0
PlainSteps(h0, v, remove) ==
  [k \in 0..Len(v.addrs) |-> {h \in HostType :
     /\ h.state = h0.state /\ h.pending = h0.pending /\ h.name = h0.name
     /\ \A x \in Group \ Elements(v.addrs) : h.group[x] = h0.group[x]
     /\ \A j \in 1..k : Up(h, v.addrs[j]) <=> v.addrs[j] \in Wanted(v) /\ ~remove /\ Live(h0.state)}]

LEMMA PlainStep ==
  ASSUME NEW v, ViewOK(v), NEW remove \in BOOLEAN, NEW h0 \in HostType, h0.state # "REGISTERING",
         NEW k \in 1..Len(v.addrs), NEW h \in PlainSteps(h0, v, remove)[k - 1], NEW t,
         \/ t = UpdateAddressBy(Aborted, h, v, v.addrs[k], remove)
         \/ t = UpdateAddress(h, v, v.addrs[k], remove)
  PROVE  t \in PlainSteps(h0, v, remove)[k]
<1>1. PICK n \in Nat : n = Len(v.addrs) /\ DOMAIN v.addrs = 1..n
  BY DEF ViewOK
<1>2. k \in 1..n /\ k - 1 \in 0..n /\ k \in 0..n /\ \A j \in 1..k : j = k \/ j \in 1..(k - 1)
  BY <1>1
<1>3. /\ h \in HostType /\ h.state = h0.state /\ h.pending = h0.pending /\ h.name = h0.name
      /\ \A x \in Group \ Elements(v.addrs) : h.group[x] = h0.group[x]
      /\ \A j \in 1..(k - 1) : Up(h, v.addrs[j]) <=> v.addrs[j] \in Wanted(v) /\ ~remove /\ Live(h0.state)
  BY <1>1, <1>2 DEF PlainSteps
<1>4. PICK a \in Elements(v.addrs) : a = v.addrs[k]
  BY <1>1, <1>2 DEF Elements
<1>5. PICK w : w = (a \in Wanted(v) /\ ~remove /\ Live(h.state))
  OBVIOUS
<1>6. PlainlyUpdated(t, h, a, w) /\ a \in Group
  BY <1>3, <1>4, <1>5, AddressUpdate, PlainUpdate
<1>7. ASSUME NEW j \in 1..k
      PROVE  Up(t, v.addrs[j]) <=> v.addrs[j] \in Wanted(v) /\ ~remove /\ Live(h0.state)
  <2>1. CASE v.addrs[j] = a
    BY <1>3, <1>5, <1>6, <2>1 DEF PlainlyUpdated
  <2>2. CASE v.addrs[j] # a
    <3>1. j \in 1..(k - 1) /\ v.addrs[j] \in Group
      <4>1. v.addrs[j] \in Addr
        BY <1>1, <1>2 DEF ViewOK
      <4> QED
        BY <1>2, <1>4, <2>2, <4>1 DEF Group
    <3> QED
      BY <1>3, <1>6, <2>2, <3>1 DEF PlainlyUpdated, Up
  <2> QED
    BY <2>1, <2>2
<1>8. \A x \in Group \ Elements(v.addrs) : t.group[x] = h0.group[x]
  BY <1>3, <1>4, <1>6 DEF PlainlyUpdated
<1> QED
  BY <1>1, <1>2, <1>3, <1>6, <1>7, <1>8 DEF PlainSteps, PlainlyUpdated

\* What a walk that does not count leaves
PlainlyWalked(t, h, v, remove) ==
  /\ t \in HostType /\ t.state = h.state /\ t.pending = h.pending /\ t.name = h.name
  /\ \A x \in Group \ Elements(v.addrs) : t.group[x] = h.group[x]
  /\ \A a \in Elements(v.addrs) : Up(t, a) <=> a \in Wanted(v) /\ ~remove /\ Live(h.state)

LEMMA PlainAddresses ==
  ASSUME NEW v, ViewOK(v), NEW remove \in BOOLEAN, NEW h \in HostType, h.state # "REGISTERING"
  PROVE  /\ PlainlyWalked(UpdateAddressesBy(Aborted, h, v, remove), h, v, remove)
         /\ PlainlyWalked(UpdateAddresses(h, v, remove), h, v, remove)
<1> DEFINE G == PlainSteps(h, v, remove)
<1>1. PICK n \in Nat : n = Len(v.addrs) /\ DOMAIN v.addrs = 1..n
  BY DEF ViewOK
<1>2. h \in G[0]
  <2>1. 0 \in 0..n /\ 1..0 = {}
    BY <1>1
  <2> QED
    BY <1>1, <2>1 DEF PlainSteps
<1>3. PICK p : p = [v |-> v, remove |-> remove]
  OBVIOUS
<1>4. p.v = v /\ p.remove = remove
  BY <1>3
<1>5. \A k \in 1..n : \A s \in G[k - 1] : PlainRound(p, s, v.addrs[k]) \in G[k]
  BY <1>1, <1>4, PlainStep DEF PlainRound
<1>6. \A k \in 1..n : \A s \in G[k - 1] : CountedRound(p, s, v.addrs[k]) \in G[k]
  BY <1>1, <1>4, PlainStep DEF CountedRound
<1> HIDE DEF G
<1>7. PlainWalk!Folded(p, h, v.addrs) \in G[n]
  BY <1>1, <1>2, <1>5, PlainWalk!FoldKeepsEach
<1>8. CountedWalk!Folded(p, h, v.addrs) \in G[n]
  BY <1>1, <1>2, <1>6, CountedWalk!FoldKeepsEach
<1>9. PlainWalk!Folded(p, h, v.addrs) = UpdateAddressesBy(Aborted, h, v, remove)
  <2>1. PlainWalk!Folded(p, h, p.v.addrs) = UpdateAddressesBy(Aborted, h, p.v, p.remove)
    BY DEF UpdateAddressesBy, PlainRound, FoldLeft, MapThenFoldSet, Max, PlainWalk!Folded, PlainWalk!FoldLeft,
           PlainWalk!MapThenFoldSet, PlainWalk!Max
  <2> QED
    BY <1>4, <2>1, Zenon
<1>10. CountedWalk!Folded(p, h, v.addrs) = UpdateAddresses(h, v, remove)
  <2>1. CountedWalk!Folded(p, h, p.v.addrs) = UpdateAddresses(h, p.v, p.remove)
    BY DEF UpdateAddresses, UpdateAddressesBy, UpdateAddress, CountedRound, FoldLeft, MapThenFoldSet, Max,
           CountedWalk!Folded, CountedWalk!FoldLeft, CountedWalk!MapThenFoldSet, CountedWalk!Max
  <2> QED
    BY <1>4, <2>1, Zenon
<1>11. ASSUME NEW t \in G[n]
       PROVE  PlainlyWalked(t, h, v, remove)
  <2>1. n \in 0..n /\ Elements(v.addrs) = {v.addrs[j] : j \in 1..n}
    BY <1>1 DEF Elements
  <2> QED
    BY <1>1, <2>1 DEF G, PlainSteps, PlainlyWalked
<1> QED
  BY <1>7, <1>8, <1>9, <1>10, <1>11

\* What an update that does not count leaves
PlainlyDone(t, h, v, remove) ==
  /\ t \in HostType /\ t.state = h.state /\ t.pending = h.pending /\ t.name = h.name
  /\ SameOthers(t, h, v)
  /\ \A a \in Elements(v.addrs) : Up(t, a) <=> a \in Wanted(v) /\ ~remove /\ Live(h.state)
  /\ IF v.known THEN Up(t, "workstation") <=> v.complete /\ ~remove /\ "workstation" \in Extra /\ h.state = "RUNNING"
     ELSE t.group["workstation"] = h.group["workstation"]

LEMMA PlainRRs ==
  ASSUME NEW v, ViewOK(v), NEW remove \in BOOLEAN, NEW h \in HostType, h.state # "REGISTERING"
  PROVE  /\ PlainlyDone(UpdateRRsBy(Aborted, h, v, remove), h, v, remove)
         /\ PlainlyDone(UpdateRRs(h, v, remove), h, v, remove)
<1>1. CASE ~v.known
  <2>1. UpdateRRsBy(Aborted, h, v, remove) = h /\ UpdateRRs(h, v, remove) = h
    BY <1>1, Zenon DEF UpdateRRsBy, UpdateRRs
  <2>2. Elements(v.addrs) = {}
    BY <1>1 DEF ViewOK, Elements
  <2> QED
    BY <1>1, <2>1, <2>2 DEF PlainlyDone, SameOthers
<1>2. CASE v.known
  <2>1. ASSUME NEW u, PlainlyWalked(u, h, v, remove), NEW w \in BOOLEAN,
               w = (v.complete /\ ~remove /\ "workstation" \in Extra /\ u.state = "RUNNING"),
               NEW t, PlainlyUpdated(t, u, "workstation", w)
        PROVE  PlainlyDone(t, h, v, remove)
    <3>1. \A x \in Addr \cup {"hinfo"} : x \in Group \ {"workstation"}
      BY HostAssumption DEF Group
    <3>2. \A x \in Elements(v.addrs) : x \in Addr
      BY DEF ViewOK, Elements
    <3>3. \A x \in (Addr \ Elements(v.addrs)) \cup {"hinfo"} : x \in Group \ Elements(v.addrs)
      BY <3>1, <3>2, HostAssumption
    <3> QED
      BY <1>2, <2>1, <3>1, <3>2, <3>3 DEF PlainlyWalked, PlainlyUpdated, PlainlyDone, SameOthers, Up
  <2>2. "workstation" \in Group
    BY DEF Group
  <2>3. PlainlyDone(UpdateRRsBy(Aborted, h, v, remove), h, v, remove)
    <3>1. PICK u : u = UpdateAddressesBy(Aborted, h, v, remove)
      OBVIOUS
    <3>2. PICK w \in BOOLEAN : w = (v.complete /\ ~remove /\ "workstation" \in Extra /\ u.state = "RUNNING")
      OBVIOUS
    <3>3. UpdateRRsBy(Aborted, h, v, remove) = UpdateGroupBy(Aborted, u, v, "workstation", w)
      BY <1>2, <3>1, <3>2, Zenon DEF UpdateRRsBy
    <3>4. PlainlyWalked(u, h, v, remove)
      BY <3>1, PlainAddresses
    <3>5. PlainlyUpdated(UpdateGroupBy(Aborted, u, v, "workstation", w), u, "workstation", w)
      BY <2>2, <3>4, PlainUpdate DEF PlainlyWalked
    <3> QED
      BY <2>1, <3>2, <3>3, <3>4, <3>5
  <2>4. PlainlyDone(UpdateRRs(h, v, remove), h, v, remove)
    <3>1. PICK u : u = UpdateAddresses(h, v, remove)
      OBVIOUS
    <3>2. PICK w \in BOOLEAN : w = (v.complete /\ ~remove /\ "workstation" \in Extra /\ u.state = "RUNNING")
      OBVIOUS
    <3>3. UpdateRRs(h, v, remove) = UpdateGroupBy(avahi_server_decrease_host_rr_pending, u, v, "workstation", w)
      BY <1>2, <3>1, <3>2, Zenon DEF UpdateRRsBy, UpdateRRs, UpdateAddresses
    <3>4. PlainlyWalked(u, h, v, remove)
      BY <3>1, PlainAddresses
    <3>5. PlainlyUpdated(UpdateGroupBy(avahi_server_decrease_host_rr_pending, u, v, "workstation", w), u, "workstation", w)
      BY <2>2, <3>4, PlainUpdate DEF PlainlyWalked
    <3> QED
      BY <2>1, <3>2, <3>3, <3>4, <3>5
  <2> QED
    BY <2>3, <2>4
<1> QED
  BY <1>1, <1>2

LEMMA PendingFinite ==
  ASSUME NEW h
  PROVE  /\ IsFiniteSet(Pending(h)) /\ Cardinality(Pending(h)) \in Nat
         /\ Cardinality(Pending(h)) <= Cardinality(Group) /\ Cardinality(Group) \in Nat
<1>1. IsFiniteSet(Group)
  <2>1. IsFiniteSet({"hinfo"}) /\ IsFiniteSet({"workstation"})
    BY FS_Singleton
  <2>2. IsFiniteSet({"hinfo"} \cup {"workstation"})
    BY <2>1, FS_Union
  <2>3. IsFiniteSet(Addr \cup ({"hinfo"} \cup {"workstation"}))
    BY <2>2, HostAssumption, FS_Union
  <2>4. Addr \cup ({"hinfo"} \cup {"workstation"}) = Group
    BY DEF Group
  <2> QED
    BY <2>3, <2>4
<1>2. Pending(h) \subseteq Group
  BY DEF Pending
<1> QED
  BY <1>1, <1>2, FS_Subset, FS_CardinalityType

\* How the number of groups that are being registered changes with one of them
LEMMA PendingMoves ==
  ASSUME NEW h, NEW t, NEW g \in Group, \A x \in Group \ {g} : t.group[x] = h.group[x]
  PROVE  /\ g \notin Pending(h) /\ g \in Pending(t) => Cardinality(Pending(t)) = Cardinality(Pending(h)) + 1
         /\ g \in Pending(h) /\ g \notin Pending(t) => Cardinality(Pending(t)) = Cardinality(Pending(h)) - 1
         /\ (g \in Pending(h) <=> g \in Pending(t)) => Pending(t) = Pending(h)
<1>1. ASSUME g \notin Pending(h), g \in Pending(t)
      PROVE  Cardinality(Pending(t)) = Cardinality(Pending(h)) + 1
  <2>1. Pending(t) = Pending(h) \cup {g}
    BY <1>1 DEF Pending
  <2> QED
    BY <1>1, <2>1, PendingFinite, FS_AddElement
<1>2. ASSUME g \in Pending(h), g \notin Pending(t)
      PROVE  Cardinality(Pending(t)) = Cardinality(Pending(h)) - 1
  <2>1. Pending(t) = Pending(h) \ {g}
    BY <1>2 DEF Pending
  <2> QED
    BY <1>2, <2>1, PendingFinite, FS_RemoveElement
<1>3. ASSUME g \in Pending(h) <=> g \in Pending(t)
      PROVE  Pending(t) = Pending(h)
  BY <1>3 DEF Pending
<1> QED
  BY <1>1, <1>2, <1>3

\* The last pending group makes the server RUNNING, which updates all addresses.
Declared(d, h, v) ==
  /\ d \in HostType /\ d.state = "RUNNING" /\ d.pending = 0 /\ d.name = h.name
  /\ SameOthers(d, h, v)
  /\ \A a \in Elements(v.addrs) : Up(d, a) <=> a \in Wanted(v)
  /\ ~v.known => d.group["workstation"] = h.group["workstation"]

LEMMA Decrease ==
  ASSUME NEW v, ViewOK(v), NEW h \in HostType, h.state = "REGISTERING", h.pending >= 1, NEW d,
         d = avahi_server_decrease_host_rr_pending(h, v)
  PROVE  /\ h.pending > 1 => d = [h EXCEPT !.pending = h.pending - 1]
         /\ h.pending = 1 => Declared(d, h, v)
<1>1. h.pending \in Nat
  BY DEF HostType
<1>2. PICK e : e = [h EXCEPT !.pending = @ - 1]
  OBVIOUS
<1>3. e \in HostType /\ e.pending = h.pending - 1 /\ e.state = h.state /\ e.name = h.name /\ e.group = h.group
  <2>1. h.pending - 1 \in Nat
    BY <1>1
  <2> QED
    BY <1>2, <2>1 DEF HostType
<1>4. d = IF e.pending = 0 THEN LeaveState(e, v, "RUNNING") ELSE e
  <2>1. h.pending # 0
    BY <1>1
  <2> QED
    BY <1>2, <2>1 DEF avahi_server_decrease_host_rr_pending
<1>5. CASE h.pending > 1
  <2>1. e.pending # 0 /\ h.pending # 1
    BY <1>1, <1>3, <1>5
  <2>2. [h EXCEPT !.pending = @ - 1] = [h EXCEPT !.pending = h.pending - 1]
    BY DEF HostType
  <2> QED
    BY <1>2, <1>4, <2>1, <2>2
<1>6. CASE h.pending = 1
  <2>1. e.pending = 0
    BY <1>3, <1>6
  <2>2. PICK f : f = [e EXCEPT !.state = "RUNNING"]
    OBVIOUS
  <2>3. f \in HostType /\ f.state = "RUNNING" /\ f.pending = 0 /\ f.name = h.name /\ f.group = h.group
    BY <1>3, <2>1, <2>2 DEF HostType
  <2>4. d = UpdateRRsBy(Aborted, f, v, FALSE)
    BY <1>3, <1>4, <2>1, <2>2 DEF LeaveState
  <2>5. PlainlyDone(d, f, v, FALSE)
    BY <2>3, <2>4, PlainRRs
  <2> QED
    BY <1>6, <2>3, <2>5 DEF PlainlyDone, Declared, SameOthers, Live
<1> QED
  BY <1>1, <1>5, <1>6

\* What an update of the address a does in a server that counts: it stays REGISTERING ...
Counts(t, h, a, w) ==
  /\ t \in HostType /\ t.state = "REGISTERING" /\ t.name = h.name
  /\ \A x \in Group \ {a} : t.group[x] = h.group[x]
  /\ Up(t, a) <=> w
  /\ h.pending >= 1 => t.pending >= 1
  /\ w \/ ~Up(h, a) => t.pending >= h.pending
  /\ t.pending + Cardinality(Pending(h)) <= h.pending + Cardinality(Pending(t))

\* ... or becomes RUNNING.
Runs(t, h, v, a, w) ==
  /\ t \in HostType /\ t.state = "RUNNING" /\ t.pending = 0 /\ t.name = h.name
  /\ SameOthers(t, h, v)
  /\ \A x \in Elements(v.addrs) \ {a} : Up(t, x) <=> x \in Wanted(v)
  /\ Up(t, a) <=> w
  /\ ~(h.pending >= 1 /\ (w \/ ~Up(h, a)))

LEMMA CountedUpdate ==
  ASSUME NEW v, ViewOK(v), NEW a \in Group, NEW h \in HostType, h.state = "REGISTERING", NEW w \in BOOLEAN,
         (w /\ h.pending >= 1) \/ (a \in Elements(v.addrs) /\ (w => a \in Wanted(v))),
         h.pending >= 1 \/ w \/ a \notin Pending(h),
         NEW t, t = UpdateGroupBy(avahi_server_decrease_host_rr_pending, h, v, a, w)
  PROVE  Counts(t, h, a, w) \/ Runs(t, h, v, a, w)
<1>1. a \in Elements(v.addrs) => a # "hinfo" /\ a # "workstation"
  BY HostAssumption DEF ViewOK, Elements
<1>2. PICK p \in Nat : p = h.pending
  BY DEF HostType
<1>3. PICK n \in Nat : n = Cardinality(Pending(h))
  BY PendingFinite
<1>4. PICK r, e : r = [state |-> "REGISTERING", name |-> h.name] /\ e = [state |-> "ESTABLISHED", name |-> h.name]
  OBVIOUS
<1>5. r \in GroupType /\ r # Empty /\ e \in GroupType /\ e # Empty /\ Empty \in GroupType /\ Empty.state = "UNCOMMITED"
  BY <1>4, GroupCommitted, EmptyType
<1>6. ~Up(h, a) => a \notin Pending(h)
  BY <1>5 DEF Up, Pending
<1>7. CASE w <=> Up(h, a)
  <2>1. t = h
    BY <1>7, Zenon DEF UpdateGroupBy, Up
  <2> QED
    BY <1>2, <1>3, <1>7, <2>1 DEF Counts
<1>8. CASE w /\ ~Up(h, a)
  <2>1. PICK c : c = [h EXCEPT !.group[a] = r, !.pending = p + 1]
    OBVIOUS
  <2>2. /\ c \in HostType /\ c.state = "REGISTERING" /\ c.pending = p + 1 /\ c.name = h.name
        /\ c.group[a] = r /\ \A x \in Group \ {a} : c.group[x] = h.group[x]
    <3>1. p + 1 \in Nat
      OBVIOUS
    <3> QED
      BY <1>1, <1>5, <2>1, <3>1 DEF HostType
  <2>3. t = IF a \in v.waits THEN c ELSE EstablishedBy(avahi_server_decrease_host_rr_pending, c, v, a)
    <3>1. [h EXCEPT !.group[a] = [state |-> "REGISTERING", name |-> h.name],
                    !.pending = IF h.state = "REGISTERING" THEN @ + 1 ELSE @] = c
      BY <1>2, <1>4, <2>1 DEF HostType
    <3> QED
      BY <1>8, <3>1, Zenon DEF UpdateGroupBy, CommitBy, Up
  <2>4. CASE a \in v.waits
    <3>1. a \in Pending(c)
      BY <1>1, <1>4, <2>2 DEF Pending
    <3>2. Cardinality(Pending(c)) = n + 1
      BY <1>1, <1>3, <1>6, <1>8, <2>2, <3>1, PendingMoves
    <3>3. Up(c, a)
      BY <1>5, <2>2 DEF Up
    <3>4. c.pending >= h.pending /\ (h.pending >= 1 => c.pending >= 1) /\ c.pending + n <= h.pending + (n + 1)
      BY <1>2, <2>2
    <3>5. t = c
      BY <2>3, <2>4
    <3> QED
      BY <1>3, <1>8, <2>2, <3>2, <3>3, <3>4, <3>5 DEF Counts
  <2>5. CASE a \notin v.waits
    <3>1. PICK f : f = [c EXCEPT !.group[a].state = "ESTABLISHED"]
      OBVIOUS
    <3>2. /\ f \in HostType /\ f.state = "REGISTERING" /\ f.pending = p + 1 /\ f.name = h.name
          /\ f.group[a] = e /\ \A x \in Group \ {a} : f.group[x] = h.group[x]
      <4>1. [r EXCEPT !.state = "ESTABLISHED"] = e
        BY <1>4
      <4>2. f = [c EXCEPT !.group[a] = e]
        BY <2>2, <3>1, <4>1 DEF HostType
      <4> QED
        BY <1>1, <1>5, <2>2, <4>2, GroupSet
    <3>3. t = avahi_server_decrease_host_rr_pending(f, v)
      BY <2>2, <2>3, <2>5, <3>1, Zenon DEF EstablishedBy
    <3>4. a \notin Pending(f)
      BY <1>4, <3>2 DEF Pending
    <3>5. f.pending >= 1
      BY <3>2
    <3>6. CASE p >= 1
      <4>1. t = [f EXCEPT !.pending = f.pending - 1]
        BY <3>2, <3>3, <3>5, <3>6, Decrease
      <4>2. f.pending - 1 = p
        BY <3>2
      <4>3. /\ t \in HostType /\ t.state = "REGISTERING" /\ t.pending = p /\ t.name = h.name
            /\ t.group = f.group
        BY <3>2, <4>1, <4>2 DEF HostType
      <4>4. Pending(t) = Pending(h)
        <5>1. a \notin Pending(t) /\ a \notin Pending(h)
          BY <1>6, <1>8, <3>4, <4>3 DEF Pending
        <5>2. \A x \in Group \ {a} : t.group[x] = h.group[x]
          BY <3>2, <4>3
        <5> QED
          BY <1>1, <5>1, <5>2, PendingMoves
      <4>5. Up(t, a)
        BY <1>5, <3>2, <4>3 DEF Up
      <4>6. t.pending >= h.pending /\ (h.pending >= 1 => t.pending >= 1) /\ t.pending + n <= h.pending + n
        BY <1>2, <4>3
      <4>7. \A x \in Group \ {a} : t.group[x] = h.group[x]
        BY <3>2, <4>3
      <4> QED
        BY <1>3, <1>8, <4>3, <4>4, <4>5, <4>6, <4>7 DEF Counts
    <3>7. CASE p = 0
      <4>1. Declared(t, f, v)
        BY <3>2, <3>3, <3>5, <3>7, Decrease
      <4>2. ~(h.pending >= 1) /\ a \in Elements(v.addrs) /\ a \in Wanted(v)
        BY <1>2, <1>8, <3>7
      <4>3. \A x \in (Addr \ Elements(v.addrs)) \cup {"hinfo"} : x \in Group \ {a}
        BY <1>1, <4>2 DEF Group
      <4>4. SameOthers(t, h, v)
        BY <3>2, <4>1, <4>3 DEF Declared, SameOthers
      <4>5. \A x \in Elements(v.addrs) : Up(t, x) <=> x \in Wanted(v)
        BY <4>1 DEF Declared
      <4>6. Up(t, a) <=> w
        BY <1>8, <4>2, <4>5
      <4> QED
        BY <3>2, <4>1, <4>2, <4>4, <4>5, <4>6 DEF Declared, Runs
    <3> QED
      BY <1>2, <3>6, <3>7
  <2> QED
    BY <2>4, <2>5
<1>9. CASE ~w /\ Up(h, a)
  <2>1. PICK d : d = IF h.group[a].state = "REGISTERING" /\ h.state = "REGISTERING"
                     THEN avahi_server_decrease_host_rr_pending(h, v) ELSE h
    OBVIOUS
  <2>2. t = [d EXCEPT !.group[a] = Empty]
    BY <1>9, <2>1, Zenon DEF UpdateGroupBy, WithdrawGroupBy, Up
  <2>3. CASE a \notin Pending(h)
    <3>1. d = h
      BY <1>1, <2>1, <2>3 DEF Pending
    <3>2. /\ t \in HostType /\ t.state = "REGISTERING" /\ t.pending = p /\ t.name = h.name
          /\ t.group[a] = Empty /\ \A x \in Group \ {a} : t.group[x] = h.group[x]
      BY <1>1, <1>2, <1>5, <2>2, <3>1, GroupSet
    <3>3. Pending(t) = Pending(h)
      <4>1. a \notin Pending(t)
        BY <1>5, <3>2 DEF Pending
      <4> QED
        BY <1>1, <2>3, <3>2, <4>1, PendingMoves
    <3> QED
      BY <1>2, <1>3, <1>9, <3>2, <3>3 DEF Counts, Up
  <2>4. CASE a \in Pending(h) /\ p > 1
    <3>1. d = [h EXCEPT !.pending = p - 1]
      BY <1>2, <2>1, <2>4, Decrease DEF Pending
    <3>2. d \in HostType /\ d.state = "REGISTERING" /\ d.pending = p - 1 /\ d.name = h.name /\ d.group = h.group
      <4>1. p - 1 \in Nat
        BY <2>4
      <4> QED
        BY <3>1, <4>1 DEF HostType
    <3>3. /\ t \in HostType /\ t.state = "REGISTERING" /\ t.pending = p - 1 /\ t.name = h.name
          /\ t.group[a] = Empty /\ \A x \in Group \ {a} : t.group[x] = h.group[x]
      BY <1>1, <1>5, <2>2, <3>2, GroupSet
    <3>4. Cardinality(Pending(t)) = n - 1
      <4>1. a \notin Pending(t)
        BY <1>5, <3>3 DEF Pending
      <4> QED
        BY <1>1, <1>3, <2>4, <3>3, <4>1, PendingMoves
    <3> QED
      BY <1>2, <1>3, <1>9, <2>4, <3>3, <3>4 DEF Counts, Up
  <2>5. CASE a \in Pending(h) /\ p <= 1
    <3>1. p = 1
      BY <1>2, <1>9, <2>5
    <3>2. Declared(d, h, v)
      BY <1>2, <2>1, <2>5, <3>1, Decrease DEF Pending
    <3>3. /\ t \in HostType /\ t.state = "RUNNING" /\ t.pending = 0 /\ t.name = h.name
          /\ t.group[a] = Empty /\ \A x \in Group \ {a} : t.group[x] = d.group[x]
      BY <1>1, <1>5, <2>2, <3>2, GroupSet DEF Declared
    <3>4. \A x \in (Addr \ Elements(v.addrs)) \cup {"hinfo"} : x \in Group \ {a}
      BY <1>1, <1>9 DEF Group
    <3>5. \A x \in Elements(v.addrs) \ {a} : x \in Group \ {a}
      BY DEF ViewOK, Elements, Group
    <3> QED
      BY <1>9, <3>2, <3>3, <3>4, <3>5 DEF Declared, Runs, SameOthers, Up
  <2> QED
    BY <1>2, <2>3, <2>4, <2>5
<1> QED
  BY <1>7, <1>8, <1>9

\* Nothing an update is to withdraw is published, and something is still waited for.
Steady(h, v, remove) ==
  h.pending >= 1 /\ \A a \in Elements(v.addrs) : Up(h, a) => a \in Wanted(v) /\ ~remove

\* Something is waited for, or nothing that is being registered is to be withdrawn.
Careful(h, v, remove) ==
  h.pending >= 1 \/ (~remove /\ \A a \in Elements(v.addrs) \cap Pending(h) : a \in Wanted(v))

\* A server that started at h0 still counts
Counting(h, h0, v, remove) ==
  /\ h.state = "REGISTERING" /\ h.group["workstation"] = h0.group["workstation"]
  /\ h.pending + Cardinality(Pending(h0)) <= h0.pending + Cardinality(Pending(h))
  /\ h0.pending >= 1 => h.pending >= 1
  /\ Careful(h, v, remove)
  /\ Steady(h0, v, remove) => Steady(h, v, remove) /\ h.pending >= h0.pending

\* A server that started at h0 and has become RUNNING on the way.  When its records are to be
\* withdrawn, those withdrawn before are published again.
Arrived(h, h0, v, remove) ==
  /\ h.state = "RUNNING" /\ h.pending = 0
  /\ ~Steady(h0, v, remove)
  /\ \A a \in Elements(v.addrs) : Up(h, a) => a \in Wanted(v)
  /\ ~remove => \A a \in Elements(v.addrs) : Up(h, a) <=> a \in Wanted(v)

\* What there is after k rounds
CountedSteps(h0, v, remove) ==
  [k \in 0..Len(v.addrs) |-> {h \in HostType :
     /\ h.name = h0.name /\ SameOthers(h, h0, v)
     /\ \/ /\ Counting(h, h0, v, remove)
           /\ \A j \in 1..k : Up(h, v.addrs[j]) <=> v.addrs[j] \in Wanted(v) /\ ~remove
        \/ Arrived(h, h0, v, remove)}]

\* A round of a server that counts, of which a is the address and w what becomes of it
LEMMA RoundOfCounting ==
  ASSUME NEW v, ViewOK(v), NEW remove \in BOOLEAN, NEW h0 \in HostType, NEW a \in Elements(v.addrs),
         NEW h \in HostType, Counting(h, h0, v, remove), h.name = h0.name, SameOthers(h, h0, v),
         NEW w \in BOOLEAN, w <=> a \in Wanted(v) /\ ~remove,
         NEW t, t = UpdateGroupBy(avahi_server_decrease_host_rr_pending, h, v, a, w)
  PROVE  /\ t \in HostType /\ t.name = h0.name /\ SameOthers(t, h0, v)
         /\ \/ /\ Counting(t, h0, v, remove) /\ (Up(t, a) <=> w)
               /\ \A x \in Group \ {a} : t.group[x] = h.group[x]
            \/ Arrived(t, h0, v, remove)
<1>1. a \in Addr /\ a \in Group /\ a # "hinfo" /\ a # "workstation" /\ "workstation" \in Group \ {a}
  BY HostAssumption DEF ViewOK, Elements, Group
<1>2. \A x \in Elements(v.addrs) : x \in Addr /\ x \in Group
  BY DEF ViewOK, Elements, Group
<1>3. \A x \in (Addr \ Elements(v.addrs)) \cup {"hinfo"} : x \in Group \ {a}
  BY <1>1 DEF Group
<1>4. h.pending >= 1 \/ w \/ a \notin Pending(h)
  BY DEF Counting, Careful
<1>5. h.state = "REGISTERING"
  BY DEF Counting
<1>6. Counts(t, h, a, w) \/ Runs(t, h, v, a, w)
  <2>1. a \in Elements(v.addrs) /\ (w => a \in Wanted(v))
    OBVIOUS
  <2> QED
    BY <1>1, <1>4, <1>5, <2>1, CountedUpdate
<1>7. Empty.state = "UNCOMMITED"
  BY EmptyType
<1>8. CASE Counts(t, h, a, w)
  <2>1. /\ t \in HostType /\ t.state = "REGISTERING" /\ t.name = h.name
        /\ \A x \in Group \ {a} : t.group[x] = h.group[x]
        /\ Up(t, a) <=> w
        /\ h.pending >= 1 => t.pending >= 1
        /\ w \/ ~Up(h, a) => t.pending >= h.pending
        /\ t.pending + Cardinality(Pending(h)) <= h.pending + Cardinality(Pending(t))
    BY <1>8 DEF Counts
  <2>2. SameOthers(t, h0, v)
    BY <1>3, <2>1 DEF SameOthers
  <2>3. t.group["workstation"] = h0.group["workstation"]
    BY <1>1, <2>1 DEF Counting
  <2>4. t.pending + Cardinality(Pending(h0)) <= h0.pending + Cardinality(Pending(t))
    <3>1. PICK m1, m2, m3 \in Nat : m1 = t.pending /\ m2 = h.pending /\ m3 = h0.pending
      BY <2>1 DEF HostType
    <3>2. PICK c1, c2, c3 \in Nat : /\ c1 = Cardinality(Pending(t)) /\ c2 = Cardinality(Pending(h))
                                    /\ c3 = Cardinality(Pending(h0))
      BY PendingFinite
    <3>3. m1 + c2 <= m2 + c1
      BY <2>1, <3>1, <3>2
    <3>4. m2 + c3 <= m3 + c2
      BY <3>1, <3>2 DEF Counting
    <3>5. m1 + c3 <= m3 + c1
      BY <3>3, <3>4
    <3> QED
      BY <3>1, <3>2, <3>5
  <2>5. Careful(t, v, remove)
    <3>1. CASE h.pending >= 1
      BY <2>1, <3>1 DEF Careful
    <3>2. CASE ~remove /\ \A x \in Elements(v.addrs) \cap Pending(h) : x \in Wanted(v)
      <4>1. ASSUME NEW x \in Elements(v.addrs) \cap Pending(t)
            PROVE  x \in Wanted(v)
        <5>1. CASE x = a
          BY <1>7, <2>1, <4>1, <5>1 DEF Pending, Up
        <5>2. CASE x # a
          BY <1>2, <2>1, <3>2, <4>1, <5>2 DEF Pending
        <5> QED
          BY <5>1, <5>2
      <4> QED
        BY <3>2, <4>1 DEF Careful
    <3> QED
      BY <3>1, <3>2 DEF Counting, Careful
  <2>6. ASSUME Steady(h0, v, remove)
        PROVE  Steady(t, v, remove) /\ t.pending >= h0.pending
    <3>1. Steady(h, v, remove) /\ h.pending >= h0.pending
      BY <2>6 DEF Counting
    <3>2. w \/ ~Up(h, a)
      BY <3>1 DEF Steady
    <3>3. t.pending >= h.pending /\ t.pending >= 1
      BY <2>1, <3>1, <3>2 DEF Steady
    <3>4. t.pending >= h0.pending
      <4>1. PICK m1, m2, m3 \in Nat : m1 = t.pending /\ m2 = h.pending /\ m3 = h0.pending
        BY <2>1 DEF HostType
      <4>2. m1 >= m2 /\ m2 >= m3
        BY <3>1, <3>3, <4>1
      <4> QED
        BY <4>1, <4>2
    <3>5. \A x \in Elements(v.addrs) : Up(t, x) => x \in Wanted(v) /\ ~remove
      BY <1>2, <2>1, <3>1 DEF Steady, Up
    <3> QED
      BY <3>3, <3>4, <3>5 DEF Steady
  <2>7. h0.pending >= 1 => t.pending >= 1
    BY <2>1 DEF Counting
  <2>8. Counting(t, h0, v, remove)
    BY <2>1, <2>3, <2>4, <2>5, <2>6, <2>7 DEF Counting
  <2> QED
    BY <2>1, <2>2, <2>8
<1>9. CASE Runs(t, h, v, a, w)
  <2>1. t \in HostType /\ t.state = "RUNNING" /\ t.pending = 0 /\ t.name = h.name
    BY <1>9 DEF Runs
  <2>2. SameOthers(t, h0, v)
    BY <1>9 DEF Runs, SameOthers
  <2>3. ~Steady(h0, v, remove)
    <3> SUFFICES ASSUME Steady(h0, v, remove) PROVE FALSE
      OBVIOUS
    <3>1. Steady(h, v, remove)
      BY DEF Counting
    <3> QED
      BY <1>9, <3>1 DEF Steady, Runs
  <2>4. \A x \in Elements(v.addrs) : Up(t, x) => x \in Wanted(v)
    BY <1>9 DEF Runs
  <2>5. ~remove => \A x \in Elements(v.addrs) : Up(t, x) <=> x \in Wanted(v)
    BY <1>9 DEF Runs
  <2> QED
    BY <2>1, <2>2, <2>3, <2>4, <2>5 DEF Arrived
<1> QED
  BY <1>6, <1>8, <1>9

\* A round of a server that is RUNNING already
LEMMA RoundOfArrived ==
  ASSUME NEW v, ViewOK(v), NEW remove \in BOOLEAN, NEW h0 \in HostType, NEW a \in Elements(v.addrs),
         NEW h \in HostType, Arrived(h, h0, v, remove), h.name = h0.name, SameOthers(h, h0, v),
         NEW w \in BOOLEAN, w <=> a \in Wanted(v) /\ ~remove,
         NEW t, t = UpdateGroupBy(avahi_server_decrease_host_rr_pending, h, v, a, w)
  PROVE  t \in HostType /\ t.name = h0.name /\ SameOthers(t, h0, v) /\ Arrived(t, h0, v, remove)
<1>1. a \in Addr /\ a \in Group /\ a # "hinfo" /\ a # "workstation"
  BY HostAssumption DEF ViewOK, Elements, Group
<1>2. \A x \in Elements(v.addrs) : x \in Addr /\ x \in Group
  BY DEF ViewOK, Elements, Group
<1>3. \A x \in (Addr \ Elements(v.addrs)) \cup {"hinfo"} : x \in Group \ {a}
  BY <1>1 DEF Group
<1>4. h.state # "REGISTERING" /\ h.state = "RUNNING" /\ h.pending = 0
  BY DEF Arrived
<1>5. PlainlyUpdated(t, h, a, w)
  BY <1>1, <1>4, PlainUpdate
<1>6. /\ t \in HostType /\ t.state = "RUNNING" /\ t.pending = 0 /\ t.name = h0.name
      /\ Up(t, a) <=> w
      /\ \A x \in Group \ {a} : t.group[x] = h.group[x]
  BY <1>4, <1>5 DEF PlainlyUpdated
<1>7. SameOthers(t, h0, v)
  BY <1>3, <1>6 DEF SameOthers
<1>8. \A x \in Elements(v.addrs) : Up(t, x) => x \in Wanted(v)
  BY <1>2, <1>6 DEF Arrived, Up
<1>9. ~remove => \A x \in Elements(v.addrs) : Up(t, x) <=> x \in Wanted(v)
  BY <1>2, <1>6 DEF Arrived, Up
<1> QED
  BY <1>6, <1>7, <1>8, <1>9 DEF Arrived

LEMMA CountedStep ==
  ASSUME NEW v, ViewOK(v), NEW remove \in BOOLEAN, NEW h0 \in HostType,
         NEW k \in 1..Len(v.addrs), NEW h \in CountedSteps(h0, v, remove)[k - 1], NEW t,
         t = UpdateAddress(h, v, v.addrs[k], remove)
  PROVE  t \in CountedSteps(h0, v, remove)[k]
<1>1. PICK n \in Nat : n = Len(v.addrs) /\ DOMAIN v.addrs = 1..n
  BY DEF ViewOK
<1>2. k \in 1..n /\ k - 1 \in 0..n /\ k \in 0..n /\ \A j \in 1..k : j = k \/ j \in 1..(k - 1)
  BY <1>1
<1>3. /\ h \in HostType /\ h.name = h0.name /\ SameOthers(h, h0, v)
      /\ \/ /\ Counting(h, h0, v, remove)
            /\ \A j \in 1..(k - 1) : Up(h, v.addrs[j]) <=> v.addrs[j] \in Wanted(v) /\ ~remove
         \/ Arrived(h, h0, v, remove)
  BY <1>1, <1>2 DEF CountedSteps
<1>4. PICK a \in Elements(v.addrs) : a = v.addrs[k]
  BY <1>1, <1>2 DEF Elements
<1>5. PICK w : w = (a \in Wanted(v) /\ ~remove /\ Live(h.state))
  OBVIOUS
<1>6. w \in BOOLEAN /\ a \in Group /\ t = UpdateGroupBy(avahi_server_decrease_host_rr_pending, h, v, a, w)
  <2>1. t = UpdateAddress(h, v, a, remove)
    BY <1>4
  <2>2. /\ w \in BOOLEAN /\ a \in Group
        /\ UpdateAddress(h, v, a, remove) = UpdateGroupBy(avahi_server_decrease_host_rr_pending, h, v, a, w)
    BY <1>5, AddressUpdate
  <2> QED
    BY <2>1, <2>2, Zenon
<1>7. Live(h.state)
  BY <1>3 DEF Counting, Arrived, Live
<1>8. w <=> a \in Wanted(v) /\ ~remove
  BY <1>5, <1>7
<1>9. CASE /\ Counting(h, h0, v, remove)
           /\ \A j \in 1..(k - 1) : Up(h, v.addrs[j]) <=> v.addrs[j] \in Wanted(v) /\ ~remove
  <2>1. /\ t \in HostType /\ t.name = h0.name /\ SameOthers(t, h0, v)
        /\ \/ /\ Counting(t, h0, v, remove) /\ (Up(t, a) <=> w)
              /\ \A x \in Group \ {a} : t.group[x] = h.group[x]
           \/ Arrived(t, h0, v, remove)
    BY <1>3, <1>6, <1>8, <1>9, RoundOfCounting
  <2>2. CASE Arrived(t, h0, v, remove)
    BY <1>1, <1>2, <2>1, <2>2 DEF CountedSteps
  <2>3. CASE /\ Counting(t, h0, v, remove) /\ (Up(t, a) <=> w)
             /\ \A x \in Group \ {a} : t.group[x] = h.group[x]
    <3>1. ASSUME NEW j \in 1..k
          PROVE  Up(t, v.addrs[j]) <=> v.addrs[j] \in Wanted(v) /\ ~remove
      <4>1. CASE v.addrs[j] = a
        BY <1>8, <2>3, <4>1
      <4>2. CASE v.addrs[j] # a
        <5>1. j \in 1..(k - 1) /\ v.addrs[j] \in Group
          <6>1. v.addrs[j] \in Addr
            BY <1>1, <1>2 DEF ViewOK
          <6> QED
            BY <1>2, <1>4, <4>2, <6>1 DEF Group
        <5> QED
          BY <1>9, <2>3, <4>2, <5>1 DEF Up
      <4> QED
        BY <4>1, <4>2
    <3> QED
      BY <1>1, <1>2, <2>1, <2>3, <3>1 DEF CountedSteps
  <2> QED
    BY <2>1, <2>2, <2>3
<1>10. CASE Arrived(h, h0, v, remove)
  <2>1. t \in HostType /\ t.name = h0.name /\ SameOthers(t, h0, v) /\ Arrived(t, h0, v, remove)
    BY <1>3, <1>6, <1>8, <1>10, RoundOfArrived
  <2> QED
    BY <1>1, <1>2, <2>1 DEF CountedSteps
<1> QED
  BY <1>3, <1>9, <1>10

\* What a walk of a server that counts leaves
CountedWalked(t, h, v, remove) ==
  /\ t \in HostType /\ t.name = h.name /\ SameOthers(t, h, v)
  /\ \/ /\ Counting(t, h, v, remove)
        /\ \A a \in Elements(v.addrs) : Up(t, a) <=> a \in Wanted(v) /\ ~remove
     \/ Arrived(t, h, v, remove)

LEMMA CountedAddresses ==
  ASSUME NEW v, ViewOK(v), NEW remove \in BOOLEAN, NEW h \in HostType, h.state = "REGISTERING",
         Careful(h, v, remove)
  PROVE  CountedWalked(UpdateAddresses(h, v, remove), h, v, remove)
<1> DEFINE G == CountedSteps(h, v, remove)
<1>1. PICK n \in Nat : n = Len(v.addrs) /\ DOMAIN v.addrs = 1..n
  BY DEF ViewOK
<1>2. h \in G[0]
  <2>1. 0 \in 0..n /\ 1..0 = {}
    BY <1>1
  <2>2. h.pending \in Nat /\ Cardinality(Pending(h)) \in Nat
    BY PendingFinite DEF HostType
  <2>3. Counting(h, h, v, remove)
    BY <2>2 DEF Counting
  <2>4. SameOthers(h, h, v)
    BY DEF SameOthers
  <2> QED
    BY <1>1, <2>1, <2>3, <2>4 DEF CountedSteps
<1>3. PICK p : p = [v |-> v, remove |-> remove]
  OBVIOUS
<1>4. p.v = v /\ p.remove = remove
  BY <1>3
<1>5. \A k \in 1..n : \A s \in G[k - 1] : CountedRound(p, s, v.addrs[k]) \in G[k]
  BY <1>1, <1>4, CountedStep DEF CountedRound
<1> HIDE DEF G
<1>6. CountedWalk!Folded(p, h, v.addrs) \in G[n]
  BY <1>1, <1>2, <1>5, CountedWalk!FoldKeepsEach
<1>7. CountedWalk!Folded(p, h, v.addrs) = UpdateAddresses(h, v, remove)
  <2>1. CountedWalk!Folded(p, h, p.v.addrs) = UpdateAddresses(h, p.v, p.remove)
    BY DEF UpdateAddresses, UpdateAddressesBy, UpdateAddress, CountedRound, FoldLeft, MapThenFoldSet, Max,
           CountedWalk!Folded, CountedWalk!FoldLeft, CountedWalk!MapThenFoldSet, CountedWalk!Max
  <2> QED
    BY <1>4, <2>1, Zenon
<1>8. ASSUME NEW t \in G[n]
      PROVE  CountedWalked(t, h, v, remove)
  <2>1. n \in 0..n /\ Elements(v.addrs) = {v.addrs[j] : j \in 1..n}
    BY <1>1 DEF Elements
  <2>2. /\ t \in HostType /\ t.name = h.name /\ SameOthers(t, h, v)
        /\ \/ /\ Counting(t, h, v, remove)
              /\ \A j \in 1..n : Up(t, v.addrs[j]) <=> v.addrs[j] \in Wanted(v) /\ ~remove
           \/ Arrived(t, h, v, remove)
    BY <1>1, <2>1 DEF G, CountedSteps
  <2>3. CASE Arrived(t, h, v, remove)
    BY <2>2, <2>3 DEF CountedWalked
  <2>4. CASE /\ Counting(t, h, v, remove)
             /\ \A j \in 1..n : Up(t, v.addrs[j]) <=> v.addrs[j] \in Wanted(v) /\ ~remove
    <3>1. \A a \in Elements(v.addrs) : Up(t, a) <=> a \in Wanted(v) /\ ~remove
      BY <2>1, <2>4
    <3> QED
      BY <2>2, <2>4, <3>1 DEF CountedWalked
  <2> QED
    BY <2>2, <2>3, <2>4
<1> QED
  BY <1>6, <1>7, <1>8

\* What an update of a server that counts leaves
CountedDone(t, h, v, remove) ==
  /\ CountedWalked(t, h, v, remove)
  /\ t.state = "REGISTERING" => ~Up(t, "workstation")
  /\ ~v.known => t.group["workstation"] = h.group["workstation"]
  /\ v.known /\ remove => ~Up(t, "workstation")

LEMMA CountedRRs ==
  ASSUME NEW v, ViewOK(v), NEW remove \in BOOLEAN, NEW h \in HostType, h.state = "REGISTERING",
         Careful(h, v, remove), ~Up(h, "workstation")
  PROVE  CountedDone(UpdateRRs(h, v, remove), h, v, remove)
<1>1. CASE ~v.known
  <2>1. UpdateRRs(h, v, remove) = h
    BY <1>1, Zenon DEF UpdateRRsBy, UpdateRRs
  <2>2. Elements(v.addrs) = {}
    BY <1>1 DEF ViewOK, Elements
  <2>3. h.pending \in Nat /\ Cardinality(Pending(h)) \in Nat
    BY PendingFinite DEF HostType
  <2>4. Counting(h, h, v, remove)
    BY <2>3 DEF Counting
  <2> QED
    BY <1>1, <2>1, <2>2, <2>4 DEF CountedDone, CountedWalked, SameOthers
<1>2. CASE v.known
  <2>1. PICK u : u = UpdateAddresses(h, v, remove)
    OBVIOUS
  <2>2. CountedWalked(u, h, v, remove)
    BY <2>1, CountedAddresses
  <2>3. PICK w \in BOOLEAN : w = (v.complete /\ ~remove /\ "workstation" \in Extra /\ u.state = "RUNNING")
    OBVIOUS
  <2>4. PICK t : t = UpdateGroupBy(avahi_server_decrease_host_rr_pending, u, v, "workstation", w)
    OBVIOUS
  <2>5. UpdateRRs(h, v, remove) = t
    BY <1>2, <2>1, <2>3, <2>4, Zenon DEF UpdateRRsBy, UpdateRRs, UpdateAddresses
  <2>6. CASE u.state = "REGISTERING"
    <3>1. ~w /\ ~Up(u, "workstation")
      BY <2>2, <2>3, <2>6 DEF CountedWalked, Counting, Arrived, Up
    <3>2. t = u
      BY <2>4, <3>1, Zenon DEF UpdateGroupBy, Up
    <3> QED
      BY <1>2, <2>2, <2>5, <3>1, <3>2 DEF CountedDone
  <2>7. CASE u.state # "REGISTERING"
    <3>1. "workstation" \in Group /\ u \in HostType
      BY <2>2 DEF Group, CountedWalked
    <3>2. PlainlyUpdated(t, u, "workstation", w)
      BY <2>4, <2>7, <3>1, PlainUpdate
    <3>3. Arrived(u, h, v, remove)
      BY <2>2, <2>7 DEF CountedWalked, Counting
    <3>4. \A x \in Addr \cup {"hinfo"} : x \in Group \ {"workstation"}
      BY HostAssumption DEF Group
    <3>5. \A x \in Elements(v.addrs) : x \in Addr
      BY DEF ViewOK, Elements
    <3>6. \A x \in Elements(v.addrs) : Up(t, x) <=> Up(u, x)
      BY <3>2, <3>4, <3>5 DEF PlainlyUpdated, Up
    <3>7. SameOthers(t, h, v)
      BY <2>2, <3>2, <3>4 DEF CountedWalked, SameOthers, PlainlyUpdated
    <3>8. t \in HostType /\ t.name = h.name /\ t.state = "RUNNING" /\ t.pending = 0
      BY <2>2, <3>2, <3>3 DEF CountedWalked, PlainlyUpdated, Arrived
    <3>9. Arrived(t, h, v, remove)
      BY <3>3, <3>6, <3>8 DEF Arrived
    <3>10. remove => ~Up(t, "workstation")
      BY <2>3, <3>2 DEF PlainlyUpdated
    <3> QED
      BY <1>2, <2>5, <3>7, <3>8, <3>9, <3>10 DEF CountedDone, CountedWalked
  <2> QED
    BY <2>6, <2>7
<1> QED
  BY <1>1, <1>2

\* A server whose records may have become out of date, given what is known now ...
Sound(h, v) ==
  /\ h \in HostType
  /\ IF h.state = "REGISTERING" THEN h.pending \in 1..Cardinality(Pending(h)) ELSE h.pending = 0
  /\ \A a \in Addr \ Elements(v.addrs) : ~Up(h, a)
  /\ Live(h.state) \/ \A g \in Group : ~Up(h, g)
  /\ h.state = "REGISTERING" \/ ~v.known => ~Up(h, "workstation")

\* ... and one whose records are what they should be
Current(h, v) == Sound(h, v) /\ \A a \in Elements(v.addrs) : Up(h, a) <=> a \in Wanted(v) /\ Live(h.state)

\* What is counted is being registered.
LEMMA CountedArePending ==
  ASSUME NEW h \in HostType, NEW t \in HostType, NEW v, NEW remove, Counting(t, h, v, remove),
         h.pending <= Cardinality(Pending(h))
  PROVE  t.pending <= Cardinality(Pending(t))
<1>1. PICK m1, m2 \in Nat : m1 = t.pending /\ m2 = h.pending
  BY DEF HostType
<1>2. PICK c1, c2 \in Nat : c1 = Cardinality(Pending(t)) /\ c2 = Cardinality(Pending(h))
  BY PendingFinite
<1>3. m1 + c2 <= m2 + c1 /\ m2 <= c2
  BY <1>1, <1>2 DEF Counting
<1>4. m1 <= c1
  BY <1>3
<1> QED
  BY <1>1, <1>2, <1>4

\* An update of the records makes them what they should be.
LEMMA UpdatedIsCurrent ==
  ASSUME NEW v, ViewOK(v), NEW h, Sound(h, v)
  PROVE  /\ Current(UpdateRRs(h, v, FALSE), v)
         /\ v.known => Current(UpdateAddresses(h, v, FALSE), v)
<1>1. h \in HostType /\ h.pending \in Nat /\ Cardinality(Pending(h)) \in Nat
  BY PendingFinite DEF Sound, HostType
<1>2. \A a \in Addr \ Elements(v.addrs) : a \in (Addr \ Elements(v.addrs)) \cup {"hinfo"} /\ a \in Group \ Elements(v.addrs)
  BY DEF Group
<1>3. {"hinfo", "workstation"} \subseteq Group \ Elements(v.addrs)
  BY HostAssumption DEF ViewOK, Elements, Group
<1>4. CASE h.state = "REGISTERING"
  <2>1. h.pending >= 1 /\ h.pending <= Cardinality(Pending(h)) /\ ~Up(h, "workstation") /\ Careful(h, v, FALSE)
    BY <1>4 DEF Sound, Careful
  <2>2. ASSUME NEW t, CountedWalked(t, h, v, FALSE), t.state = "REGISTERING" \/ ~v.known => ~Up(t, "workstation")
        PROVE  Current(t, v)
    <3>1. t \in HostType /\ t.pending \in Nat /\ Cardinality(Pending(t)) \in Nat
      BY <2>2, PendingFinite DEF CountedWalked, HostType
    <3>2. \A a \in Addr \ Elements(v.addrs) : ~Up(t, a)
      BY <1>2, <2>2 DEF CountedWalked, SameOthers, Sound, Up
    <3>3. CASE Arrived(t, h, v, FALSE)
      BY <2>2, <3>1, <3>2, <3>3 DEF Arrived, Current, Sound, Live
    <3>4. CASE Counting(t, h, v, FALSE) /\ \A a \in Elements(v.addrs) : Up(t, a) <=> a \in Wanted(v)
      <4>1. t.pending <= Cardinality(Pending(t)) /\ t.pending >= 1 /\ t.state = "REGISTERING"
        BY <1>1, <2>1, <3>1, <3>4, CountedArePending DEF Counting
      <4>2. t.pending \in 1..Cardinality(Pending(t))
        BY <3>1, <4>1
      <4> QED
        BY <2>2, <3>1, <3>2, <3>4, <4>1, <4>2 DEF Current, Sound, Live
    <3> QED
      BY <2>2, <3>3, <3>4 DEF CountedWalked
  <2>3. CountedDone(UpdateRRs(h, v, FALSE), h, v, FALSE)
    BY <1>1, <1>4, <2>1, CountedRRs
  <2>4. Current(UpdateRRs(h, v, FALSE), v)
    BY <2>1, <2>2, <2>3 DEF CountedDone, Up
  <2>5. CountedWalked(UpdateAddresses(h, v, FALSE), h, v, FALSE)
    BY <1>1, <1>4, <2>1, CountedAddresses
  <2>6. v.known => Current(UpdateAddresses(h, v, FALSE), v)
    <3>1. PICK t : t = UpdateAddresses(h, v, FALSE)
      OBVIOUS
    <3>2. t.state = "REGISTERING" => ~Up(t, "workstation")
      BY <2>1, <2>5, <3>1 DEF CountedWalked, Counting, Arrived, Up
    <3> QED
      BY <2>2, <2>5, <3>1, <3>2
  <2> QED
    BY <2>4, <2>6
<1>5. CASE h.state # "REGISTERING"
  <2>1. h.pending = 0
    BY <1>5 DEF Sound
  <2>2. PlainlyDone(UpdateRRs(h, v, FALSE), h, v, FALSE) /\ PlainlyWalked(UpdateAddresses(h, v, FALSE), h, v, FALSE)
    BY <1>1, <1>5, PlainRRs, PlainAddresses
  <2>3. ASSUME NEW t \in HostType, t.state = h.state, t.pending = h.pending,
               \A x \in (Addr \ Elements(v.addrs)) \cup {"hinfo"} : t.group[x] = h.group[x],
               \A a \in Elements(v.addrs) : Up(t, a) <=> a \in Wanted(v) /\ Live(h.state),
               ~Live(h.state) \/ ~v.known => ~Up(t, "workstation")
        PROVE  Current(t, v)
    <3>1. \A a \in Addr \ Elements(v.addrs) : ~Up(t, a)
      BY <1>2, <2>3 DEF Sound, Up
    <3>2. ASSUME ~Live(t.state), NEW g \in Group
          PROVE  ~Up(t, g)
      <4>1. CASE g \in Addr
        BY <2>3, <3>1, <3>2, <4>1
      <4>2. CASE g = "hinfo"
        BY <2>3, <3>2, <4>2 DEF Sound, Up
      <4>3. CASE g = "workstation"
        BY <2>3, <3>2, <4>3
      <4> QED
        BY <4>1, <4>2, <4>3 DEF Group
    <3> QED
      BY <1>5, <2>1, <2>3, <3>1, <3>2 DEF Current, Sound
  <2>4. Current(UpdateRRs(h, v, FALSE), v)
    <3>1. PICK t : t = UpdateRRs(h, v, FALSE)
      OBVIOUS
    <3>2. /\ t \in HostType /\ t.state = h.state /\ t.pending = h.pending
          /\ \A x \in (Addr \ Elements(v.addrs)) \cup {"hinfo"} : t.group[x] = h.group[x]
          /\ \A a \in Elements(v.addrs) : Up(t, a) <=> a \in Wanted(v) /\ Live(h.state)
      BY <2>2, <3>1 DEF PlainlyDone, SameOthers
    <3>3. ~Live(h.state) \/ ~v.known => ~Up(t, "workstation")
      <4>1. CASE v.known
        BY <2>2, <3>1, <4>1 DEF PlainlyDone, Live
      <4>2. CASE ~v.known
        BY <2>2, <3>1, <4>2 DEF PlainlyDone, Sound, Up
      <4> QED
        BY <4>1, <4>2
    <3> QED
      BY <2>3, <3>1, <3>2, <3>3
  <2>5. ASSUME v.known
        PROVE  Current(UpdateAddresses(h, v, FALSE), v)
    <3>1. PICK t : t = UpdateAddresses(h, v, FALSE)
      OBVIOUS
    <3>2. /\ t \in HostType /\ t.state = h.state /\ t.pending = h.pending
          /\ \A x \in Group \ Elements(v.addrs) : t.group[x] = h.group[x]
          /\ \A a \in Elements(v.addrs) : Up(t, a) <=> a \in Wanted(v) /\ Live(h.state)
      BY <2>2, <3>1 DEF PlainlyWalked
    <3>3. ~Live(h.state) \/ ~v.known => ~Up(t, "workstation")
      BY <1>3, <2>5, <3>2 DEF Sound, Up
    <3> QED
      BY <1>2, <1>3, <2>3, <3>1, <3>2, <3>3
  <2> QED
    BY <2>4, <2>5
<1> QED
  BY <1>4, <1>5

\* After a withdrawal an address is at most published again.
Cleared(h, v) ==
  /\ h \in HostType /\ h.pending = 0
  /\ ~Up(h, "hinfo") /\ ~Up(h, "workstation")
  /\ \A a \in Addr : Up(h, a) => a \in Wanted(v)

LEMMA ClearedByWithdrawal ==
  ASSUME NEW v, ViewOK(v), NEW h \in HostType,
         h.state = "REGISTERING" => h.pending >= 1 /\ ~Up(h, "workstation"),
         h.state # "REGISTERING" => h.pending = 0,
         \A a \in Addr \ Elements(v.addrs) : ~Up(h, a),
         ~v.known => ~Up(h, "workstation"),
         NEW t, t = withdraw_host_rrs(h, v)
  PROVE  /\ Cleared(t, v) /\ t.name = h.name
         /\ Live(h.state) => Live(t.state)
         /\ ~Live(h.state) => t.state = h.state
<1>1. PICK e : e = [h EXCEPT !.group["hinfo"] = Empty]
  OBVIOUS
<1>2. "hinfo" \in Group /\ "workstation" \in Group \ {"hinfo"} /\ \A a \in Addr : a \in Group \ {"hinfo"}
  BY HostAssumption DEF Group
<1>3. /\ e \in HostType /\ e.state = h.state /\ e.pending = h.pending /\ e.name = h.name
      /\ e.group["hinfo"] = Empty /\ \A x \in Group \ {"hinfo"} : e.group[x] = h.group[x]
  <2>1. Empty \in GroupType
    BY EmptyType
  <2> QED
    BY <1>1, <1>2, <2>1 DEF HostType
<1>4. PICK u : u = UpdateRRs(e, v, TRUE)
  OBVIOUS
<1>5. t = [u EXCEPT !.pending = 0]
  BY <1>1, <1>4 DEF withdraw_host_rrs
<1>6. ASSUME u \in HostType, u.name = h.name, SameOthers(u, e, v),
             \A a \in Elements(v.addrs) : Up(u, a) => a \in Wanted(v),
             ~Up(u, "workstation")
      PROVE  Cleared(t, v) /\ t.name = h.name /\ t.state = u.state
  <2>1. t \in HostType /\ t.pending = 0 /\ t.state = u.state /\ t.group = u.group /\ t.name = u.name
    BY <1>5, <1>6 DEF HostType
  <2>2. ~Up(u, "hinfo")
    BY <1>3, <1>6 DEF SameOthers, Up
  <2>3. \A a \in Addr \ Elements(v.addrs) : ~Up(u, a)
    BY <1>2, <1>3, <1>6 DEF SameOthers, Up
  <2> QED
    BY <1>6, <2>1, <2>2, <2>3 DEF Cleared, Up
<1>7. CASE h.state = "REGISTERING"
  <2>1. ~Up(e, "workstation") /\ Careful(e, v, TRUE)
    BY <1>2, <1>3, <1>7 DEF Up, Careful
  <2>2. CountedDone(u, e, v, TRUE)
    BY <1>3, <1>4, <1>7, <2>1, CountedRRs
  <2>3. ~Up(u, "workstation")
    BY <2>1, <2>2 DEF CountedDone, Up
  <2>4. u \in HostType /\ u.name = h.name /\ SameOthers(u, e, v)
    BY <1>3, <2>2 DEF CountedDone, CountedWalked
  <2>5. Live(u.state) /\ \A a \in Elements(v.addrs) : Up(u, a) => a \in Wanted(v)
    BY <2>2 DEF CountedDone, CountedWalked, Counting, Arrived, Live
  <2> QED
    BY <1>6, <1>7, <2>3, <2>4, <2>5 DEF Live
<1>8. CASE h.state # "REGISTERING"
  <2>1. PlainlyDone(u, e, v, TRUE)
    BY <1>3, <1>4, <1>8, PlainRRs
  <2>2. ~Up(u, "workstation")
    BY <1>2, <1>3, <2>1 DEF PlainlyDone, Up
  <2>3. /\ u \in HostType /\ u.name = h.name /\ SameOthers(u, e, v) /\ u.state = h.state
        /\ \A a \in Elements(v.addrs) : Up(u, a) => a \in Wanted(v)
    BY <1>3, <2>1 DEF PlainlyDone
  <2> QED
    BY <1>6, <2>2, <2>3
<1> QED
  BY <1>7, <1>8

\* The server while it registers, before what it counts for itself is taken back
Registering(s, v, n) ==
  /\ s \in HostType /\ s.state = "REGISTERING"
  /\ s.pending >= n /\ s.pending <= Cardinality(Pending(s)) + n
  /\ ~Up(s, "workstation")
  /\ \A a \in Addr : Up(s, a) => a \in Wanted(v)

\* ... and when it got through to RUNNING on the way
Through(s, v, n) ==
  /\ s \in HostType /\ s.state = "RUNNING" /\ s.pending = n
  /\ ~v.known => ~Up(s, "workstation")
  /\ \A a \in Addr : Up(s, a) => a \in Wanted(v)

\* register_stuff enters the state REGISTERING.
LEMMA EntersRegistering ==
  ASSUME NEW v, ViewOK(v), NEW h, Cleared(h, v), NEW s, s = server_set_state(h, v, "REGISTERING")
  PROVE  (Registering(s, v, 0) \/ Through(s, v, 0)) /\ s.name = h.name /\ ~Up(s, "hinfo")
<1>1. \A a \in Addr \ Elements(v.addrs) : a \in (Addr \ Elements(v.addrs)) \cup {"hinfo"} /\ ~Up(h, a)
  BY DEF Cleared, Wanted
<1>2. h \in HostType /\ h.pending = 0 /\ Cardinality(Pending(h)) \in Nat
  BY PendingFinite DEF Cleared
<1>3. CASE h.state = "REGISTERING"
  <2>1. s = h
    BY <1>3 DEF server_set_state
  <2> QED
    BY <1>2, <1>3, <2>1 DEF Cleared, Registering
<1>4. CASE h.state # "REGISTERING"
  <2>1. PICK e : e = [h EXCEPT !.state = "REGISTERING"]
    OBVIOUS
  <2>2. e \in HostType /\ e.state = "REGISTERING" /\ e.pending = 0 /\ e.name = h.name /\ e.group = h.group
    BY <1>2, <2>1 DEF HostType
  <2>3. s = UpdateRRs(e, v, FALSE)
    BY <1>4, <2>1 DEF server_set_state
  <2>4. Careful(e, v, FALSE)
    <3>1. \A a \in Addr \cap Pending(e) : Up(h, a)
      BY <1>2, <2>2, EmptyType DEF Pending, Up
    <3>2. Elements(v.addrs) \subseteq Addr
      BY DEF ViewOK, Elements
    <3> QED
      BY <3>1, <3>2 DEF Careful, Cleared
  <2>5. ~Up(e, "workstation") /\ ~Up(e, "hinfo")
    BY <2>2 DEF Cleared, Up
  <2>6. CountedDone(s, e, v, FALSE)
    BY <2>2, <2>3, <2>4, <2>5, CountedRRs
  <2>7. s \in HostType /\ s.name = h.name /\ SameOthers(s, e, v)
    BY <2>2, <2>6 DEF CountedDone, CountedWalked
  <2>8. ~Up(s, "hinfo") /\ \A a \in Addr \ Elements(v.addrs) : ~Up(s, a)
    BY <1>1, <2>2, <2>5, <2>7 DEF SameOthers, Up
  <2>9. \A a \in Addr : Up(s, a) => a \in Wanted(v)
    BY <2>6, <2>8 DEF CountedDone, CountedWalked, Arrived
  <2>10. CASE Counting(s, e, v, FALSE)
    <3>1. s.state = "REGISTERING" /\ ~Up(s, "workstation")
      BY <2>6, <2>10 DEF CountedDone, Counting
    <3>2. Cardinality(Pending(e)) \in Nat /\ Cardinality(Pending(s)) \in Nat /\ s.pending \in Nat
      BY <2>7, PendingFinite DEF HostType
    <3>3. s.pending <= Cardinality(Pending(s))
      <4>1. e.pending <= Cardinality(Pending(e))
        BY <2>2, <3>2
      <4> QED
        BY <2>2, <2>7, <2>10, <4>1, CountedArePending
    <3>4. s.pending >= 0 /\ s.pending <= Cardinality(Pending(s)) + 0
      BY <3>2, <3>3
    <3> QED
      BY <2>7, <2>8, <2>9, <3>1, <3>4 DEF Registering
  <2>11. CASE Arrived(s, e, v, FALSE)
    <3>1. ~v.known => ~Up(s, "workstation")
      BY <2>5, <2>6 DEF CountedDone, Up
    <3> QED
      BY <2>7, <2>8, <2>9, <2>11, <3>1 DEF Through, Arrived
  <2> QED
    BY <2>6, <2>7, <2>8, <2>10, <2>11 DEF CountedDone, CountedWalked
<1> QED
  BY <1>3, <1>4

\* register_stuff counts itself, and commits the HINFO record.
LEMMA HinfoRegistered ==
  ASSUME NEW v, ViewOK(v), NEW s, Registering(s, v, 0) \/ Through(s, v, 0), ~Up(s, "hinfo"),
         NEW t, t = register_hinfo([s EXCEPT !.pending = @ + 1], v)
  PROVE  (Registering(t, v, 1) \/ Through(t, v, 1)) /\ t.name = s.name
<1>1. PICK p \in Nat : p = s.pending
  BY DEF Registering, Through, HostType
<1>2. PICK e : e = [s EXCEPT !.pending = @ + 1]
  OBVIOUS
<1>3. e \in HostType /\ e.pending = p + 1 /\ e.state = s.state /\ e.name = s.name /\ e.group = s.group
  <2>1. s \in HostType /\ p + 1 \in Nat
    BY DEF Registering, Through
  <2> QED
    BY <1>1, <1>2, <2>1 DEF HostType
<1>4. Pending(e) = Pending(s)
  BY <1>3 DEF Pending
<1>5. PICK n \in Nat : n = Cardinality(Pending(s))
  BY PendingFinite
<1>6. Registering(e, v, 1) \/ Through(e, v, 1)
  <2>1. CASE Registering(s, v, 0)
    <3>1. p + 1 >= 1 /\ p + 1 <= n + 1
      BY <1>1, <1>5, <2>1 DEF Registering
    <3> QED
      BY <1>3, <1>4, <1>5, <2>1, <3>1 DEF Registering, Up
  <2>2. CASE Through(s, v, 0)
    <3>1. p + 1 = 1
      BY <1>1, <2>2 DEF Through
    <3> QED
      BY <1>3, <2>2, <3>1 DEF Through, Up
  <2> QED
    BY <2>1, <2>2
<1>7. CASE "hinfo" \notin Extra
  BY <1>2, <1>3, <1>6, <1>7 DEF register_hinfo
<1>8. CASE "hinfo" \in Extra
  <2>1. ~Up(e, "hinfo") /\ "hinfo" \in Group
    BY <1>3 DEF Up, Group
  <2>2. t = UpdateGroupBy(avahi_server_decrease_host_rr_pending, e, v, "hinfo", TRUE)
    <3>1. t = Commit(e, v, "hinfo")
      BY <1>2, <1>8 DEF register_hinfo
    <3> QED
      BY <2>1, <3>1, Zenon DEF UpdateGroupBy, Commit, Up
  <2>3. "workstation" \in Group \ {"hinfo"} /\ \A a \in Addr : a \in Group \ {"hinfo"}
    BY HostAssumption DEF Group
  <2>4. CASE Registering(e, v, 1)
    <3>1. e.state = "REGISTERING" /\ e.pending >= 1
      BY <2>4 DEF Registering
    <3>2. Counts(t, e, "hinfo", TRUE)
      <4>1. Counts(t, e, "hinfo", TRUE) \/ Runs(t, e, v, "hinfo", TRUE)
        BY <1>3, <2>1, <2>2, <3>1, CountedUpdate
      <4> QED
        BY <3>1, <4>1 DEF Runs
    <3>3. PICK m \in Nat, c \in Nat : m = t.pending /\ c = Cardinality(Pending(t))
      BY <3>2, PendingFinite DEF Counts, HostType
    <3>4. m + n <= (p + 1) + c /\ m >= 1 /\ p + 1 <= n + 1
      BY <1>3, <1>4, <1>5, <2>4, <3>1, <3>2, <3>3 DEF Counts, Registering
    <3>5. m <= c + 1
      BY <3>4
    <3>6. ~Up(t, "workstation") /\ \A a \in Addr : Up(t, a) => a \in Wanted(v)
      BY <2>3, <2>4, <3>2 DEF Counts, Registering, Up
    <3> QED
      BY <1>3, <3>2, <3>3, <3>4, <3>5, <3>6 DEF Registering, Counts
  <2>5. CASE Through(e, v, 1)
    <3>1. PlainlyUpdated(t, e, "hinfo", TRUE)
      BY <1>3, <2>1, <2>2, <2>5, PlainUpdate DEF Through
    <3>2. /\ t \in HostType /\ t.state = "RUNNING" /\ t.pending = 1 /\ t.name = s.name
          /\ \A x \in Group \ {"hinfo"} : t.group[x] = e.group[x]
      BY <1>3, <2>5, <3>1 DEF PlainlyUpdated, Through
    <3> QED
      BY <2>3, <2>5, <3>2 DEF Through, Up
  <2> QED
    BY <1>6, <2>4, <2>5
<1> QED
  BY <1>7, <1>8

\* The records registered, and what was counted taken back
LEMMA RegisteredIsCurrent ==
  ASSUME NEW v, ViewOK(v), NEW h, Cleared(h, v), NEW t, t = register_stuff(h, v)
  PROVE  Current(t, v) /\ t.name = h.name /\ Live(t.state)
<1>1. PICK s : s = server_set_state(h, v, "REGISTERING")
  OBVIOUS
<1>2. (Registering(s, v, 0) \/ Through(s, v, 0)) /\ s.name = h.name /\ ~Up(s, "hinfo")
  BY <1>1, EntersRegistering
<1>3. PICK e : e = register_hinfo([s EXCEPT !.pending = @ + 1], v)
  OBVIOUS
<1>4. (Registering(e, v, 1) \/ Through(e, v, 1)) /\ e.name = s.name
  BY <1>2, <1>3, HinfoRegistered
<1>5. PICK u : u = UpdateRRs(e, v, FALSE)
  OBVIOUS
<1>6. PICK r : r = [u EXCEPT !.pending = @ - 1]
  OBVIOUS
<1>7. t = IF r.pending = 0 THEN server_set_state(r, v, "RUNNING") ELSE r
  BY <1>1, <1>3, <1>5, <1>6 DEF register_stuff
<1>8. \A a \in Addr \ Elements(v.addrs) : a \in (Addr \ Elements(v.addrs)) \cup {"hinfo"} /\ a \notin Wanted(v)
  BY DEF Wanted
<1>9. Elements(v.addrs) \subseteq Addr
  BY DEF ViewOK, Elements
<1>10. CASE Registering(e, v, 1)
  <2>1. e \in HostType /\ e.state = "REGISTERING" /\ e.pending >= 1 /\ ~Up(e, "workstation")
    BY <1>10 DEF Registering
  <2>2. Steady(e, v, FALSE) /\ Careful(e, v, FALSE)
    BY <1>9, <1>10, <2>1 DEF Steady, Careful, Registering
  <2>3. CountedDone(u, e, v, FALSE)
    BY <1>5, <2>1, <2>2, CountedRRs
  <2>4. /\ Counting(u, e, v, FALSE) /\ u \in HostType /\ u.name = e.name /\ SameOthers(u, e, v)
        /\ \A a \in Elements(v.addrs) : Up(u, a) <=> a \in Wanted(v)
    BY <2>2, <2>3 DEF CountedDone, CountedWalked, Arrived
  <2>5. u.state = "REGISTERING" /\ ~Up(u, "workstation") /\ u.pending >= 1
    BY <2>1, <2>3, <2>4 DEF CountedDone, Counting
  <2>6. PICK p, n, m, c \in Nat : /\ p = e.pending /\ n = Cardinality(Pending(e))
                                  /\ m = u.pending /\ c = Cardinality(Pending(u))
    BY <2>1, <2>4, PendingFinite DEF HostType
  <2>7. m + n <= p + c /\ p <= n + 1 /\ m >= 1
    BY <1>10, <2>4, <2>5, <2>6 DEF Counting, Registering
  <2>8. m - 1 <= c /\ m - 1 \in Nat
    BY <2>7
  <2>9. r \in HostType /\ r.state = "REGISTERING" /\ r.pending = m - 1 /\ r.name = e.name /\ r.group = u.group
    BY <1>6, <2>4, <2>5, <2>6, <2>8 DEF HostType
  <2>10. Pending(r) = Pending(u)
    BY <2>9 DEF Pending
  <2>11. \A a \in Addr \ Elements(v.addrs) : ~Up(r, a)
    BY <1>8, <1>10, <2>4, <2>9 DEF Registering, SameOthers, Up
  <2>12. \A a \in Elements(v.addrs) : Up(r, a) <=> a \in Wanted(v)
    BY <2>4, <2>9 DEF Up
  <2>13. ~Up(r, "workstation")
    BY <2>5, <2>9 DEF Up
  <2>14. CASE m - 1 = 0
    <3>1. PICK f : f = [r EXCEPT !.state = "RUNNING"]
      OBVIOUS
    <3>2. f \in HostType /\ f.state = "RUNNING" /\ f.pending = 0 /\ f.name = r.name /\ f.group = r.group
      BY <2>9, <2>14, <3>1 DEF HostType
    <3>3. t = UpdateRRs(f, v, FALSE)
      BY <1>7, <2>9, <2>14, <3>1 DEF server_set_state
    <3>4. Sound(f, v)
      BY <2>11, <2>13, <3>2 DEF Sound, Live, Up
    <3>5. Current(t, v)
      BY <3>3, <3>4, UpdatedIsCurrent
    <3>6. t.name = f.name /\ t.state = f.state
      <4>1. f.state # "REGISTERING"
        BY <3>2
      <4>2. PlainlyDone(UpdateRRs(f, v, FALSE), f, v, FALSE)
        BY <3>2, <4>1, PlainRRs
      <4> QED
        BY <3>3, <4>2 DEF PlainlyDone
    <3> QED
      BY <1>2, <1>4, <2>9, <3>2, <3>5, <3>6 DEF Live
  <2>15. CASE m - 1 # 0
    <3>1. t = r
      BY <1>7, <2>9, <2>15
    <3>2. r.pending \in 1..Cardinality(Pending(r))
      BY <2>6, <2>8, <2>9, <2>10, <2>15
    <3>3. Current(r, v)
      BY <2>9, <2>11, <2>12, <2>13, <3>2 DEF Current, Sound, Live
    <3> QED
      BY <1>2, <1>4, <2>9, <3>1, <3>3 DEF Live
  <2> QED
    BY <2>14, <2>15
<1>11. CASE Through(e, v, 1)
  <2>1. e \in HostType /\ e.state = "RUNNING" /\ e.pending = 1
    BY <1>11 DEF Through
  <2>2. PlainlyDone(u, e, v, FALSE)
    BY <1>5, <2>1, PlainRRs
  <2>3. r \in HostType /\ r.state = "RUNNING" /\ r.pending = 0 /\ r.name = e.name /\ r.group = u.group
    BY <1>6, <2>1, <2>2 DEF PlainlyDone, HostType
  <2>4. t = r
    BY <1>7, <2>3 DEF server_set_state
  <2>5. \A a \in Addr \ Elements(v.addrs) : ~Up(r, a)
    BY <1>8, <1>11, <2>2, <2>3 DEF Through, PlainlyDone, SameOthers, Up
  <2>6. \A a \in Elements(v.addrs) : Up(r, a) <=> a \in Wanted(v)
    BY <2>1, <2>2, <2>3 DEF PlainlyDone, Live, Up
  <2>7. ~v.known => ~Up(r, "workstation")
    BY <1>11, <2>2, <2>3 DEF PlainlyDone, Through, Up
  <2>8. Current(r, v)
    BY <2>3, <2>5, <2>6, <2>7 DEF Current, Sound, Live
  <2> QED
    BY <1>2, <1>4, <2>3, <2>4, <2>8 DEF Live
<1> QED
  BY <1>4, <1>10, <1>11

\* After a collision nothing is left.
LEMMA CollisionIsCurrent ==
  ASSUME NEW v, ViewOK(v), NEW h \in HostType, Live(h.state),
         h.state = "REGISTERING" => h.pending >= 1 /\ ~Up(h, "workstation"),
         h.state # "REGISTERING" => h.pending = 0,
         \A a \in Addr \ Elements(v.addrs) : ~Up(h, a),
         ~v.known => ~Up(h, "workstation"),
         NEW t, t = Collision(h, v)
  PROVE  Current(t, v) /\ t.name = h.name /\ t.state = "COLLISION"
<1>1. PICK u : u = withdraw_host_rrs(h, v)
  OBVIOUS
<1>2. Cleared(u, v) /\ u.name = h.name /\ Live(u.state)
  BY <1>1, ClearedByWithdrawal
<1>3. PICK f : f = [u EXCEPT !.state = "COLLISION"]
  OBVIOUS
<1>4. f \in HostType /\ f.state = "COLLISION" /\ f.pending = 0 /\ f.name = u.name /\ f.group = u.group
  BY <1>2, <1>3 DEF Cleared, HostType
<1>5. u.state # "COLLISION"
  BY <1>2 DEF Live
<1>6. t = UpdateRRs(f, v, FALSE)
  BY <1>1, <1>3, <1>5 DEF Collision, server_set_state
<1>7. PlainlyDone(t, f, v, FALSE)
  BY <1>4, <1>6, PlainRRs
<1>8. t \in HostType /\ t.state = "COLLISION" /\ t.pending = 0 /\ t.name = f.name
  BY <1>4, <1>7 DEF PlainlyDone
<1>9. \A a \in Elements(v.addrs) : ~Up(t, a)
  BY <1>4, <1>7 DEF PlainlyDone, Live
<1>10. \A a \in Addr \ Elements(v.addrs) : ~Up(t, a)
  <2>1. \A a \in Addr \ Elements(v.addrs) : a \in (Addr \ Elements(v.addrs)) \cup {"hinfo"} /\ ~Up(u, a)
    BY <1>2 DEF Cleared, Wanted
  <2> QED
    BY <1>4, <1>7, <2>1 DEF PlainlyDone, SameOthers, Up
<1>11. ~Up(t, "hinfo") /\ ~Up(t, "workstation")
  BY <1>2, <1>4, <1>7 DEF PlainlyDone, SameOthers, Cleared, Up
<1>12. \A g \in Group : ~Up(t, g)
  BY <1>9, <1>10, <1>11 DEF Group
<1>13. Sound(t, v)
  BY <1>8, <1>10, <1>11, <1>12 DEF Sound
<1>14. Current(t, v)
  BY <1>8, <1>9, <1>13 DEF Current, Live
<1> QED
  BY <1>2, <1>4, <1>8, <1>14

\* What is current stays sound when addresses appear or the relevance of others changes.
LEMMA CurrentIsSound ==
  ASSUME NEW h, NEW v, NEW w, Current(h, v), Elements(v.addrs) \subseteq Elements(w.addrs), v.known => w.known
  PROVE  Sound(h, w)
BY DEF Current, Sound

\* avahi_interface_address_free withdraws what is published of the address.
LEMMA FreedIsSound ==
  ASSUME NEW v, ViewOK(v), NEW h, Current(h, v), NEW a \in Elements(v.addrs),
         NEW w, w.known, Elements(w.addrs) = Elements(v.addrs) \ {a}, NEW t, t = UpdateAddress(h, v, a, TRUE)
  PROVE  Sound(t, w)
<1>1. a \in Addr /\ a \in Group /\ a # "hinfo" /\ a # "workstation" /\ "workstation" \in Group \ {a}
  BY HostAssumption DEF ViewOK, Elements, Group
<1>2. \A x \in Elements(v.addrs) : x \in Addr
  BY DEF ViewOK, Elements
<1>3. \A x \in Addr \ {a} : x \in Group \ {a}
  BY DEF Group
<1>4. h \in HostType
  BY DEF Current, Sound
<1>5. PICK remove \in BOOLEAN : remove = TRUE
  OBVIOUS
<1>6. PICK n : n = (a \in Wanted(v) /\ ~remove /\ Live(h.state))
  OBVIOUS
<1>7. ~n /\ n \in BOOLEAN
  BY <1>5, <1>6
<1>8. t = UpdateGroupBy(avahi_server_decrease_host_rr_pending, h, v, a, n)
  <2>1. UpdateAddress(h, v, a, remove) = UpdateGroupBy(avahi_server_decrease_host_rr_pending, h, v, a, n)
    BY <1>6, AddressUpdate
  <2> QED
    BY <1>5, <2>1, Zenon
<1>9. \A x \in Addr \ Elements(v.addrs) : ~Up(h, x)
  BY DEF Current, Sound
<1>10. \A x \in Addr \ Elements(w.addrs) : x = a \/ x \in Addr \ Elements(v.addrs)
  OBVIOUS
<1>11. CASE h.state = "REGISTERING"
  <2>1. h.pending >= 1 /\ ~Up(h, "workstation") /\ h.pending <= Cardinality(Pending(h))
    <3>1. h.pending \in 1..Cardinality(Pending(h)) /\ Cardinality(Pending(h)) \in Nat
      BY <1>11, PendingFinite DEF Current, Sound
    <3> QED
      BY <1>11, <3>1 DEF Current, Sound
  <2>2. Counts(t, h, a, n) \/ Runs(t, h, v, a, n)
    BY <1>1, <1>4, <1>7, <1>8, <1>11, <2>1, CountedUpdate
  <2>3. CASE Counts(t, h, a, n)
    <3>1. PICK p, c, m, d \in Nat : /\ p = h.pending /\ c = Cardinality(Pending(h))
                                    /\ m = t.pending /\ d = Cardinality(Pending(t))
      BY <1>4, <2>3, PendingFinite DEF Counts, HostType
    <3>2. m + c <= p + d /\ p <= c /\ m >= 1
      BY <2>1, <2>3, <3>1 DEF Counts
    <3>3. m \in 1..d
      BY <3>2
    <3>4. \A x \in Addr \ Elements(w.addrs) : ~Up(t, x)
      BY <1>3, <1>7, <1>9, <1>10, <2>3 DEF Counts, Up
    <3>5. ~Up(t, "workstation")
      BY <1>1, <2>1, <2>3 DEF Counts, Up
    <3> QED
      BY <2>3, <3>1, <3>3, <3>4, <3>5 DEF Counts, Sound, Live
  <2>4. CASE Runs(t, h, v, a, n)
    <3>1. \A x \in Addr \ Elements(v.addrs) : ~Up(t, x)
      BY <1>9, <2>4 DEF Runs, SameOthers, Up
    <3>2. \A x \in Addr \ Elements(w.addrs) : ~Up(t, x)
      BY <1>7, <1>10, <2>4, <3>1 DEF Runs
    <3> QED
      BY <2>4, <3>2 DEF Runs, Sound, Live
  <2> QED
    BY <2>2, <2>3, <2>4
<1>12. CASE h.state # "REGISTERING"
  <2>1. PlainlyUpdated(t, h, a, n)
    BY <1>1, <1>4, <1>7, <1>8, <1>12, PlainUpdate
  <2>2. /\ t \in HostType /\ t.state = h.state /\ t.pending = 0 /\ ~Up(t, a)
        /\ \A x \in Group \ {a} : t.group[x] = h.group[x]
    BY <1>7, <1>12, <2>1 DEF PlainlyUpdated, Current, Sound
  <2>3. \A x \in Addr \ Elements(w.addrs) : ~Up(t, x)
    BY <1>3, <1>9, <1>10, <2>2 DEF Up
  <2>4. Live(t.state) \/ \A g \in Group : ~Up(t, g)
    BY <2>2 DEF Current, Sound, Up
  <2> QED
    BY <1>12, <2>2, <2>3, <2>4 DEF Sound
<1> QED
  BY <1>11, <1>12

\* avahi_hw_interface_free withdraws everything of the link.
LEMMA LinkGone ==
  ASSUME NEW v, ViewOK(v), NEW h, Current(h, v), NEW w, w.addrs = <<>>, NEW u, u = UpdateRRs(h, v, TRUE),
         NEW d, d = UpdateAddresses(u, v, TRUE), NEW t, t = [d EXCEPT !.group["workstation"] = Empty]
  PROVE  Current(t, w)
<1>1. h \in HostType /\ \A a \in Addr \ Elements(v.addrs) : ~Up(h, a)
  BY DEF Current, Sound
<1>2. \A a \in Addr \ Elements(v.addrs) : a \in (Addr \ Elements(v.addrs)) \cup {"hinfo"} /\ a \in Group \ Elements(v.addrs)
  BY DEF Group
<1>3. {"hinfo", "workstation"} \subseteq Group \ Elements(v.addrs)
  BY HostAssumption DEF ViewOK, Elements, Group
<1>4. Elements(w.addrs) = {}
  BY DEF Elements
<1>5. ASSUME d \in HostType,
             IF d.state = "REGISTERING"
             THEN d.pending \in 1..Cardinality(Pending(d)) /\ ~Up(d, "workstation") ELSE d.pending = 0,
             \A a \in Elements(v.addrs) : ~Up(d, a),
             \A a \in Addr \ Elements(v.addrs) : ~Up(d, a),
             Live(d.state) \/ ~Up(d, "hinfo")
      PROVE  Current(t, w)
  <2>1. Empty \in GroupType /\ Empty.state = "UNCOMMITED" /\ "workstation" \in Group
    BY <1>5, EmptyType DEF Group
  <2>2. /\ t \in HostType /\ t.state = d.state /\ t.pending = d.pending
        /\ t.group["workstation"] = Empty /\ \A x \in Group \ {"workstation"} : t.group[x] = d.group[x]
    BY <1>5, <2>1 DEF HostType
  <2>3. \A a \in Addr : ~Up(t, a)
    <3>1. \A a \in Addr : a \in Group \ {"workstation"} /\ ~Up(d, a)
      BY <1>5, HostAssumption DEF Group
    <3> QED
      BY <2>2, <3>1 DEF Up
  <2>4. ~Up(t, "workstation")
    BY <2>2 DEF Up
  <2>5. Live(t.state) \/ \A g \in Group : ~Up(t, g)
    <3>1. "hinfo" \in Group \ {"workstation"}
      BY DEF Group
    <3>2. Live(t.state) \/ ~Up(t, "hinfo")
      BY <1>5, <2>2, <3>1 DEF Up
    <3> QED
      BY <2>3, <2>4, <3>2 DEF Group
  <2>6. d.state = "REGISTERING" => Pending(t) = Pending(d)
    <3>1. ASSUME d.state = "REGISTERING"
          PROVE  t.group["workstation"] = d.group["workstation"]
      BY <1>5, <2>2, <3>1 DEF Up
    <3> QED
      BY <2>2, <3>1 DEF Pending
  <2>7. IF t.state = "REGISTERING" THEN t.pending \in 1..Cardinality(Pending(t)) ELSE t.pending = 0
    BY <1>5, <2>2, <2>6
  <2> QED
    BY <1>4, <2>2, <2>3, <2>4, <2>5, <2>7 DEF Current, Sound
<1>6. CASE h.state = "REGISTERING"
  <2>1. h.pending >= 1 /\ ~Up(h, "workstation") /\ h.pending <= Cardinality(Pending(h)) /\ Careful(h, v, TRUE)
    <3>1. h.pending \in 1..Cardinality(Pending(h)) /\ Cardinality(Pending(h)) \in Nat
      BY <1>6, PendingFinite DEF Current, Sound
    <3> QED
      BY <1>6, <3>1 DEF Current, Sound, Careful
  <2>2. CountedDone(u, h, v, TRUE)
    BY <1>1, <1>6, <2>1, CountedRRs
  <2>3. u \in HostType /\ \A a \in Addr \ Elements(v.addrs) : ~Up(u, a)
    BY <1>1, <1>2, <2>2 DEF CountedDone, CountedWalked, SameOthers, Up
  <2>4. CASE Counting(u, h, v, TRUE) /\ \A a \in Elements(v.addrs) : ~Up(u, a)
    <3>1. u.state = "REGISTERING" /\ u.pending >= 1 /\ ~Up(u, "workstation")
      BY <2>1, <2>2, <2>4 DEF Counting, CountedDone
    <3>2. u.pending <= Cardinality(Pending(u))
      BY <1>1, <2>1, <2>3, <2>4, CountedArePending
    <3>3. Steady(u, v, TRUE) /\ Careful(u, v, TRUE)
      BY <2>4, <3>1 DEF Steady, Careful
    <3>4. CountedWalked(d, u, v, TRUE)
      BY <2>3, <3>1, <3>3, CountedAddresses
    <3>5. d \in HostType /\ SameOthers(d, u, v) /\ Counting(d, u, v, TRUE) /\ \A a \in Elements(v.addrs) : ~Up(d, a)
      BY <3>3, <3>4 DEF CountedWalked, Arrived
    <3>6. d.state = "REGISTERING" /\ d.pending >= 1 /\ ~Up(d, "workstation")
      BY <3>1, <3>5 DEF Counting, Up
    <3>7. d.pending \in 1..Cardinality(Pending(d))
      <4>1. d.pending <= Cardinality(Pending(d))
        BY <2>3, <3>2, <3>5, CountedArePending
      <4>2. PICK p, c \in Nat : p = d.pending /\ c = Cardinality(Pending(d))
        BY <3>5, PendingFinite DEF HostType
      <4>3. p >= 1 /\ p <= c
        BY <3>6, <4>1, <4>2
      <4>4. p \in 1..c
        BY <4>3
      <4> QED
        BY <4>2, <4>4, Zenon
    <3>8. \A a \in Addr \ Elements(v.addrs) : ~Up(d, a)
      BY <1>2, <2>3, <3>5 DEF SameOthers, Up
    <3> QED
      BY <1>5, <3>5, <3>6, <3>7, <3>8 DEF Live
  <2>5. CASE Arrived(u, h, v, TRUE)
    <3>1. u.state = "RUNNING" /\ u.pending = 0
      BY <2>5 DEF Arrived
    <3>2. PlainlyWalked(d, u, v, TRUE)
      <4>1. u.state # "REGISTERING"
        BY <3>1
      <4> QED
        BY <2>3, <4>1, PlainAddresses
    <3>3. \A a \in Addr \ Elements(v.addrs) : ~Up(d, a)
      BY <1>2, <2>3, <3>2 DEF PlainlyWalked, Up
    <3>4. d \in HostType /\ d.state = "RUNNING" /\ d.pending = 0 /\ \A a \in Elements(v.addrs) : ~Up(d, a)
      BY <3>1, <3>2 DEF PlainlyWalked
    <3> QED
      BY <1>5, <3>3, <3>4 DEF Live
  <2> QED
    BY <2>2, <2>4, <2>5 DEF CountedDone, CountedWalked
<1>7. CASE h.state # "REGISTERING"
  <2>1. PlainlyDone(u, h, v, TRUE)
    BY <1>1, <1>7, PlainRRs
  <2>2. u \in HostType /\ u.state = h.state /\ u.pending = 0
    BY <1>7, <2>1 DEF PlainlyDone, Current, Sound
  <2>3. PlainlyWalked(d, u, v, TRUE)
    BY <1>7, <2>2, PlainAddresses
  <2>4. /\ d \in HostType /\ d.state = h.state /\ d.pending = 0
        /\ \A x \in Group \ Elements(v.addrs) : d.group[x] = u.group[x]
        /\ \A a \in Elements(v.addrs) : ~Up(d, a)
    BY <2>2, <2>3 DEF PlainlyWalked
  <2>5. \A a \in Addr \ Elements(v.addrs) : ~Up(d, a)
    BY <1>1, <1>2, <2>1, <2>4 DEF PlainlyDone, SameOthers, Up
  <2>6. Live(d.state) \/ ~Up(d, "hinfo")
    BY <1>3, <2>1, <2>4 DEF Current, Sound, PlainlyDone, SameOthers, Up
  <2> QED
    BY <1>5, <1>7, <2>4, <2>5, <2>6
<1> QED
  BY <1>6, <1>7

-----------------------------------------------------------------------------
(* The multicast group.                                                    *)

\* The group is joined, if at all, with an address of the interface that is relevant, a
\* global one if there is one.
Joined(m, joined, v) ==
  m # NoAddr =>
    /\ joined /\ Relevant(v) /\ m \in Elements(v.addrs)
    /\ (\E a \in Elements(v.addrs) : Global(v.attr, a)) => Global(v.attr, m)

\* interface_mdns_mcast_join takes the best address there is.
LEMMA JoinIsBest ==
  ASSUME NEW addrs \in Seq(Addr), NEW at, NEW ok \in BOOLEAN, NEW r, r = Join(addrs, at, ok)
  PROVE  /\ r \in Addr \cup {NoAddr}
         /\ r # NoAddr => /\ r \in Elements(addrs)
                          /\ (\E a \in Elements(addrs) : Global(at, a)) => Global(at, r)
<1>1. CASE addrs = <<>> \/ ~ok
  BY <1>1 DEF Join
<1>2. CASE ~(addrs = <<>> \/ ~ok)
  <2>1. PICK n \in Nat : n = Len(addrs) /\ DOMAIN addrs = 1..n
    OBVIOUS
  <2>2. 1 \in DOMAIN addrs
    BY <1>2, <2>1
  <2> DEFINE T == {i \in DOMAIN addrs : Global(at, addrs[i])}
             best == IF T = {} THEN 1 ELSE CHOOSE i \in T : \A j \in T : i <= j
  <2>3. T = {i \in DOMAIN addrs : Global(at, addrs[i])}
    OBVIOUS
  <2>4. best = IF T = {} THEN 1 ELSE CHOOSE i \in T : \A j \in T : i <= j
    OBVIOUS
  <2>5. r = addrs[best]
    BY <1>2 DEF Join
  <2> HIDE DEF T, best
  <2>6. best \in DOMAIN addrs /\ (T # {} => best \in T)
    <3>1. CASE T = {}
      BY <2>2, <2>4, <3>1
    <3>2. CASE T # {}
      <4>1. T \in SUBSET Nat
        BY <2>1, <2>3
      <4>2. PICK k \in T : \A j \in T : ~(j < k)
        BY <3>2, <4>1, CountedWalk!LeastNat
      <4>3. \A j \in T : k <= j
        BY <4>1, <4>2
      <4>4. (CHOOSE i \in T : \A j \in T : i <= j) \in T
        BY <4>3
      <4> QED
        BY <2>3, <2>4, <3>2, <4>4
    <3> QED
      BY <3>1, <3>2
  <2>7. r \in Addr /\ r \in Elements(addrs)
    BY <2>1, <2>5, <2>6 DEF Elements
  <2>8. ASSUME NEW a \in Elements(addrs), Global(at, a)
        PROVE  Global(at, r)
    <3>1. T # {}
      BY <2>3, <2>8 DEF Elements
    <3> QED
      BY <2>3, <2>5, <2>6, <3>1
  <2> QED
    BY <2>7, <2>8
<1> QED
  BY <1>1, <1>2

\* interface_mdns_mcast_rejoin changes to a better one.
LEMMA RejoinIsBest ==
  ASSUME NEW addrs \in Seq(Addr), NEW at, NEW ok \in BOOLEAN, NEW m \in Addr \cup {NoAddr},
         NEW r, r = Rejoin(m, addrs, at, ok)
  PROVE  /\ r \in Addr \cup {NoAddr} /\ (m = NoAddr => r = NoAddr)
         /\ r # NoAddr => /\ r \in Elements(addrs)
                          /\ (\E a \in Elements(addrs) : Global(at, a)) => Global(at, r)
<1>1. CASE m = NoAddr
  BY <1>1 DEF Rejoin
<1>2. CASE m # NoAddr /\ m \in Elements(addrs) /\ (Global(at, m) \/ \A a \in Elements(addrs) : ~Global(at, a))
  <2>1. r = m
    BY <1>2, Zenon DEF Rejoin
  <2> QED
    BY <1>2, <2>1
<1>3. CASE m # NoAddr /\ ~(m \in Elements(addrs) /\ (Global(at, m) \/ \A a \in Elements(addrs) : ~Global(at, a)))
  <2>1. r = Join(addrs, at, ok)
    BY <1>3, Zenon DEF Rejoin
  <2> QED
    BY <1>3, <2>1, JoinIsBest
<1> QED
  BY <1>1, <1>2, <1>3

\* avahi_interface_check_relevant
LEMMA CheckedIsJoined ==
  ASSUME NEW v, v.addrs \in Seq(Addr), NEW m \in Addr \cup {NoAddr}, NEW ok \in BOOLEAN,
         link_announcing \in BOOLEAN, m # NoAddr => link_announcing, CheckRelevant(v, m, ok)
  PROVE  mcast' \in Addr \cup {NoAddr} /\ link_announcing' \in BOOLEAN /\ Joined(mcast', link_announcing', v)
<1>1. CASE v.complete /\ Relevant(v) /\ ~link_announcing
  <2>1. PICK r : r = Join(v.addrs, v.attr, ok)
    OBVIOUS
  <2>2. m = NoAddr
    BY <1>1
  <2>3. mcast' = r /\ link_announcing' = (r # NoAddr)
    BY <1>1, <2>1, <2>2 DEF CheckRelevant
  <2>4. /\ r \in Addr \cup {NoAddr}
        /\ r # NoAddr => /\ r \in Elements(v.addrs)
                         /\ (\E a \in Elements(v.addrs) : Global(v.attr, a)) => Global(v.attr, r)
    BY <2>1, JoinIsBest
  <2> QED
    BY <1>1, <2>3, <2>4 DEF Joined
<1>2. CASE ~(v.complete /\ Relevant(v) /\ ~link_announcing) /\ ~Relevant(v) /\ link_announcing
  BY <1>2 DEF CheckRelevant, Joined
<1>3. CASE ~(v.complete /\ Relevant(v) /\ ~link_announcing) /\ ~(~Relevant(v) /\ link_announcing)
  <2>1. mcast' = Rejoin(m, v.addrs, v.attr, ok) /\ link_announcing' = link_announcing
    BY <1>3 DEF CheckRelevant
  <2>2. /\ mcast' \in Addr \cup {NoAddr} /\ (m = NoAddr => mcast' = NoAddr)
        /\ mcast' # NoAddr => /\ mcast' \in Elements(v.addrs)
                              /\ (\E a \in Elements(v.addrs) : Global(v.attr, a)) => Global(v.attr, mcast')
    BY <2>1, RejoinIsBest
  <2> QED
    BY <1>3, <2>1, <2>2 DEF Joined
<1> QED
  BY <1>1, <1>2, <1>3

-----------------------------------------------------------------------------
(* The inductive invariant.                                                *)

LinkType == [known : BOOLEAN, flags_ok : BOOLEAN, addrs : Seq(Addr)]

HostIInv ==
  /\ link \in LinkType /\ ViewOK(link) /\ IsInjective(link.addrs)
  /\ attr \in [Addr -> Attrs] /\ list \in {"iface", "addr", "done"}
  /\ link_announcing \in BOOLEAN /\ mcast \in Addr \cup {NoAddr}
  /\ Current(server, Now)
  /\ Joined(mcast, link_announcing, Now)

LEMMA Concatenated ==
  ASSUME NEW S, NEW x \in Seq(S), NEW y \in Seq(S), NEW r, r = x \o y
  PROVE  /\ r \in Seq(S) /\ DOMAIN r = 1..(Len(x) + Len(y))
         /\ \A k \in 1..(Len(x) + Len(y)) : r[k] = IF k <= Len(x) THEN x[k] ELSE y[k - Len(x)]
OBVIOUS

\* The list of addresses when one is taken out
LEMMA WithoutIsList ==
  ASSUME NEW s \in Seq(Addr), IsInjective(s), NEW n \in DOMAIN s, NEW a, a = s[n], NEW r, r = RemoveAt(s, n)
  PROVE  r \in Seq(Addr) /\ IsInjective(r) /\ Elements(r) = Elements(s) \ {a}
<1>1. PICK l \in Nat : l = Len(s) /\ DOMAIN s = 1..l
  OBVIOUS
<1>2. n \in 1..l /\ s[n] = a
  BY <1>1
<1>3. PICK m \in Nat : n = m + 1
  BY <1>2
<1>4. PICK d \in Nat : d = l - n
  BY <1>2
<1>5. PICK x : x = SubSeq(s, 1, m)
  OBVIOUS
<1>6. PICK y : y = SubSeq(s, n + 1, l)
  OBVIOUS
<1>7. r = x \o y
  <2>1. n - 1 = m
    BY <1>3
  <2> QED
    BY <1>1, <1>2, <1>5, <1>6, <2>1, Zenon DEF RemoveAt
<1>8. x \in Seq(Addr) /\ Len(x) = m /\ \A k \in 1..m : x[k] = s[k]
  <2>1. \A k \in 1..m : s[k] \in Addr
    BY <1>1, <1>2, <1>3
  <2>2. x = [k \in 1..m |-> s[k]]
    BY <1>5
  <2> QED
    BY <2>1, <2>2
<1>9. y \in Seq(Addr) /\ Len(y) = d /\ \A k \in 1..d : y[k] = s[k + n]
  <2>1. \A k \in 1..d : s[k + n] \in Addr
    BY <1>1, <1>2, <1>4
  <2>2. y = [k \in 1..d |-> s[k + n]]
    BY <1>1, <1>2, <1>4, <1>6
  <2> QED
    BY <2>1, <2>2
<1>10. /\ r \in Seq(Addr) /\ DOMAIN r = 1..(m + d)
       /\ \A k \in 1..(m + d) : r[k] = IF k <= m THEN x[k] ELSE y[k - m]
  <2>1. /\ r \in Seq(Addr) /\ DOMAIN r = 1..(Len(x) + Len(y))
        /\ \A k \in 1..(Len(x) + Len(y)) : r[k] = IF k <= Len(x) THEN x[k] ELSE y[k - Len(x)]
    BY <1>7, <1>8, <1>9, Concatenated, ZenonT(30)
  <2> QED
    BY <1>8, <1>9, <2>1, Zenon
<1> DEFINE P(k) == IF k < n THEN k ELSE k + 1
<1>11. ASSUME NEW k \in 1..(m + d)
       PROVE  r[k] = s[P(k)] /\ P(k) \in 1..l /\ P(k) # n
  <2>1. CASE k <= m
    BY <1>1, <1>3, <1>4, <1>8, <1>10, <2>1
  <2>2. CASE ~(k <= m)
    <3>1. k - m \in 1..d /\ (k - m) + n = k + 1
      BY <1>3, <2>2
    <3>2. P(k) = k + 1 /\ k + 1 \in 1..l /\ k + 1 # n
      BY <1>3, <1>4, <2>2
    <3> QED
      BY <1>9, <1>10, <2>2, <3>1, <3>2
  <2> QED
    BY <2>1, <2>2
<1>12. ASSUME NEW j \in 1..l, j # n
       PROVE  \E k \in 1..(m + d) : P(k) = j
  <2>1. CASE j < n
    <3>1. j \in 1..(m + d) /\ P(j) = j
      BY <1>3, <1>4, <2>1
    <3> QED
      BY <3>1
  <2>2. CASE ~(j < n)
    <3>1. PICK k \in Nat : j = k + 1
      BY <1>12
    <3>2. k \in 1..(m + d) /\ P(k) = j
      BY <1>3, <1>4, <1>12, <2>2, <3>1
    <3> QED
      BY <3>2
  <2> QED
    BY <2>1, <2>2
<1>13. \A k1, k2 \in 1..(m + d) : P(k1) = P(k2) => k1 = k2
  OBVIOUS
<1> HIDE DEF P
<1>14. \A j1, j2 \in 1..l : s[j1] = s[j2] => j1 = j2
  BY <1>1 DEF IsInjective
<1>15. IsInjective(r)
  <2>1. ASSUME NEW k1 \in 1..(m + d), NEW k2 \in 1..(m + d), r[k1] = r[k2]
        PROVE  k1 = k2
    <3>1. s[P(k1)] = s[P(k2)] /\ P(k1) \in 1..l /\ P(k2) \in 1..l
      BY <1>11, <2>1
    <3>2. P(k1) = P(k2)
      BY <1>14, <3>1
    <3> QED
      BY <1>13, <3>2
  <2> QED
    BY <1>10, <2>1 DEF IsInjective
<1>16. ASSUME NEW e
       PROVE  e \in Elements(r) <=> e \in Elements(s) /\ e # a
  <2>1. ASSUME e \in Elements(r)
        PROVE  e \in Elements(s) /\ e # a
    <3>1. PICK k \in 1..(m + d) : e = r[k]
      BY <1>10, <2>1 DEF Elements
    <3>2. e = s[P(k)] /\ P(k) \in 1..l /\ P(k) # n
      BY <1>11, <3>1
    <3>3. e # a
      BY <1>2, <1>14, <3>2
    <3> QED
      BY <1>1, <3>2, <3>3 DEF Elements
  <2>2. ASSUME e \in Elements(s), e # a
        PROVE  e \in Elements(r)
    <3>1. PICK j \in 1..l : e = s[j]
      BY <1>1, <2>2 DEF Elements
    <3>2. j # n
      BY <1>2, <2>2, <3>1
    <3>3. PICK k \in 1..(m + d) : P(k) = j
      BY <1>12, <3>2
    <3>4. e = r[k]
      BY <1>11, <3>1, <3>3
    <3> QED
      BY <1>10, <3>4 DEF Elements
  <2> QED
    BY <2>1, <2>2
<1> QED
  BY <1>10, <1>15, <1>16

\* The list of addresses when one is put in front
LEMMA WithIsList ==
  ASSUME NEW s \in Seq(Addr), IsInjective(s), NEW a \in Addr, NEW r,
         r = IF a \in Elements(s) THEN s ELSE <<a>> \o s
  PROVE  r \in Seq(Addr) /\ IsInjective(r) /\ Elements(s) \subseteq Elements(r)
<1>1. CASE a \in Elements(s)
  BY <1>1
<1>2. CASE a \notin Elements(s)
  <2>1. PICK l \in Nat : l = Len(s) /\ DOMAIN s = 1..l
    OBVIOUS
  <2>2. /\ r \in Seq(Addr) /\ DOMAIN r = 1..(l + 1) /\ r[1] = a
        /\ \A k \in 1..l : r[k + 1] = s[k]
    BY <1>2, <2>1
  <2>3. \A k \in 1..(l + 1) : k = 1 \/ \E j \in 1..l : k = j + 1
    <3> SUFFICES ASSUME NEW k \in 1..(l + 1), k # 1
                 PROVE  \E j \in 1..l : k = j + 1
      OBVIOUS
    <3>1. k - 1 \in 1..l /\ k = (k - 1) + 1
      OBVIOUS
    <3> QED
      BY <3>1
  <2>4. \A j \in 1..l : s[j] # a
    BY <1>2, <2>1 DEF Elements
  <2>5. \A j1, j2 \in 1..l : s[j1] = s[j2] => j1 = j2
    BY <2>1 DEF IsInjective
  <2>6. ASSUME NEW k1 \in 1..(l + 1), NEW k2 \in 1..(l + 1), r[k1] = r[k2]
        PROVE  k1 = k2
    <3>1. CASE k1 = 1
      BY <2>2, <2>3, <2>4, <2>6, <3>1
    <3>2. CASE k2 = 1
      BY <2>2, <2>3, <2>4, <2>6, <3>2
    <3>3. CASE k1 # 1 /\ k2 # 1
      <4>1. PICK j1, j2 \in 1..l : k1 = j1 + 1 /\ k2 = j2 + 1
        BY <2>3, <3>3
      <4>2. s[j1] = s[j2]
        BY <2>2, <2>6, <4>1
      <4> QED
        BY <2>5, <4>1, <4>2
    <3> QED
      BY <3>1, <3>2, <3>3
  <2>7. IsInjective(r)
    BY <2>2, <2>6 DEF IsInjective
  <2>8. ASSUME NEW e \in Elements(s)
        PROVE  e \in Elements(r)
    <3>1. PICK j \in 1..l : e = s[j]
      BY <2>1, <2>8 DEF Elements
    <3>2. j + 1 \in 1..(l + 1)
      OBVIOUS
    <3> QED
      BY <2>2, <3>1, <3>2 DEF Elements
  <2> QED
    BY <2>2, <2>7, <2>8
<1> QED
  BY <1>1, <1>2

\* The multicast group does not depend on what is being announced.
LEMMA JoinedSame ==
  ASSUME NEW m, NEW j, NEW v, NEW w, v.flags_ok = w.flags_ok, v.addrs = w.addrs, v.attr = w.attr, Joined(m, j, w)
  PROVE  Joined(m, j, v)
<1>1. Relevant(v) = Relevant(w)
  BY DEF Relevant, AddressRelevant
<1> QED
  BY <1>1 DEF Joined

\* Nor does what is current depend on what is waited for.
LEMMA CurrentSame ==
  ASSUME NEW h, NEW v, NEW w, v.known = w.known, v.flags_ok = w.flags_ok, v.addrs = w.addrs,
         v.attr = w.attr, v.complete = w.complete, Current(h, w)
  PROVE  Current(h, v)
<1>1. Wanted(v) = Wanted(w)
  BY DEF Wanted, Relevant, AddressRelevant
<1> QED
  BY <1>1 DEF Current, Sound

LEMMA InitialHost == HostInit => HostIInv
<1> SUFFICES ASSUME HostInit PROVE HostIInv
  OBVIOUS
<1>1. <<>> \in Seq(Addr) /\ DOMAIN <<>> = {}
  OBVIOUS
<1>2. link = NoLink /\ link.addrs = <<>> /\ link.known = FALSE /\ link.flags_ok = FALSE /\ link \in LinkType
  BY <1>1 DEF HostInit, NoLink, LinkType
<1>3. ViewOK(link) /\ IsInjective(link.addrs)
  BY <1>1, <1>2 DEF ViewOK, IsInjective
<1>4. attr \in [Addr -> Attrs] /\ list \in {"iface", "addr", "done"} /\ link_announcing \in BOOLEAN /\ mcast \in Addr \cup {NoAddr}
  BY DEF HostInit, Attrs
<1>5. Joined(mcast, link_announcing, Now)
  BY DEF HostInit, Joined
<1>6. Elements(Now.addrs) = {} /\ Now.known = FALSE
  BY <1>1, <1>2 DEF Now, View, Elements
<1>7. server.state = "INVALID" /\ server.pending = 0 /\ server.name \in HostName /\ server.group = [g \in Group |-> Empty]
      /\ server = [state |-> server.state, pending |-> server.pending, name |-> server.name, group |-> server.group]
  BY DEF HostInit
<1>8. Empty \in GroupType
  <2>1. HostName # {}
    BY <1>7
  <2>2. (CHOOSE n \in HostName : TRUE) \in HostName
    BY <2>1
  <2> QED
    BY <2>2 DEF Empty, GroupType
<1>9. server \in HostType
  BY <1>7, <1>8 DEF HostType
<1>10. \A g \in Group : ~Up(server, g)
  BY <1>7 DEF Up
<1>11. \A a \in Addr : ~Up(server, a)
  BY <1>10 DEF Group
<1>12. ~Up(server, "workstation")
  BY <1>10 DEF Group
<1>13. Current(server, Now)
  BY <1>6, <1>7, <1>9, <1>10, <1>11, <1>12 DEF Current, Sound
<1> QED
  BY <1>2, <1>3, <1>4, <1>5, <1>13 DEF HostIInv

\* A step of the server alone
LEMMA ServerStep ==
  ASSUME HostIInv, UNCHANGED <<link, attr, list, link_announcing, mcast>>, NEW w, w \in Views \cup {Now}, Current(server', w)
  PROVE  HostIInv'
<1>1. Now' = Now
  BY DEF Now, View, Complete
<1>2. Current(server', Now)
  <2>1. PICK s : s = server'
    OBVIOUS
  <2>2. /\ Now.known = w.known /\ Now.flags_ok = w.flags_ok /\ Now.addrs = w.addrs
        /\ Now.attr = w.attr /\ Now.complete = w.complete
    BY DEF Now, Views, View
  <2>3. Current(s, Now)
    BY <2>1, <2>2, CurrentSame
  <2> QED
    BY <2>1, <2>3
<1>3. Current(server', Now') /\ Joined(mcast', link_announcing', Now')
  BY <1>1, <1>2 DEF HostIInv
<1> QED
  BY <1>3 DEF HostIInv

\* What is known of the interface now
LEMMA KnownNow ==
  ASSUME HostIInv
  PROVE  /\ ViewOK(Now) /\ Current(server, Now) /\ Now.known = link.known /\ Now.addrs = link.addrs
         /\ Now.attr = attr /\ Now.flags_ok = link.flags_ok /\ link_announcing \in BOOLEAN
         /\ mcast \in Addr \cup {NoAddr} /\ (mcast # NoAddr => link_announcing)
         /\ link \in LinkType /\ link.known \in BOOLEAN /\ link.addrs \in Seq(Addr) /\ IsInjective(link.addrs)
<1>1. Now.known = link.known /\ Now.addrs = link.addrs /\ Now.attr = attr /\ Now.flags_ok = link.flags_ok
  BY DEF Now, View
<1>2. ViewOK(Now)
  BY <1>1 DEF HostIInv, ViewOK
<1> QED
  BY <1>1, <1>2 DEF HostIInv, LinkType, Joined

LEMMA KnownView ==
  ASSUME HostIInv, NEW v \in Views
  PROVE  /\ ViewOK(v) /\ Current(server, v) /\ v.known = Now.known /\ v.addrs = Now.addrs
         /\ v.flags_ok = Now.flags_ok /\ v.attr = Now.attr /\ v.complete = Now.complete
<1>1. /\ v.known = Now.known /\ v.flags_ok = Now.flags_ok /\ v.addrs = Now.addrs
      /\ v.attr = Now.attr /\ v.complete = Now.complete
  BY DEF Views, Now, View
<1>2. ViewOK(v)
  BY <1>1, KnownNow DEF ViewOK
<1>3. Current(server, v)
  BY <1>1, KnownNow, CurrentSame
<1> QED
  BY <1>1, <1>2, <1>3

\* A step that changes the link: its records are updated to what is known then.
LEMMA LinkStep ==
  ASSUME NEW l \in LinkType, ViewOK(l), IsInjective(l.addrs), NEW at \in [Addr -> Attrs],
         link' = l, attr' = at, list' \in {"iface", "addr", "done"}, NEW complete, complete = Complete',
         NEW waits, NEW v, v = View(l, at, complete, waits), Current(server', v),
         mcast' \in Addr \cup {NoAddr}, link_announcing' \in BOOLEAN, Joined(mcast', link_announcing', v)
  PROVE  HostIInv'
<1>1. PICK w : w = View(l, at, complete, {})
  OBVIOUS
<1>2. Now' = w
  BY <1>1 DEF Now
<1>3. /\ w.known = v.known /\ w.flags_ok = v.flags_ok /\ w.addrs = v.addrs
      /\ w.attr = v.attr /\ w.complete = v.complete
  BY <1>1 DEF View
<1>4. Current(server', w)
  <2>1. PICK s : s = server'
    OBVIOUS
  <2>2. Current(s, w)
    BY <1>3, <2>1, CurrentSame
  <2> QED
    BY <2>1, <2>2
<1>5. Joined(mcast', link_announcing', w)
  <2>1. PICK m, j : m = mcast' /\ j = link_announcing'
    OBVIOUS
  <2>2. Joined(m, j, w)
    BY <1>3, <2>1, JoinedSame
  <2> QED
    BY <2>1, <2>2
<1> QED
  BY <1>2, <1>4, <1>5 DEF HostIInv

\* What the update of the records looks at, before and after the link starts or stops announcing
LEMMA ViewFields ==
  ASSUME NEW l \in LinkType, ViewOK(l), NEW at, NEW complete, NEW waits,
         NEW v, v = View(l, at, complete, waits)
  PROVE  /\ v.known = l.known /\ v.flags_ok = l.flags_ok /\ v.addrs = l.addrs /\ v.attr = at
         /\ v.complete = complete /\ ViewOK(v) /\ v.addrs \in Seq(Addr)
BY DEF View, ViewOK

LEMMA NewLinkStep ==
  ASSUME HostIInv, NEW f \in BOOLEAN, NewLink(f)
  PROVE  HostIInv'
<1>1. PICK l : l = [link EXCEPT !.known = TRUE, !.flags_ok = f]
  OBVIOUS
<1>2. l \in LinkType /\ l.known = TRUE /\ l.addrs = link.addrs
  BY <1>1, KnownNow DEF LinkType
<1>3. ViewOK(l) /\ IsInjective(l.addrs)
  BY <1>2, KnownNow DEF ViewOK
<1>4. PICK w : w = View(l, attr, Complete, {})
  OBVIOUS
<1>5. PICK waits, v : v = View(l, attr, Complete, waits) /\ server' = UpdateRRs(server, v, FALSE)
  BY <1>1 DEF NewLink
<1>6. PICK ok \in BOOLEAN : CheckRelevant(w, mcast, ok)
  BY <1>1, <1>4, HostAssumption DEF NewLink
<1>7. link' = l /\ server' = UpdateRRs(server, v, FALSE) /\ attr' = attr /\ list' = list
  BY <1>1, <1>5 DEF NewLink
<1>8. /\ w.flags_ok = l.flags_ok /\ w.addrs = l.addrs /\ w.attr = attr /\ w.addrs \in Seq(Addr)
      /\ v.flags_ok = l.flags_ok /\ v.addrs = l.addrs /\ v.attr = attr /\ v.known = l.known /\ ViewOK(v)
  BY <1>2, <1>3, <1>4, <1>5, ViewFields
<1>9. mcast' \in Addr \cup {NoAddr} /\ link_announcing' \in BOOLEAN /\ Joined(mcast', link_announcing', w)
  BY <1>6, <1>8, KnownNow, CheckedIsJoined
<1>10. Joined(mcast', link_announcing', v)
  BY <1>8, <1>9, JoinedSame
<1>11. Sound(server, v)
  <2>1. Elements(Now.addrs) \subseteq Elements(v.addrs) /\ (Now.known => v.known) /\ Current(server, Now)
    BY <1>2, <1>8, KnownNow
  <2> QED
    BY <2>1, CurrentIsSound
<1>12. Current(server', v)
  BY <1>7, <1>8, <1>11, UpdatedIsCurrent
<1>13. Complete' = Complete /\ list' \in {"iface", "addr", "done"} /\ attr \in [Addr -> Attrs]
  BY <1>7 DEF Complete, HostIInv
<1> QED
  BY <1>2, <1>3, <1>5, <1>7, <1>9, <1>10, <1>12, <1>13, LinkStep

LEMMA DelLinkStep ==
  ASSUME HostIInv, DelLink
  PROVE  HostIInv'
<1>0. PICK x \in Views :
        server' = [UpdateAddresses(UpdateRRs(server, x, TRUE), x, TRUE) EXCEPT !.group["workstation"] = Empty]
  BY DEF DelLink
<1>1. PICK u : u = UpdateRRs(server, x, TRUE)
  OBVIOUS
<1>2. PICK d : d = UpdateAddresses(u, x, TRUE)
  OBVIOUS
<1>3. PICK t : t = [d EXCEPT !.group["workstation"] = Empty]
  OBVIOUS
<1>4. /\ server' = t /\ link' = NoLink /\ link_announcing' = FALSE /\ mcast' = NoAddr
      /\ attr' = attr /\ list' = list
  BY <1>0, <1>1, <1>2, <1>3 DEF DelLink
<1>5. <<>> \in Seq(Addr) /\ DOMAIN <<>> = {}
  OBVIOUS
<1>6. NoLink \in LinkType /\ NoLink.addrs = <<>>
  BY <1>5 DEF NoLink, LinkType
<1>7. ViewOK(NoLink) /\ IsInjective(NoLink.addrs)
  BY <1>5, <1>6 DEF ViewOK, IsInjective
<1>8. PICK v : v = View(NoLink, attr, Complete, {})
  OBVIOUS
<1>9. v.addrs = <<>>
  BY <1>6, <1>8 DEF View
<1>10. Current(t, v)
  BY <1>1, <1>2, <1>3, <1>9, KnownView, LinkGone
<1>11. Joined(NoAddr, FALSE, v)
  BY DEF Joined
<1>12. Complete' = Complete /\ list' \in {"iface", "addr", "done"} /\ attr \in [Addr -> Attrs]
  BY <1>4 DEF Complete, HostIInv
<1> QED
  BY <1>4, <1>6, <1>7, <1>8, <1>10, <1>11, <1>12, LinkStep

LEMMA NewAddrStep ==
  ASSUME HostIInv, NEW a \in Addr, NEW k \in Attrs, NewAddr(a, k)
  PROVE  HostIInv'
<1>1. PICK s : s = link.addrs
  OBVIOUS
<1>2. PICK r : r = IF a \in Elements(s) THEN s ELSE <<a>> \o s
  OBVIOUS
<1>3. s \in Seq(Addr) /\ IsInjective(s)
  BY <1>1, KnownNow
<1>4. r = IF a \in Elements(link.addrs) THEN link.addrs ELSE <<a>> \o link.addrs
  BY <1>1, <1>2
<1>5. r \in Seq(Addr) /\ IsInjective(r) /\ Elements(link.addrs) \subseteq Elements(r)
  BY <1>1, <1>2, <1>3, WithIsList
<1>6. PICK l : l = WithAddress(link, a)
  OBVIOUS
<1>7. l = [link EXCEPT !.addrs = r]
  BY <1>4, <1>6, KnownNow DEF WithAddress, LinkType
<1>8. l \in LinkType /\ l.known = TRUE /\ l.addrs = r
  BY <1>5, <1>7, KnownNow DEF LinkType, NewAddr
<1>9. ViewOK(l) /\ IsInjective(l.addrs)
  BY <1>5, <1>8 DEF ViewOK
<1>10. PICK at : at = [attr EXCEPT ![a] = k]
  OBVIOUS
<1>11. at \in [Addr -> Attrs]
  BY <1>10 DEF HostIInv
<1>12. PICK w : w = View(l, at, Complete, {})
  OBVIOUS
<1>13. PICK waits, v : v = View(l, at, Complete, waits) /\ server' = UpdateAddresses(server, v, FALSE)
  BY <1>6, <1>10 DEF NewAddr
<1>14. PICK ok \in BOOLEAN : CheckRelevant(w, mcast, ok)
  BY <1>6, <1>10, <1>12, HostAssumption DEF NewAddr
<1>15. link' = l /\ server' = UpdateAddresses(server, v, FALSE) /\ attr' = at /\ list' = list
  BY <1>6, <1>10, <1>13 DEF NewAddr
<1>16. /\ w.flags_ok = l.flags_ok /\ w.addrs = l.addrs /\ w.attr = at /\ w.addrs \in Seq(Addr)
       /\ v.flags_ok = l.flags_ok /\ v.addrs = l.addrs /\ v.attr = at /\ v.known = l.known /\ ViewOK(v)
  BY <1>8, <1>9, <1>12, <1>13, ViewFields
<1>17. mcast' \in Addr \cup {NoAddr} /\ link_announcing' \in BOOLEAN /\ Joined(mcast', link_announcing', w)
  BY <1>14, <1>16, KnownNow, CheckedIsJoined
<1>18. Joined(mcast', link_announcing', v)
  BY <1>16, <1>17, JoinedSame
<1>19. Sound(server, v)
  <2>1. Elements(Now.addrs) \subseteq Elements(v.addrs) /\ (Now.known => v.known) /\ Current(server, Now)
    BY <1>5, <1>8, <1>16, KnownNow
  <2> QED
    BY <2>1, CurrentIsSound
<1>20. Current(server', v)
  <2>1. v.known
    BY <1>8, <1>16
  <2> QED
    BY <1>15, <1>16, <1>19, <2>1, UpdatedIsCurrent
<1>21. Complete' = Complete /\ list' \in {"iface", "addr", "done"}
  BY <1>15 DEF Complete, HostIInv
<1> QED
  BY <1>8, <1>9, <1>11, <1>13, <1>15, <1>17, <1>18, <1>20, <1>21, LinkStep

LEMMA DelAddrStep ==
  ASSUME HostIInv, NEW a \in Addr, DelAddr(a)
  PROVE  HostIInv'
<1>1. PICK s : s = link.addrs
  OBVIOUS
<1>2. s \in Seq(Addr) /\ IsInjective(s) /\ a \in Elements(s)
  BY <1>1, KnownNow DEF DelAddr
<1>3. PICK n \in DOMAIN s : n = (CHOOSE i \in DOMAIN s : s[i] = a) /\ a = s[n]
  BY <1>2 DEF Elements
<1>4. PICK r : r = RemoveAt(s, n)
  OBVIOUS
<1>5. r \in Seq(Addr) /\ IsInjective(r) /\ Elements(r) = Elements(s) \ {a}
  <2>1. n \in DOMAIN s /\ a = s[n]
    BY <1>3
  <2> QED
    BY <1>2, <1>4, <2>1, WithoutIsList
<1>6. PICK l : l = WithoutAddress(link, a)
  OBVIOUS
<1>7. l = [link EXCEPT !.addrs = r]
  BY <1>1, <1>3, <1>4, <1>6, KnownNow DEF WithoutAddress, LinkType
<1>8. link.known = TRUE
  BY <1>1, <1>2, KnownNow DEF HostIInv, ViewOK, Elements
<1>9. l \in LinkType /\ l.known = TRUE /\ l.addrs = r
  BY <1>5, <1>7, <1>8, KnownNow DEF LinkType
<1>10. ViewOK(l) /\ IsInjective(l.addrs)
  BY <1>5, <1>9 DEF ViewOK
<1>11. PICK w : w = View(l, attr, Complete, {})
  OBVIOUS
<1>12. PICK x, waits : x \in Views /\
         server' = UpdateAddresses(UpdateAddress(server, x, a, TRUE), View(l, attr, Complete, waits), FALSE)
  BY <1>6 DEF DelAddr
<1>24. PICK v : v = View(l, attr, Complete, waits)
  OBVIOUS
<1>13. PICK h : h = UpdateAddress(server, x, a, TRUE)
  OBVIOUS
<1>14. PICK ok1 \in BOOLEAN, ok2 \in BOOLEAN : CheckRelevant(w, Rejoin(mcast, l.addrs, attr, ok1), ok2)
  BY <1>6, <1>11, HostAssumption DEF DelAddr
<1>15. link' = l /\ server' = UpdateAddresses(h, v, FALSE) /\ attr' = attr /\ list' = list
  BY <1>6, <1>12, <1>13, <1>24 DEF DelAddr
<1>16. /\ w.flags_ok = l.flags_ok /\ w.addrs = l.addrs /\ w.attr = attr /\ w.addrs \in Seq(Addr)
       /\ v.flags_ok = l.flags_ok /\ v.addrs = l.addrs /\ v.attr = attr /\ v.known = l.known /\ ViewOK(v)
  BY <1>9, <1>10, <1>11, <1>24, ViewFields
<1>17. PICK m : m = Rejoin(mcast, l.addrs, attr, ok1)
  OBVIOUS
<1>18. m \in Addr \cup {NoAddr} /\ (m # NoAddr => link_announcing)
  <2>1. PICK q \in Addr \cup {NoAddr} : q = mcast
    BY KnownNow
  <2>2. m = Rejoin(q, r, attr, ok1)
    BY <1>9, <1>17, <2>1
  <2>3. ok1 \in BOOLEAN /\ q \in Addr \cup {NoAddr} /\ r \in Seq(Addr)
    BY <1>5, <1>14, <2>1
  <2>4. PICK at : at = attr
    OBVIOUS
  <2>5. m = Rejoin(q, r, at, ok1)
    BY <2>2, <2>4
  <2>6. m \in Addr \cup {NoAddr} /\ (q = NoAddr => m = NoAddr)
    BY <2>3, <2>5, RejoinIsBest
  <2> QED
    BY <2>1, <2>6, KnownNow
<1>19. mcast' \in Addr \cup {NoAddr} /\ link_announcing' \in BOOLEAN /\ Joined(mcast', link_announcing', w)
  <2>1. CheckRelevant(w, m, ok2)
    BY <1>14, <1>17
  <2> QED
    BY <1>16, <1>18, <2>1, KnownNow, CheckedIsJoined
<1>20. Joined(mcast', link_announcing', v)
  BY <1>16, <1>19, JoinedSame
<1>21. Sound(h, v)
  <2>1. /\ ViewOK(x) /\ Current(server, x) /\ a \in Elements(x.addrs) /\ v.known
        /\ Elements(v.addrs) = Elements(x.addrs) \ {a}
    BY <1>1, <1>2, <1>5, <1>9, <1>12, <1>16, KnownNow, KnownView
  <2> QED
    BY <1>13, <2>1, FreedIsSound
<1>22. Current(server', v)
  <2>1. v.known
    BY <1>9, <1>16
  <2> QED
    BY <1>15, <1>16, <1>21, <2>1, UpdatedIsCurrent
<1>23. Complete' = Complete /\ list' \in {"iface", "addr", "done"} /\ attr \in [Addr -> Attrs]
  BY <1>15 DEF Complete, HostIInv
<1> QED
  BY <1>9, <1>10, <1>15, <1>19, <1>20, <1>22, <1>23, <1>24, LinkStep

LEMMA InterfacesListedStep ==
  ASSUME HostIInv, InterfacesListed
  PROVE  HostIInv'
<1>1. /\ list = "iface" /\ list' = "addr" /\ link' = link /\ attr' = attr /\ server' = server
      /\ link_announcing' = link_announcing /\ mcast' = mcast
  BY DEF InterfacesListed
<1>2. Complete' = Complete
  BY <1>1 DEF Complete
<1>3. Now' = Now
  BY <1>1, <1>2 DEF Now
<1>4. Current(server', Now') /\ Joined(mcast', link_announcing', Now')
  BY <1>1, <1>3 DEF HostIInv
<1> QED
  BY <1>1, <1>4 DEF HostIInv

LEMMA ListDoneStep ==
  ASSUME HostIInv, ListDone
  PROVE  HostIInv'
<1>1. PICK l : l = link
  OBVIOUS
<1>2. l \in LinkType /\ ViewOK(l) /\ IsInjective(l.addrs)
  BY <1>1, KnownNow DEF HostIInv
<1>3. PICK c : c = TRUE
  OBVIOUS
<1>4. PICK w : w = View(l, attr, c, {})
  OBVIOUS
<1>5. PICK waits, v : v = View(l, attr, c, waits) /\ server' = UpdateRRs(server, v, FALSE)
  BY <1>1, <1>3 DEF ListDone
<1>6. link' = l /\ attr' = attr /\ list' = "done" /\ server' = UpdateRRs(server, v, FALSE)
  BY <1>1, <1>5, <1>3 DEF ListDone
<1>7. /\ w.flags_ok = l.flags_ok /\ w.addrs = l.addrs /\ w.attr = attr /\ w.addrs \in Seq(Addr)
      /\ v.flags_ok = l.flags_ok /\ v.addrs = l.addrs /\ v.attr = attr /\ v.known = l.known /\ ViewOK(v)
  BY <1>2, <1>4, <1>5, ViewFields
<1>8. mcast' \in Addr \cup {NoAddr} /\ link_announcing' \in BOOLEAN /\ Joined(mcast', link_announcing', w)
  <2>1. CASE link.known
    <3>1. PICK ok \in BOOLEAN : CheckRelevant(w, mcast, ok)
      BY <1>1, <1>4, <1>3, <2>1, HostAssumption DEF ListDone
    <3> QED
      BY <1>7, <3>1, KnownNow, CheckedIsJoined
  <2>2. CASE ~link.known
    <3>1. mcast' = mcast /\ link_announcing' = link_announcing
      BY <2>2 DEF ListDone
    <3>2. Joined(mcast, link_announcing, Now)
      BY DEF HostIInv
    <3>3. Joined(mcast, link_announcing, w)
      BY <1>1, <1>7, <3>2, KnownNow, JoinedSame
    <3> QED
      BY <3>1, <3>3, KnownNow
  <2> QED
    BY <2>1, <2>2
<1>9. Joined(mcast', link_announcing', v)
  BY <1>7, <1>8, JoinedSame
<1>10. Sound(server, v)
  <2>1. Elements(Now.addrs) \subseteq Elements(v.addrs) /\ (Now.known => v.known) /\ Current(server, Now)
    BY <1>1, <1>7, KnownNow
  <2> QED
    BY <2>1, CurrentIsSound
<1>11. Current(server', v)
  BY <1>6, <1>7, <1>10, UpdatedIsCurrent
<1>12. c = Complete' /\ v = View(l, attr, c, waits)
  BY <1>5, <1>6, <1>3 DEF Complete
<1>13. attr \in [Addr -> Attrs] /\ list' \in {"iface", "addr", "done"}
  BY <1>6 DEF HostIInv
<1> QED
  BY <1>2, <1>6, <1>8, <1>9, <1>11, <1>12, <1>13, LinkStep

LEMMA ServerStartsStep ==
  ASSUME HostIInv, ServerStarts
  PROVE  HostIInv'
<1>1. PICK v \in Views : server.state = "INVALID" /\ server' = register_stuff(server, v)
  BY DEF ServerStarts
<1>2. \A g \in Group : ~Up(server, g)
  BY <1>1, KnownNow DEF Current, Sound, Live
<1>3. ~Up(server, "hinfo") /\ ~Up(server, "workstation") /\ \A a \in Addr : ~Up(server, a)
  BY <1>2 DEF Group
<1>4. server \in HostType /\ server.pending = 0
  BY <1>1, KnownNow DEF Current, Sound
<1>5. Cleared(server, v)
  BY <1>3, <1>4 DEF Cleared
<1>6. Current(server', v)
  BY <1>1, <1>5, KnownView, RegisteredIsCurrent
<1> QED
  BY <1>6, ServerStep DEF ServerStarts

\* What a withdrawal asks of the server
LEMMA Withdrawable ==
  ASSUME HostIInv
  PROVE  /\ server \in HostType
         /\ server.state = "REGISTERING" => server.pending >= 1 /\ ~Up(server, "workstation")
         /\ server.state # "REGISTERING" => server.pending = 0
         /\ \A a \in Addr \ Elements(Now.addrs) : ~Up(server, a)
         /\ ~Now.known => ~Up(server, "workstation")
<1>1. Current(server, Now)
  BY KnownNow
<1>2. server \in HostType
  BY <1>1 DEF Current, Sound
<1>3. server.state = "REGISTERING" => server.pending >= 1
  <2> SUFFICES ASSUME server.state = "REGISTERING"
               PROVE  server.pending >= 1
    OBVIOUS
  <2>1. PICK c \in Nat : c = Cardinality(Pending(server))
    BY PendingFinite
  <2>2. server.pending \in 1..c
    BY <1>1, <2>1 DEF Current, Sound
  <2> QED
    BY <2>2
<1> QED
  BY <1>1, <1>2, <1>3 DEF Current, Sound

LEMMA HostNameStep ==
  ASSUME HostIInv, NEW n \in HostName, avahi_server_set_host_name(n)
  PROVE  HostIInv'
<1>1. PICK v \in Views : server' = register_stuff([withdraw_host_rrs(server, v) EXCEPT !.name = n], v)
  BY DEF avahi_server_set_host_name
<1>2. PICK u : u = withdraw_host_rrs(server, v)
  OBVIOUS
<1>3. PICK t : t = [u EXCEPT !.name = n]
  OBVIOUS
<1>4. Cleared(u, v)
  BY <1>1, <1>2, KnownView, Withdrawable, ClearedByWithdrawal
<1>5. t \in HostType /\ t.pending = 0 /\ t.group = u.group
  BY <1>3, <1>4 DEF Cleared, HostType
<1>6. Cleared(t, v)
  BY <1>4, <1>5 DEF Cleared, Up
<1>7. server' = register_stuff(t, v)
  BY <1>1, <1>2, <1>3
<1>8. Current(server', v)
  BY <1>6, <1>7, KnownView, RegisteredIsCurrent
<1> QED
  BY <1>1, <1>8, ServerStep DEF avahi_server_set_host_name

LEMMA GroupEstablishedStep ==
  ASSUME HostIInv, NEW g \in Group, GroupEstablished(g)
  PROVE  HostIInv'
<1>1. PICK v \in Views : server' = Established(server, v, g)
  BY DEF GroupEstablished
<1>2. ViewOK(v) /\ Current(server, v)
  BY KnownView
<1>3. PICK h : h = server
  OBVIOUS
<1>4. h \in HostType /\ h.group[g].state = "REGISTERING"
  BY <1>2, <1>3 DEF Current, Sound, GroupEstablished
<1>5. PICK e : e = [h.group[g] EXCEPT !.state = "ESTABLISHED"]
  OBVIOUS
<1>6. e \in GroupType /\ e.state = "ESTABLISHED"
  BY <1>4, <1>5 DEF HostType, GroupType
<1>7. Empty.state = "UNCOMMITED"
  BY <1>4, EmptyType
<1>8. PICK f : f = [h EXCEPT !.group[g] = e]
  OBVIOUS
<1>9. f = [h EXCEPT !.group[g].state = "ESTABLISHED"]
  BY <1>4, <1>5, <1>8 DEF HostType
<1>10. /\ f \in HostType /\ f.state = h.state /\ f.pending = h.pending /\ f.name = h.name
       /\ f.group[g] = e /\ \A x \in Group \ {g} : f.group[x] = h.group[x]
  BY <1>4, <1>6, <1>8 DEF HostType
<1>11. \A x \in Group : Up(f, x) <=> Up(h, x)
  BY <1>4, <1>6, <1>7, <1>10 DEF Up
<1>12. server' = IF f.state = "REGISTERING" THEN avahi_server_decrease_host_rr_pending(f, v) ELSE f
  <2>1. server' = EstablishedBy(avahi_server_decrease_host_rr_pending, h, v, g)
    BY <1>1, <1>3 DEF Established
  <2> QED
    BY <1>9, <1>10, <2>1, Zenon DEF EstablishedBy
<1>13. /\ \A a \in Addr : Up(f, a) <=> Up(h, a)
       /\ Up(f, "workstation") <=> Up(h, "workstation")
  BY <1>11 DEF Group
<1>14. Elements(v.addrs) \subseteq Addr
  BY <1>2 DEF ViewOK, Elements
<1>15. CASE h.state # "REGISTERING"
  <2>1. Current(f, v)
    BY <1>2, <1>3, <1>10, <1>11, <1>13, <1>14, <1>15 DEF Current, Sound
  <2> QED
    BY <1>1, <1>10, <1>12, <1>15, <2>1, ServerStep DEF GroupEstablished
<1>16. CASE h.state = "REGISTERING"
  <2>1. PICK p, c \in Nat : p = h.pending /\ c = Cardinality(Pending(h))
    BY <1>4, PendingFinite DEF HostType
  <2>2. p \in 1..c
    BY <1>2, <1>3, <1>16, <2>1 DEF Current, Sound
  <2>3. p >= 1 /\ p <= c
    BY <2>2
  <2>4. Cardinality(Pending(f)) = c - 1
    <3>1. g \in Pending(h) /\ g \notin Pending(f)
      BY <1>4, <1>6, <1>10 DEF Pending
    <3> QED
      BY <1>10, <2>1, <3>1, PendingMoves
  <2>5. PICK t : t = avahi_server_decrease_host_rr_pending(f, v)
    OBVIOUS
  <2>6. server' = t
    BY <1>10, <1>12, <1>16, <2>5
  <2>7. f.state = "REGISTERING" /\ f.pending >= 1 /\ f.pending = p
    BY <1>10, <1>16, <2>1, <2>3
  <2>8. ~Up(f, "workstation") /\ \A a \in Addr \ Elements(v.addrs) : ~Up(f, a)
    BY <1>2, <1>3, <1>13, <1>16 DEF Current, Sound
  <2>9. CASE p > 1
    <3>1. t = [f EXCEPT !.pending = f.pending - 1]
      BY <1>2, <1>10, <2>5, <2>7, <2>9, Decrease
    <3>2. p - 1 \in Nat /\ p - 1 \in 1..(c - 1)
      BY <2>3, <2>9
    <3>3. t \in HostType /\ t.state = "REGISTERING" /\ t.pending = p - 1 /\ t.group = f.group
      BY <1>10, <2>7, <3>1, <3>2 DEF HostType
    <3>4. Pending(t) = Pending(f)
      BY <3>3 DEF Pending
    <3>5. t.pending \in 1..Cardinality(Pending(t))
      BY <2>4, <3>2, <3>3, <3>4
    <3>6. \A x : Up(t, x) <=> Up(f, x)
      BY <3>3 DEF Up
    <3>7. \A a \in Elements(v.addrs) : Up(h, a) <=> a \in Wanted(v)
      BY <1>2, <1>3, <1>16 DEF Current, Live
    <3>8. \A a \in Elements(v.addrs) : Up(t, a) <=> a \in Wanted(v)
      BY <1>13, <1>14, <3>6, <3>7
    <3>9. Sound(t, v)
      BY <2>8, <3>3, <3>5, <3>6 DEF Sound, Live
    <3>10. Current(t, v)
      BY <3>3, <3>8, <3>9 DEF Current, Live
    <3> QED
      BY <1>1, <2>6, <3>10, ServerStep DEF GroupEstablished
  <2>10. CASE p = 1
    <3>1. Declared(t, f, v)
      BY <1>2, <1>10, <2>5, <2>7, <2>10, Decrease
    <3>2. \A a \in Addr \ Elements(v.addrs) : ~Up(t, a)
      BY <2>8, <3>1 DEF Declared, SameOthers, Up
    <3>3. ~v.known => ~Up(t, "workstation")
      BY <2>8, <3>1 DEF Declared, Up
    <3>4. Current(t, v)
      BY <3>1, <3>2, <3>3 DEF Declared, Current, Sound, Live
    <3> QED
      BY <1>1, <2>6, <3>4, ServerStep DEF GroupEstablished
  <2> QED
    BY <2>3, <2>9, <2>10
<1> QED
  BY <1>15, <1>16

LEMMA GroupCollidesStep ==
  ASSUME HostIInv, NEW g \in Group, GroupCollides(g)
  PROVE  HostIInv'
<1>1. PICK v \in Views :
        server' = IF server.state \in {"REGISTERING", "RUNNING"}
                  THEN Collision([server EXCEPT !.group[g].state = "COLLISION"], v)
                  ELSE [server EXCEPT !.group[g].state = "COLLISION"]
  BY DEF GroupCollides
<1>2. ViewOK(v) /\ Current(server, v)
  BY KnownView
<1>3. PICK h : h = server
  OBVIOUS
<1>4. h \in HostType /\ h.group[g].state \in {"REGISTERING", "ESTABLISHED"}
  BY <1>2, <1>3 DEF Current, Sound, GroupCollides
<1>5. PICK e : e = [h.group[g] EXCEPT !.state = "COLLISION"]
  OBVIOUS
<1>6. e \in GroupType /\ e.state = "COLLISION"
  BY <1>4, <1>5 DEF HostType, GroupType
<1>7. Empty.state = "UNCOMMITED"
  BY <1>4, EmptyType
<1>8. PICK f : f = [h EXCEPT !.group[g] = e]
  OBVIOUS
<1>9. f = [h EXCEPT !.group[g].state = "COLLISION"]
  BY <1>4, <1>5, <1>8 DEF HostType
<1>10. /\ f \in HostType /\ f.state = h.state /\ f.pending = h.pending
       /\ f.group[g] = e /\ \A x \in Group \ {g} : f.group[x] = h.group[x]
  BY <1>4, <1>6, <1>8 DEF HostType
<1>11. \A x \in Group : Up(f, x) <=> Up(h, x)
  BY <1>4, <1>6, <1>7, <1>10 DEF Up
<1>12. Up(h, g)
  BY <1>4, <1>7 DEF Up
<1>13. Live(h.state)
  BY <1>2, <1>3, <1>12 DEF Current, Sound
<1>14. server' = Collision(f, v)
  BY <1>1, <1>3, <1>9, <1>13 DEF Live
<1>15. /\ \A a \in Addr : Up(f, a) <=> Up(h, a)
       /\ Up(f, "workstation") <=> Up(h, "workstation")
  BY <1>11 DEF Group
<1>16. /\ f.state = "REGISTERING" => f.pending >= 1 /\ ~Up(f, "workstation")
       /\ f.state # "REGISTERING" => f.pending = 0
       /\ \A a \in Addr \ Elements(v.addrs) : ~Up(f, a)
       /\ ~v.known => ~Up(f, "workstation")
  BY <1>3, <1>10, <1>15, KnownView, Withdrawable
<1>17. Current(server', v)
  BY <1>2, <1>10, <1>13, <1>14, <1>16, CollisionIsCurrent
<1> QED
  BY <1>1, <1>17, ServerStep DEF GroupCollides

LEMMA HostStep == HostIInv /\ [HostNext]_hostVars => HostIInv'
<1> SUFFICES ASSUME HostIInv, [HostNext]_hostVars
             PROVE  HostIInv'
  OBVIOUS
<1>1. CASE UNCHANGED hostVars
  <2>1. UNCHANGED <<server, link, attr, list, link_announcing, mcast>>
    BY <1>1 DEF hostVars
  <2>2. Current(server', Now)
    BY <2>1 DEF HostIInv
  <2> QED
    BY <2>1, <2>2, ServerStep
<1>2. ASSUME NEW f \in BOOLEAN, NewLink(f)
      PROVE  HostIInv'
  BY <1>2, NewLinkStep
<1>3. CASE DelLink
  BY <1>3, DelLinkStep
<1>4. ASSUME NEW a \in Addr, DelAddr(a)
      PROVE  HostIInv'
  BY <1>4, DelAddrStep
<1>5. ASSUME NEW a \in Addr, NEW t \in Attrs, NewAddr(a, t)
      PROVE  HostIInv'
  BY <1>5, NewAddrStep
<1>6. CASE InterfacesListed
  BY <1>6, InterfacesListedStep
<1>7. CASE ListDone
  BY <1>7, ListDoneStep
<1>8. CASE ServerStarts
  BY <1>8, ServerStartsStep
<1>9. ASSUME NEW n \in HostName, avahi_server_set_host_name(n)
      PROVE  HostIInv'
  BY <1>9, HostNameStep
<1>10. ASSUME NEW g \in Group, GroupEstablished(g)
       PROVE  HostIInv'
  BY <1>10, GroupEstablishedStep
<1>11. ASSUME NEW g \in Group, GroupCollides(g)
       PROVE  HostIInv'
  BY <1>11, GroupCollidesStep
<1> QED
  BY <1>1, <1>2, <1>3, <1>4, <1>5, <1>6, <1>7, <1>8, <1>9, <1>10, <1>11 DEF HostNext

LEMMA HostIInvImplies == HostIInv => HostRecordsInv
<1> SUFFICES ASSUME HostIInv PROVE HostRecordsInv
  OBVIOUS
<1>1. PICK v : v = Now
  OBVIOUS
<1>2. /\ ViewOK(v) /\ Current(server, v) /\ v.addrs = link.addrs /\ link.addrs \in Seq(Addr)
      /\ v.complete = Complete /\ IsInjective(link.addrs) /\ v.attr = attr
  BY <1>1, KnownNow DEF Now, View
<1>3. /\ server \in HostType
      /\ IF server.state = "REGISTERING" THEN server.pending \in 1..Cardinality(Pending(server)) ELSE server.pending = 0
      /\ \A a \in Addr \ Elements(v.addrs) : ~Up(server, a)
      /\ Live(server.state) \/ \A g \in Group : ~Up(server, g)
      /\ \A a \in Elements(v.addrs) : Up(server, a) <=> a \in Wanted(v) /\ Live(server.state)
  BY <1>2 DEF Current, Sound
<1>4. Elements(link.addrs) \subseteq Addr
  BY <1>2 DEF Elements
<1>5. HostRecordsTypeOK
  <2>1. server.pending \in 0..Cardinality(Group)
    <3>1. PICK p, c, d \in Nat : /\ p = server.pending /\ c = Cardinality(Pending(server))
                                 /\ d = Cardinality(Group) /\ c <= d
      BY <1>3, PendingFinite DEF HostType
    <3>2. p = 0 \/ p \in 1..c
      BY <1>3, <3>1
    <3>3. p \in 0..d
      BY <3>1, <3>2
    <3> QED
      BY <3>1, <3>3
  <2>2. /\ server.state \in {"INVALID", "REGISTERING", "RUNNING", "COLLISION"} /\ server.name \in HostName
        /\ \A g \in Group : server.group[g].state \in {"UNCOMMITED", "REGISTERING", "ESTABLISHED", "COLLISION"}
    BY <1>3 DEF HostType, GroupType
  <2> QED
    BY <1>2, <1>4, <2>1, <2>2 DEF HostRecordsTypeOK, HostIInv
<1>6. PublishedIffRelevant
  <2>1. ASSUME NEW a \in Addr
        PROVE  a \in Published <=> a \in Wanted(v) /\ Live(server.state)
    <3>1. a \in Published <=> Up(server, a)
      BY DEF Published, Up, Group
    <3>2. CASE a \in Elements(v.addrs)
      BY <1>3, <3>1, <3>2
    <3>3. CASE a \notin Elements(v.addrs)
      BY <1>3, <3>1, <3>3 DEF Wanted
    <3> QED
      BY <3>2, <3>3
  <2>2. \A a : a \in Wanted(v) <=> a \in Elements(link.addrs) /\ Complete /\ AddressRelevant(v, a) /\ Relevant(v)
    BY <1>2 DEF Wanted
  <2>3. CASE Complete /\ server.state \in {"REGISTERING", "RUNNING"} /\ Relevant(v)
    <3>1. Published \cap Addr = {a \in Elements(link.addrs) : AddressRelevant(v, a)}
      BY <1>4, <2>1, <2>2, <2>3 DEF Live
    <3> QED
      BY <1>1, <2>3, <3>1 DEF PublishedIffRelevant
  <2>4. CASE ~(Complete /\ server.state \in {"REGISTERING", "RUNNING"} /\ Relevant(v))
    <3>1. Published \cap Addr = {}
      BY <2>1, <2>2, <2>4 DEF Live
    <3> QED
      BY <1>1, <2>4, <3>1 DEF PublishedIffRelevant
  <2> QED
    BY <2>3, <2>4
<1>7. NeverStuckRegistering
  BY <1>3 DEF NeverStuckRegistering, Pending
<1>8. CollisionWithdrawsAll
  BY <1>3 DEF CollisionWithdrawsAll, Published, Up, Live
<1>9. JoinedWithBestAddress
  BY <1>1, <1>2 DEF HostIInv, Joined, JoinedWithBestAddress
<1> QED
  BY <1>5, <1>6, <1>7, <1>8, <1>9 DEF HostRecordsInv

\* Which records of the host are published follows its addresses, links and collisions, and
\* so does the state of the server, for any set of addresses and of host names.
THEOREM HostRecordsFollow == HostSpec => []HostRecordsInv
<1> QED
  BY InitialHost, HostStep, HostIInvImplies, PTL DEF HostSpec
=============================================================================
