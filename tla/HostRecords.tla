---------------------------- MODULE HostRecords ----------------------------
(***************************************************************************)
(* The records the server publishes about its own host: the state of the   *)
(* server (server.c), the addresses of its interfaces (iface.c) and what   *)
(* the kernel tells about them (iface-linux.c, netlink.c).                 *)
(*                                                                         *)
(* One hardware interface, one protocol.  An address is "global", global   *)
(* but "deprecated", or "local".  Each address has an entry group, and so  *)
(* have the HINFO record and the workstation service; what becomes of a    *)
(* committed group is the business of module Announce.  The functions call *)
(* one another while they walk over the addresses: a change of the server  *)
(* state updates all records, which may change the server state.           *)
(* The domain is "local", for which no browse domain is registered.        *)
(***************************************************************************)
EXTENDS Naturals, Sequences, SequencesExt, FiniteSets

CONSTANTS Addr,     \* addresses
          NoAddr,   \* no address
          HostName, \* host names
          Extra,    \* which of "hinfo" and "workstation" are configured
          JoinOK    \* outcomes of joining the multicast group: {TRUE} or BOOLEAN

ASSUME HostAssumption ==
  /\ IsFiniteSet(Addr) /\ NoAddr \notin Addr /\ "hinfo" \notin Addr /\ "workstation" \notin Addr
  /\ Extra \subseteq {"hinfo", "workstation"}
  /\ JoinOK \subseteq BOOLEAN /\ TRUE \in JoinOK

VARIABLES server,  \* server state, pending host records, host name, entry groups
          link,    \* the interface: known, flags_ok, addresses (newest first)
          attr,    \* address -> "global", "deprecated" or "local"
          list,    \* how far the list from the kernel is: "iface", "addr", "done"
          link_announcing,
          mcast    \* the address the multicast group was joined with; NoAddr

hostVars == <<server, link, attr, list, link_announcing, mcast>>

Group == Addr \cup {"hinfo", "workstation"}
Attrs == {"global", "deprecated", "local"}

Empty == [state |-> "UNCOMMITED", name |-> CHOOSE n \in HostName : TRUE]

Elements(seq) == {seq[i] : i \in DOMAIN seq}

\* What the update of the records looks at; waits: the groups that are not established
\* as soon as they are committed
View(l, at, complete, waits) ==
  [known |-> l.known, flags_ok |-> l.flags_ok, addrs |-> l.addrs, attr |-> at,
   complete |-> complete, waits |-> waits]

\* avahi_interface_address_is_relevant
AddressRelevant(v, a) ==
  v.attr[a] = "global" \/ \A b \in Elements(v.addrs) \ {a} : v.attr[b] # "global"

\* avahi_interface_is_relevant; the interface is not denied
Relevant(v) == v.flags_ok /\ \E a \in Elements(v.addrs) : AddressRelevant(v, a)

-----------------------------------------------------------------------------
(* Updates of the records; h is the value of server.                       *)
(*                                                                         *)
(* They call the function that counts, decrease, while the server is       *)
(* REGISTERING, and it calls them when the server is so no longer: the     *)
(* calls nest twice at most.  One more would be taken for an abort, which  *)
(* HostRecordsInv excludes.                                                *)

\* avahi_host_rr_entry_group_callback, when a group is established
EstablishedBy(decrease(_, _), h, v, g) ==
  LET e == [h EXCEPT !.group[g].state = "ESTABLISHED"]
  IN IF h.state = "REGISTERING" THEN decrease(e, v) ELSE e

\* avahi_s_entry_group_commit and avahi_host_rr_entry_group_callback.  Where nothing can be
\* probed the group is established at once, unless its holdoff time has not passed.
CommitBy(decrease(_, _), h, v, g) ==
  LET c == [h EXCEPT !.group[g] = [state |-> "REGISTERING", name |-> h.name],
                     !.pending = IF h.state = "REGISTERING" THEN @ + 1 ELSE @]
  IN IF g \in v.waits THEN c ELSE EstablishedBy(decrease, c, v, g)

\* avahi_interface_address_update_rrs and avahi_hw_interface_update_rrs, "Clear the entry group"
WithdrawGroupBy(decrease(_, _), h, v, g) ==
  LET counted == h.group[g].state = "REGISTERING" /\ h.state = "REGISTERING"
      d == IF counted THEN decrease(h, v) ELSE h
  IN [d EXCEPT !.group[g] = Empty]

UpdateGroupBy(decrease(_, _), h, v, g, wanted) ==
  CASE wanted /\ h.group[g] = Empty -> CommitBy(decrease, h, v, g)
    [] ~wanted /\ h.group[g] # Empty -> WithdrawGroupBy(decrease, h, v, g)
    [] OTHER -> h

\* avahi_interface_address_update_rrs
UpdateAddressBy(decrease(_, _), h, v, a, remove) ==
  UpdateGroupBy(decrease, h, v, a, /\ v.complete /\ AddressRelevant(v, a) /\ Relevant(v) /\ ~remove
                                   /\ h.state \in {"RUNNING", "REGISTERING"})

\* avahi_interface_update_rrs
UpdateAddressesBy(decrease(_, _), h, v, remove) ==
  FoldLeft(LAMBDA x, a : UpdateAddressBy(decrease, x, v, a, remove), h, v.addrs)

\* avahi_hw_interface_update_rrs and avahi_interface_monitor_update_rrs
UpdateRRsBy(decrease(_, _), h, v, remove) ==
  LET u == UpdateAddressesBy(decrease, h, v, remove)
  IN IF ~v.known THEN h
     ELSE UpdateGroupBy(decrease, u, v, "workstation",
                        v.complete /\ ~remove /\ "workstation" \in Extra /\ u.state = "RUNNING")

\* A failed assertion
Aborted(h, v) == [h EXCEPT !.state = "ABORTED"]

\* server_set_state, of a server that is not to be REGISTERING
LeaveState(h, v, s) == IF h.state = s THEN h ELSE UpdateRRsBy(Aborted, [h EXCEPT !.state = s], v, FALSE)

avahi_server_decrease_host_rr_pending(h, v) ==
  LET d == [h EXCEPT !.pending = @ - 1]
  IN IF h.pending = 0 THEN Aborted(h, v)
     ELSE IF d.pending = 0 THEN LeaveState(d, v, "RUNNING") ELSE d

Established(h, v, g) == EstablishedBy(avahi_server_decrease_host_rr_pending, h, v, g)
Commit(h, v, g) == CommitBy(avahi_server_decrease_host_rr_pending, h, v, g)
UpdateAddress(h, v, a, remove) == UpdateAddressBy(avahi_server_decrease_host_rr_pending, h, v, a, remove)
UpdateAddresses(h, v, remove) == UpdateAddressesBy(avahi_server_decrease_host_rr_pending, h, v, remove)
UpdateRRs(h, v, remove) == UpdateRRsBy(avahi_server_decrease_host_rr_pending, h, v, remove)

server_set_state(h, v, s) == IF h.state = s THEN h ELSE UpdateRRs([h EXCEPT !.state = s], v, FALSE)

withdraw_host_rrs(h, v) ==
  [UpdateRRs([h EXCEPT !.group["hinfo"] = Empty], v, TRUE) EXCEPT !.pending = 0]

\* register_hinfo
register_hinfo(h, v) == IF "hinfo" \in Extra THEN Commit(h, v, "hinfo") ELSE h

register_stuff(h, v) ==
  LET s == server_set_state(h, v, "REGISTERING")
      u == UpdateRRs(register_hinfo([s EXCEPT !.pending = @ + 1], v), v, FALSE)
      r == [u EXCEPT !.pending = @ - 1]
  IN IF r.pending = 0 THEN server_set_state(r, v, "RUNNING") ELSE r

-----------------------------------------------------------------------------
(* Joining the multicast group.                                            *)

Global(at, a) == at[a] \in {"global", "deprecated"}

\* interface_mdns_mcast_join: with a global address if there is one, else with the first
Join(addrs, at, ok) ==
  LET globals == {i \in DOMAIN addrs : Global(at, addrs[i])}
      best == IF globals = {} THEN 1 ELSE CHOOSE i \in globals : \A j \in globals : i <= j
  IN IF addrs = <<>> \/ ~ok THEN NoAddr ELSE addrs[best]

\* interface_mdns_mcast_rejoin
Rejoin(m, addrs, at, ok) ==
  LET keep == m \in Elements(addrs) /\ (Global(at, m) \/ \A a \in Elements(addrs) : ~Global(at, a))
  IN IF m = NoAddr \/ keep THEN m ELSE Join(addrs, at, ok)

\* avahi_interface_check_relevant, given the group joined so far
CheckRelevant(v, m, ok) ==
  IF v.complete /\ Relevant(v) /\ ~link_announcing
  THEN /\ mcast' = (IF m = NoAddr THEN Join(v.addrs, v.attr, ok) ELSE m)
       /\ link_announcing' = (mcast' # NoAddr)
  ELSE IF ~Relevant(v) /\ link_announcing
  THEN mcast' = NoAddr /\ link_announcing' = FALSE
  ELSE mcast' = Rejoin(m, v.addrs, v.attr, ok) /\ UNCHANGED link_announcing

-----------------------------------------------------------------------------
(* What the kernel tells (netlink_callback).                               *)

Complete == list = "done"

\* No avahi_hw_interface_new yet
NoLink == [known |-> FALSE, flags_ok |-> FALSE, addrs |-> <<>>]

\* avahi_interface_address_new: the newest address comes first.
WithAddress(l, a) == [l EXCEPT !.addrs = IF a \in Elements(@) THEN @ ELSE <<a>> \o @]

\* What may be waited for: probing on an interface that announces, otherwise the holdoff
\* time of any group that may have been committed before (avahi_s_entry_group_commit)
Waits(announcing) ==
  IF announcing THEN {Group} ELSE SUBSET IF server.state = "INVALID" THEN {} ELSE Extra \cup Elements(link.addrs)

Now == View(link, attr, Complete, {})
Views == {View(link, attr, Complete, w) : w \in Waits(link_announcing)}

\* RTM_NEWLINK: an interface appears or changes.
NewLink(f) ==
  LET l == [link EXCEPT !.known = TRUE, !.flags_ok = f]
  IN
  /\ link' = l
  /\ \E ok \in JoinOK : CheckRelevant(View(l, attr, Complete, {}), mcast, ok)
  /\ \E w \in Waits(link_announcing') : server' = UpdateRRs(server, View(l, attr, Complete, w), FALSE)
  /\ UNCHANGED <<attr, list>>

\* RTM_DELLINK: avahi_hw_interface_free and avahi_interface_free
DelLink ==
  /\ link.known
  /\ \E v \in Views :
       server' = [UpdateAddresses(UpdateRRs(server, v, TRUE), v, TRUE) EXCEPT !.group["workstation"] = Empty]
  /\ link' = NoLink
  /\ link_announcing' = FALSE /\ mcast' = NoAddr
  /\ UNCHANGED <<attr, list>>

\* RTM_NEWADDR: an address appears or changes.
NewAddr(a, t) ==
  LET l == WithAddress(link, a)
      at == [attr EXCEPT ![a] = t]
  IN
  /\ link.known
  /\ link' = l /\ attr' = at
  /\ \E ok \in JoinOK : CheckRelevant(View(l, at, Complete, {}), mcast, ok)
  /\ \E w \in Waits(link_announcing') : server' = UpdateAddresses(server, View(l, at, Complete, w), FALSE)
  /\ UNCHANGED list

\* AVAHI_LLIST_REMOVE
WithoutAddress(l, a) == [l EXCEPT !.addrs = RemoveAt(@, CHOOSE i \in DOMAIN @ : @[i] = a)]

\* RTM_DELADDR: avahi_interface_address_free
DelAddr(a) ==
  LET l == WithoutAddress(link, a)
  IN
  /\ a \in Elements(link.addrs)
  /\ link' = l
  /\ \E ok1, ok2 \in JoinOK :
       CheckRelevant(View(l, attr, Complete, {}), Rejoin(mcast, l.addrs, attr, ok1), ok2)
  /\ \E v \in Views, w \in Waits(link_announcing') :
       server' = UpdateAddresses(UpdateAddress(server, v, a, TRUE), View(l, attr, Complete, w), FALSE)
  /\ UNCHANGED <<attr, list>>

\* NLMSG_DONE: after the interfaces the addresses are listed, if the kernel can be asked.
InterfacesListed ==
  /\ list = "iface"
  /\ list' = "addr"
  /\ UNCHANGED <<server, link, attr, link_announcing, mcast>>

ListDone ==
  /\ list \in {"iface", "addr"}
  /\ list' = "done"
  /\ IF link.known
     THEN \E ok \in JoinOK : CheckRelevant(View(link, attr, TRUE, {}), mcast, ok)
     ELSE UNCHANGED <<link_announcing, mcast>>
  /\ \E w \in Waits(link_announcing') : server' = UpdateRRs(server, View(link, attr, TRUE, w), FALSE)
  /\ UNCHANGED <<link, attr>>

-----------------------------------------------------------------------------
(* The server.                                                             *)

\* avahi_server_new, after avahi_interface_monitor_sync, which may give up early
ServerStarts ==
  /\ server.state = "INVALID"
  /\ \E v \in Views : server' = register_stuff(server, v)
  /\ UNCHANGED <<link, attr, list, link_announcing, mcast>>

\* avahi_server_set_host_name; avahi_server_set_domain_name does the same with the domain
avahi_server_set_host_name(n) ==
  /\ server.state # "INVALID"
  /\ n # server.name \/ server.state = "COLLISION"
  /\ \E v \in Views : server' = register_stuff([withdraw_host_rrs(server, v) EXCEPT !.name = n], v)
  /\ UNCHANGED <<link, attr, list, link_announcing, mcast>>

\* Announce: probing succeeds, or the holdoff time passes and there is nothing to probe ...
GroupEstablished(g) ==
  /\ server.group[g].state = "REGISTERING"
  /\ \E v \in Views : server' = Established(server, v, g)
  /\ UNCHANGED <<link, attr, list, link_announcing, mcast>>

\* Mutant: only what is being registered is withdrawn.
Collision_partial(h, v) ==
  server_set_state([h EXCEPT !.pending = 0], [v EXCEPT !.known = FALSE], "COLLISION")

\* avahi_host_rr_entry_group_callback, on a collision
Collision(h, v) == server_set_state(withdraw_host_rrs(h, v), v, "COLLISION")

\* ... or another host turns out to own the name.
GroupCollides(g) ==
  LET h == [server EXCEPT !.group[g].state = "COLLISION"]
  IN
  /\ server.group[g].state \in {"REGISTERING", "ESTABLISHED"}
  /\ \E v \in Views : server' = IF server.state \in {"REGISTERING", "RUNNING"} THEN Collision(h, v) ELSE h
  /\ UNCHANGED <<link, attr, list, link_announcing, mcast>>

\* avahi_server_new and avahi_interface_monitor_init_osdep
HostInit ==
  /\ server \in [state : {"INVALID"}, pending : {0}, name : HostName, group : {[g \in Group |-> Empty]}]
  /\ link = NoLink
  /\ attr = [a \in Addr |-> "local"] /\ list = "iface"
  /\ link_announcing = FALSE /\ mcast = NoAddr

HostNext ==
  \/ \E f \in BOOLEAN : NewLink(f)
  \/ DelLink
  \/ \E a \in Addr : DelAddr(a) \/ \E t \in Attrs : NewAddr(a, t)
  \/ InterfacesListed \/ ListDone \/ ServerStarts
  \/ \E n \in HostName : avahi_server_set_host_name(n)
  \/ \E g \in Group : GroupEstablished(g) \/ GroupCollides(g)

HostSpec == HostInit /\ [][HostNext]_hostVars

-----------------------------------------------------------------------------
Published == {g \in Group : server.group[g] # Empty}

HostRecordsTypeOK ==
  /\ server.state \in {"INVALID", "REGISTERING", "RUNNING", "COLLISION"}
  /\ server.pending \in 0..Cardinality(Group) /\ server.name \in HostName
  /\ \A g \in Group : server.group[g].state \in {"UNCOMMITED", "REGISTERING", "ESTABLISHED", "COLLISION"}
  /\ Elements(link.addrs) \subseteq Addr /\ IsInjective(link.addrs)
  /\ attr \in [Addr -> Attrs] /\ list \in {"iface", "addr", "done"}
  /\ link_announcing \in BOOLEAN /\ mcast \in Addr \cup {NoAddr}

\* While the server has a name, exactly the relevant addresses of a relevant interface are
\* published, in whatever order links and addresses appear, change and go and the server
\* changes its state in the middle of an update; before and after that none is.
PublishedIffRelevant ==
  Published \cap Addr =
    IF Complete /\ server.state \in {"REGISTERING", "RUNNING"} /\ Relevant(Now)
    THEN {a \in Elements(link.addrs) : AddressRelevant(Now, a)} ELSE {}

\* A server that is registering waits for something, and for no more than what is really
\* being registered, when addresses come and go meanwhile.
NeverStuckRegistering ==
  server.state = "REGISTERING" =>
    server.pending \in 1..Cardinality({g \in Group : server.group[g].state = "REGISTERING"})

\* "All host RRs have been withdrawn": after a collision no record of the host is left,
\* although the withdrawal may make the server RUNNING for a moment.
CollisionWithdrawsAll == server.state = "COLLISION" => Published = {}

\* The multicast group is joined with an address the interface still has, a global one if
\* it has one, and only while the interface is relevant.
JoinedWithBestAddress ==
  mcast # NoAddr =>
    /\ link_announcing /\ Relevant(Now)
    /\ mcast \in Elements(link.addrs)
    /\ (\E a \in Elements(link.addrs) : Global(attr, a)) => Global(attr, mcast)

\* Which records of the host are published follows its addresses, links and collisions, and
\* so does the state of the server.  Under which name is the matter of RecordsBearName.
HostRecordsInv == HostRecordsTypeOK /\ PublishedIffRelevant /\ NeverStuckRegistering /\ CollisionWithdrawsAll /\ JoinedWithBestAddress

\* Changing the host name "will drop all automatically generated RRs and readd them with the
\* new name" (core.h): what is published is published under the name the server has.
RecordsBearName == \A g \in Published : server.group[g].name = server.name
=============================================================================
