------------------------------ MODULE Reflector ------------------------------
(***************************************************************************)
(* How the server takes packets from its sockets and reflects legacy       *)
(* unicast queries between links (server.c): a query from a port other     *)
(* than 5353 is repeated on the other links with an id of the server's own *)
(* and a slot remembers whom the answer is for.                            *)
(*                                                                         *)
(* What the server multicasts comes back to its own multicast socket.      *)
(* Normal queries and answers are the business of modules Responder,       *)
(* ProbeScheduler and Cache.  The reflector is configured.                 *)
(***************************************************************************)
EXTENDS Naturals, FiniteSets, FiniteSetsExt

CONSTANTS Client,      \* hosts that ask from a port of their own
          Net,         \* the links, all of one protocol
          LinkOf,      \* client -> its link
          QueryId,     \* ids clients use
          SlotsMax,    \* AVAHI_LEGACY_UNICAST_REFLECT_SLOTS_MAX
          IdModulus,   \* number of ids; 2^16 in the code
          MaxPackets   \* bound on the packets that are on their way at a time

ASSUME ReflectorAssumption ==
  /\ LinkOf \in [Client -> Net] /\ IsFiniteSet(Net) /\ Client \cap {"none", "self"} = {}
  /\ {SlotsMax, IdModulus, MaxPackets} \subseteq Nat \ {0} /\ SlotsMax < IdModulus

VARIABLES slots,       \* legacy_unicast_reflect_slots: index -> slot or NoSlot
          reflect_id,  \* legacy_unicast_reflect_id
          on_air,      \* packets on their way
          up,          \* links that are announcing
          answered     \* answers the server passed on to clients

reflectVars == <<slots, reflect_id, on_air, up, answered>>

NoSlot == [client |-> "none"]
Indexes == 0..SlotsMax - 1

\* Packets: a query on a link, or an answer to the legacy unicast socket.  "asker" and
\* "asked_id" are not in the packet: they say what it was sent for.
Query(src, id, net, asker, asked_id) ==
  [kind |-> "query", src |-> src, id |-> id, net |-> net, asker |-> asker, asked_id |-> asked_id]
Answer(q) == [q EXCEPT !.kind = "answer"]

\* A client sends a query on its link.
Ask(c, id) ==
  /\ Cardinality(on_air) < MaxPackets
  /\ on_air' = on_air \cup {Query(c, id, LinkOf[c], c, id)}
  /\ UNCHANGED <<slots, reflect_id, up, answered>>

\* The id n after the next; 16 bits
NextId(n) == (reflect_id + n) % IdModulus

SlotIndex(n) == NextId(n) % SlotsMax

\* allocate_slot: the ids tried are the next SlotsMax ones.
Tried == {n \in Indexes : slots[SlotIndex(n)] = NoSlot}

\* dispatch_packet: packets from links that are not announcing, and from the server's own
\* legacy unicast socket (originates_from_local_legacy_unicast_socket).  That the address
\* the server sent from is still one of its own when the packet comes back is assumed.
Ignored(p) == p.net \notin up \/ p.src = "self"

\* The query p repeated on the other links, in the slot with this id
Repeated(p, id) == {Query("self", id, n, p.asker, p.asked_id) : n \in up \ {p.net}}

\* The lifetime of packets: when an id is given again, after a round of all ids, nothing
\* that was sent with it is on its way any more.
NotOnAir(id) == \A q \in on_air : q.src = "self" => q.id # id

\* dispatch_packet and reflect_legacy_unicast_query_packet
ReceiveQuery(p) ==
  LET n == Min(Tried)
      id == NextId(n)
  IN
  /\ p \in on_air /\ p.kind = "query" /\ ~Ignored(p) /\ Tried # {} /\ NotOnAir(id)
  /\ slots' = [slots EXCEPT ![SlotIndex(n)] =
                 [id |-> id, original_id |-> p.id, client |-> p.src, interface |-> p.net]]
  /\ reflect_id' = NextId(n + 1)
  /\ on_air' = (on_air \ {p}) \cup Repeated(p, id)
  /\ UNCHANGED <<up, answered>>

\* No slot is available; all ids have been tried.
DropQuery(p) ==
  /\ p \in on_air /\ p.kind = "query" /\ ~Ignored(p) /\ Tried = {}
  /\ reflect_id' = NextId(SlotsMax)
  /\ on_air' = on_air \ {p}
  /\ UNCHANGED <<slots, up, answered>>

IgnoreQuery(p) ==
  /\ p \in on_air /\ p.kind = "query" /\ Ignored(p)
  /\ on_air' = on_air \ {p}
  /\ UNCHANGED <<slots, reflect_id, up, answered>>

\* A host on the link answers what the server repeated; the packet may also come back.
HostAnswers(p) ==
  /\ p \in on_air /\ p.kind = "query" /\ p.src = "self" /\ Cardinality(on_air) < MaxPackets
  /\ on_air' = on_air \cup {Answer(p)}
  /\ UNCHANGED <<slots, reflect_id, up, answered>>

\* Mutant: the id is not compared.
find_slot_index(id) == slots[id % SlotsMax]

\* find_slot
find_slot(id) == IF slots[id % SlotsMax] # NoSlot /\ slots[id % SlotsMax].id = id THEN slots[id % SlotsMax] ELSE NoSlot

\* legacy_unicast_socket_event and dispatch_legacy_unicast_packet: the answer goes to the
\* client of the slot with the original id.
ReceiveAnswer(p) ==
  LET slot == find_slot(p.id)
  IN
  /\ p \in on_air /\ p.kind = "answer"
  /\ on_air' = on_air \ {p}
  /\ answered' = IF slot = NoSlot \/ slot.interface \notin up THEN answered
                 ELSE answered \cup {[client |-> slot.client, id |-> slot.original_id,
                                      asker |-> p.asker, asked_id |-> p.asked_id]}
  /\ UNCHANGED <<slots, reflect_id, up>>

\* A packet is lost.
Lose(p) ==
  /\ p \in on_air
  /\ on_air' = on_air \ {p}
  /\ UNCHANGED <<slots, reflect_id, up, answered>>

\* deallocate_slot
deallocate_slot(i) == [slots EXCEPT ![slots[i].id % SlotsMax] = NoSlot]

\* legacy_unicast_reflect_slot_timeout, after two seconds
SlotTimeout(i) ==
  /\ slots[i] # NoSlot
  /\ slots' = deallocate_slot(i)
  /\ UNCHANGED <<reflect_id, on_air, up, answered>>

\* The link starts or stops announcing (avahi_interface_check_relevant).
Toggle(n) ==
  /\ up' = IF n \in up THEN up \ {n} ELSE up \cup {n}
  /\ UNCHANGED <<slots, reflect_id, on_air, answered>>

\* avahi_server_new
ReflectInit ==
  /\ slots = [i \in Indexes |-> NoSlot] /\ reflect_id = 0
  /\ on_air = {} /\ up = Net /\ answered = {}

ReflectNext ==
  \/ \E c \in Client, id \in QueryId : Ask(c, id)
  \/ \E p \in on_air : ReceiveQuery(p) \/ DropQuery(p) \/ IgnoreQuery(p) \/ HostAnswers(p) \/ ReceiveAnswer(p) \/ Lose(p)
  \/ \E i \in Indexes : SlotTimeout(i)
  \/ \E n \in Net : Toggle(n)

ReflectSpec == ReflectInit /\ [][ReflectNext]_reflectVars

-----------------------------------------------------------------------------
Slots == {slots[i] : i \in Indexes} \ {NoSlot}

ReflectTypeOK ==
  /\ reflect_id \in 0..IdModulus - 1 /\ up \subseteq Net
  /\ \A s \in Slots : s.id \in 0..IdModulus - 1 /\ s.original_id \in QueryId /\ s.interface \in Net

\* No query makes the server ask itself: its own packets, which come back on every link it
\* repeats a query on, never occupy a slot.
NoReflectionLoop == \A s \in Slots : s.client \in Client

\* A slot is found, and given up, at the place its id says, also after the ids started over.
SlotsInPlace == \A i \in Indexes : slots[i] # NoSlot => slots[i].id % SlotsMax = i

\* An answer reaches the client whose query it answers, with that client's id, although
\* clients use the same ids, slots time out before a late answer, and slots and ids are
\* used again and again.
AnswersRoutedBack == \A a \in answered : a.client = a.asker /\ a.id = a.asked_id

\* Reflected answers reach the client that asked, and nobody else.
ReflectInv == ReflectTypeOK /\ NoReflectionLoop /\ SlotsInPlace /\ AnswersRoutedBack
=============================================================================
