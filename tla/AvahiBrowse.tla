----------------------------- MODULE AvahiBrowse -----------------------------
(***************************************************************************)
(* The discovery backend of the desktop build (avahibrowse.cpp): a client  *)
(* of the avahi daemon over D-Bus.                                         *)
(*                                                                         *)
(* The daemon (external) reports services per interface with ItemNew and   *)
(* ItemRemove, and for every resolver it was asked for it emits Found when *)
(* the service is resolved and every time it changes.  A resolver that was *)
(* not bound to an interface settles on the first one that answers.  The   *)
(* bus delivers the signals in order, later.                               *)
(***************************************************************************)
EXTENDS ServiceDiscover

CONSTANTS None,
          BusLink, \* the interfaces the daemon browses on
          MaxBus   \* bound: signals under way on the bus

ASSUME BrowseAssumption == None \notin Link /\ BusLink \subseteq Link /\ MaxBus \in Nat

VARIABLES m_nameToResolver,  \* names with a resolver, each with the interface it
                             \* settled on in the daemon
          found,             \* daemon: names whose resolver holds all records
          bus                \* signals sent and not yet delivered

browseVars == <<formVars, discoverVars, m_nameToResolver, found, bus>>

Signal == [sig : {"ItemNew", "ItemRemove", "Found"}, name : Name, rtsp : BOOLEAN]

Send(sig, n, rtsp) == bus' = Append(bus, [sig |-> sig, name |-> n, rtsp |-> rtsp])

Room == Len(bus) < MaxBus

-----------------------------------------------------------------------------
(* The daemon.                                                             *)

Appear(n, l) ==
  /\ <<n, l>> \notin up /\ Room
  /\ up' = up \cup {<<n, l>>}
  /\ Send("ItemNew", n, FALSE)
  /\ UNCHANGED <<formVars, m_resolvedVideoSenders, late, m_nameToResolver, found>>

Disappear(n, l) ==
  /\ <<n, l>> \in up /\ Room
  /\ up' = up \ {<<n, l>>}
  /\ Send("ItemRemove", n, FALSE)
  /\ found' = IF n \in found /\ m_nameToResolver[n] = l THEN found \ {n} ELSE found
  /\ UNCHANGED <<formVars, m_resolvedVideoSenders, late, m_nameToResolver>>

\* Founds that still have to become senders.
Resolving == Cardinality({i \in DOMAIN bus : bus[i].sig = "Found"})

ResolverFinds(n) ==
  /\ n \in DOMAIN m_nameToResolver \ found /\ Room
  /\ Len(m_resolvedVideoSenders) + Resolving < MaxSenders
  /\ Cardinality(alive) + Resolving < Cardinality(Video)
  /\ \E l \in BusLink, rtsp \in BOOLEAN :
       /\ m_nameToResolver[n] \in {None, l} /\ Answered(n, l)
       /\ m_nameToResolver' = [m_nameToResolver EXCEPT ![n] = l]
       /\ Send("Found", n, rtsp)
  /\ found' = found \cup {n}
  /\ UNCHANGED <<formVars, m_resolvedVideoSenders, up>>

\* The SRV or TXT record of the service is replaced; the resolver looks again.
RecordChanges(n) ==
  /\ n \in found
  /\ found' = found \ {n}
  /\ UNCHANGED <<formVars, discoverVars, m_nameToResolver, bus>>

-----------------------------------------------------------------------------
(* The handlers.                                                           *)

\* A resolver for any interface is made, once per name and for good.
signalVideoSenderNew(n) ==
  /\ m_nameToResolver' = IF n \in DOMAIN m_nameToResolver THEN m_nameToResolver
                         ELSE [m \in DOMAIN m_nameToResolver \cup {n} |->
                                 IF m = n THEN None ELSE m_nameToResolver[m]]
  /\ UNCHANGED <<formVars, m_resolvedVideoSenders>>

\* Mutant: the guard of signalVideoSenderNew, copied.
signalVideoSenderRemovedGuarded(n) ==
  /\ IF n \in DOMAIN m_nameToResolver THEN UNCHANGED <<formVars, m_resolvedVideoSenders>>
     ELSE lostRPIVideoSender(n)
  /\ UNCHANGED m_nameToResolver

signalVideoSenderRemoved(n) == lostRPIVideoSender(n) /\ UNCHANGED m_nameToResolver

resolvedVideoSenderFound(n, rtsp) ==
  foundRPIVideoSender(n, rtsp) /\ UNCHANGED m_nameToResolver

\* The dispatcher hands the next signal to its handler.
Deliver ==
  /\ bus # << >>
  /\ bus' = Tail(bus)
  /\ LET s == Head(bus)
     IN \/ s.sig = "ItemNew" /\ signalVideoSenderNew(s.name)
        \/ s.sig = "ItemRemove" /\ signalVideoSenderRemoved(s.name)
        \/ s.sig = "Found" /\ resolvedVideoSenderFound(s.name, s.rtsp)
  /\ UNCHANGED <<up, late, found>>

-----------------------------------------------------------------------------
BrowseInit ==
  /\ DiscoverInit
  /\ m_nameToResolver = << >>
  /\ found = {}
  /\ bus = << >>

BrowseNext ==
  /\ backend = "AvahiBrowse"
  /\ \/ \E n \in Name, l \in BusLink : Appear(n, l) \/ Disappear(n, l)
     \/ \E n \in Name : ResolverFinds(n) \/ RecordChanges(n)
     \/ Deliver
     \/ PageStep /\ UNCHANGED <<m_nameToResolver, found, bus>>
  /\ UNCHANGED backend

BrowseSpec == BrowseInit /\ backend = "AvahiBrowse" /\ [][BrowseNext]_<<backend, browseVars>>

\* The bus delivers and the daemon answers.
BrowseFairness ==
  /\ WF_browseVars(Deliver)
  /\ \A n \in Name : WF_browseVars(ResolverFinds(n))

-----------------------------------------------------------------------------
BrowseTypeOK ==
  /\ DiscoverTypeOK
  /\ DOMAIN m_nameToResolver \subseteq Name
  /\ \A n \in DOMAIN m_nameToResolver : m_nameToResolver[n] \in Link \cup {None}
  /\ found \subseteq DOMAIN m_nameToResolver
  /\ bus \in Seq(Signal)

\* A camera that stays on the network is found in the end, also when it comes back
\* after it was lost and its name is already known.
StayingCamerasAreFound ==
  \A n \in Name :
    <>[](backend = "AvahiBrowse" /\ \A l \in BusLink : <<n, l>> \in up)
      => []<>(\E i \in DOMAIN m_resolvedVideoSenders : m_resolvedVideoSenders[i].name = n)

\* Client of the daemon: page and sender list agree, whatever the bus delays and repeats.
BrowseInv == BrowseTypeOK /\ VideosMatchSenders
=============================================================================
