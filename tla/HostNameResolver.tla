-------------------------- MODULE HostNameResolver --------------------------
(***************************************************************************)
(* One host name resolver (avahi-core/resolve-host-name.c) over its record *)
(* browsers for A and for AAAA records and the caches.                     *)
(*                                                                         *)
(* The interface of the first address fixes the interface of the resolver  *)
(* for good.  The record browsers keep what module BrowserView promises.   *)
(* Callbacks run inside the event that causes them, so the resolver is a   *)
(* record transformed by pure operators.                                   *)
(***************************************************************************)
EXTENDS Naturals, Sequences, SequencesExt

CONSTANTS HostAddress,  \* addresses
          HostLink      \* interfaces; "any" is not one (AVAHI_IF_UNSPEC is negative)

ASSUME HostAssumption == "any" \notin HostLink

AddressType == {"A", "AAAA"}

VARIABLE host  \* the resolver, the caches and what its client was told

hostVars == <<host>>

AddressRecord == [type : AddressType, address : HostAddress, link : HostLink]

NoAddressRecord == [type |-> "none", address |-> "none", link |-> "none"]

\* asked: the interface asked for; interface: the one the resolver is fixed to;
\* browsers: none, defer (scan to come) or run; told: the last event; frees: the event
\* in whose callback the client frees the resolver
HostType ==
  [cached : SUBSET AddressRecord, asked : HostLink \cup {"any"},
   interface : HostLink \cup {"any"}, address_record : AddressRecord \cup {NoAddressRecord},
   time_event : BOOLEAN, browsers : [AddressType -> {"none", "defer", "run"}],
   told : {"none", "FOUND", "FAILURE"}, frees : {"never", "FOUND", "FAILURE"}, dead : BOOLEAN]

NoBrowsers == [t \in AddressType |-> "none"]

\* avahi_s_host_name_resolver_free
avahi_s_host_name_resolver_free(h) ==
  [h EXCEPT !.dead = TRUE, !.browsers = NoBrowsers, !.time_event = FALSE,
            !.address_record = NoAddressRecord]

\* finish, and the client's callback
host_finish(h, event) ==
  LET f == [h EXCEPT !.time_event = FALSE, !.told = event]
  IN IF h.frees = event THEN avahi_s_host_name_resolver_free(f) ELSE f

\* record_browser_callback, AVAHI_BROWSER_NEW
host_new(h, rec) ==
  LET fixed == [h EXCEPT !.interface = rec.link]
  IN IF h.dead \/ h.interface \notin {"any", rec.link} THEN h
     ELSE IF h.address_record # NoAddressRecord THEN fixed
     ELSE host_finish([fixed EXCEPT !.address_record = rec], "FOUND")

\* The record is compared without its interface.
HoldsAddress(h, rec) ==
  h.address_record.type = rec.type /\ h.address_record.address = rec.address

\* avahi_s_record_browser_restart, of both browsers
HostBrowsersRestarted(h) ==
  [t \in AddressType |-> IF h.browsers[t] = "none" THEN "none" ELSE "defer"]

\* Mutant: nothing waits for the replacement.
host_remove_untimed(h, rec) ==
  IF h.dead \/ ~HoldsAddress(h, rec) THEN h
  ELSE [h EXCEPT !.address_record = NoAddressRecord, !.browsers = HostBrowsersRestarted(h)]

\* Mutant: the browsers are not started again.
host_remove_quiet(h, rec) ==
  IF h.dead \/ ~HoldsAddress(h, rec) THEN h
  ELSE [h EXCEPT !.address_record = NoAddressRecord, !.time_event = TRUE]

\* record_browser_callback, AVAHI_BROWSER_REMOVE, with start_timeout
host_remove(h, rec) ==
  IF h.dead \/ ~HoldsAddress(h, rec) THEN h
  ELSE [h EXCEPT !.address_record = NoAddressRecord, !.time_event = TRUE,
                 !.browsers = HostBrowsersRestarted(h)]

\* Does the browser for the type of the record report it?
HostReports(h, rec) == h.browsers[rec.type] = "run" /\ h.asked \in {"any", rec.link}

-----------------------------------------------------------------------------
\* A browser scans the caches, in any order (defer_callback of browse.c).
HostScan(t) ==
  /\ host.browsers[t] = "defer"
  /\ LET running == [host EXCEPT !.browsers[t] = "run"]
     IN \E s \in SetToSeqs({rec \in host.cached : rec.type = t /\ HostReports(running, rec)}) :
          host' = FoldLeft(host_new, running, s)

\* A browser cannot make its lookup (defer_callback), and reports AVAHI_BROWSER_FAILURE.
HostBrowserFails(t) ==
  /\ host.browsers[t] = "defer"
  /\ host' = host_finish([host EXCEPT !.browsers = NoBrowsers], "FAILURE")

\* A record enters a cache.
HostCacheNew(rec) ==
  LET h == [host EXCEPT !.cached = @ \cup {rec}]
  IN
  /\ rec \notin host.cached
  /\ host' = IF HostReports(host, rec) THEN host_new(h, rec) ELSE h

\* A record leaves a cache.
HostCacheRemove(rec) ==
  LET h == [host EXCEPT !.cached = @ \ {rec}]
  IN
  /\ rec \in host.cached
  /\ host' = IF HostReports(host, rec) THEN host_remove(h, rec) ELSE h

\* time_event_callback
HostTimeout ==
  /\ host.time_event
  /\ host' = host_finish(host, "FAILURE")

\* The client frees the resolver outside of a callback.
HostFree ==
  /\ ~host.dead
  /\ host' = avahi_s_host_name_resolver_free(host)

NewHostResolver(types, link, frees) ==
  [cached |-> {}, asked |-> link, interface |-> link, address_record |-> NoAddressRecord,
   time_event |-> TRUE, browsers |-> [t \in AddressType |-> IF t \in types THEN "defer" ELSE "none"],
   told |-> "none", frees |-> frees, dead |-> FALSE]

\* avahi_s_host_name_resolver_prepare and _start, for one or both types of address
HostInit ==
  \E types \in (SUBSET AddressType) \ {{}}, link \in HostLink \cup {"any"},
     frees \in {"never", "FOUND", "FAILURE"} : host = NewHostResolver(types, link, frees)

HostNext ==
  \/ \E t \in AddressType : HostScan(t) \/ HostBrowserFails(t)
  \/ \E rec \in AddressRecord : HostCacheNew(rec) \/ HostCacheRemove(rec)
  \/ HostTimeout
  \/ HostFree

HostSpec == HostInit /\ [][HostNext]_hostVars

\* The event loop runs the deferred scans.
HostFairness == \A t \in AddressType : WF_hostVars(HostScan(t))

-----------------------------------------------------------------------------
HostTypeOK == host \in HostType

\* Unless a failure of the browsers came after it, the address that the client was given
\* last is in the cache of the resolver's interface: the resolver notices when it goes,
\* although it hears of every interface.
HeldAddressIsCached ==
  host.address_record # NoAddressRecord /\ host.told = "FOUND" =>
    host.address_record \in host.cached /\ host.address_record.link = host.interface

\* The client is never left waiting: it has an address that is still good, or was told
\* of a failure, or the timeout is running.
HostNotStranded ==
  ~host.dead => \/ host.address_record # NoAddressRecord
                \/ host.time_event
                \/ host.told = "FAILURE"

\* A host whose address stays in the cache of the resolver's interface is found again
\* after every loss of another address.
HostStaysFound ==
  \A rec \in AddressRecord :
    <>[](/\ rec \in host.cached /\ host.browsers[rec.type] # "none"
         /\ host.interface \in {"any", rec.link} /\ host.asked \in {"any", rec.link})
      => []<>(host.address_record # NoAddressRecord)

\* The client has an address that is still good, or is told so, or a timeout is running.
HostResolverInv == HostTypeOK /\ HeldAddressIsCached /\ HostNotStranded
=============================================================================
