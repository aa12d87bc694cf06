--------------------------- MODULE AddressResolver ---------------------------
(***************************************************************************)
(* One address resolver (avahi-core/resolve-address.c): it looks for the   *)
(* name of an address with unicast DNS servers if there are any, and once  *)
(* more with multicast DNS when that fails.                                *)
(*                                                                         *)
(* Records found with unicast DNS have no interface and are never removed. *)
(* The record browser keeps what module BrowserView promises.              *)
(***************************************************************************)
EXTENDS Naturals, Sequences, SequencesExt

CONSTANTS HostName,  \* names of hosts
          PtrLink    \* interfaces

VARIABLE addr  \* the resolver, the caches and what its client was told

addrVars == <<addr>>

\* Interfaces are positive; AVAHI_IF_UNSPEC, here "any", is not.
PtrRecord == [name : HostName, link : PtrLink \cup {"any"}]

NoPtrRecord == [name |-> "none", link |-> "none"]

\* asked, interface: as in module HostNameResolver; over: how the browser looks;
\* browser: none, defer, run or failed; lastly: why the client was told of a failure
AddrType ==
  [cached : SUBSET PtrRecord, asked : PtrLink \cup {"any"}, interface : PtrLink \cup {"any"},
   ptr_record : PtrRecord \cup {NoPtrRecord}, time_event : BOOLEAN,
   over : {"wide area", "multicast"}, browser : {"none", "defer", "run", "failed"},
   retry_with_multicast : BOOLEAN, flags : {"none", "wide area", "multicast"},
   told : {"none", "FOUND", "FAILURE", "TIMEOUT"}, dead : BOOLEAN]

\* finish, for a callback that frees the resolver or not (avahi_s_address_resolver_free)
addr_finish(a, event, frees) ==
  IF frees THEN [a EXCEPT !.time_event = FALSE, !.told = event, !.dead = TRUE,
                          !.browser = "none", !.ptr_record = NoPtrRecord]
  ELSE [a EXCEPT !.time_event = FALSE, !.told = event]

\* record_browser_callback, AVAHI_BROWSER_NEW
addr_new(a, rec, frees) ==
  LET fixed == [a EXCEPT !.interface = rec.link]
  IN IF a.dead \/ a.interface \notin {"any", rec.link} THEN a
     ELSE IF a.ptr_record # NoPtrRecord THEN fixed
     ELSE addr_finish([fixed EXCEPT !.ptr_record = rec], "FOUND", frees)

\* record_browser_callback, AVAHI_BROWSER_REMOVE, with start_timeout
addr_remove(a, rec) ==
  IF a.dead \/ a.ptr_record.name # rec.name THEN a
  ELSE [a EXCEPT !.ptr_record = NoPtrRecord, !.time_event = TRUE, !.browser = "defer"]

\* Mutant: the resolver does not try again.
addr_failure_final(a, made, frees) == addr_finish([a EXCEPT !.browser = "failed"], "FAILURE", frees)

\* record_browser_callback, AVAHI_BROWSER_FAILURE; made: can another browser be made?
addr_failure(a, made, frees) ==
  LET again == [a EXCEPT !.retry_with_multicast = FALSE, !.over = "multicast",
                         !.browser = IF made THEN "defer" ELSE "none"]
  IN IF a.retry_with_multicast
     THEN IF made THEN [again EXCEPT !.time_event = TRUE]
          ELSE addr_finish(again, "FAILURE", frees)
     ELSE addr_finish([a EXCEPT !.browser = "failed"], "FAILURE", frees)

-----------------------------------------------------------------------------
Multicast(a) == a.browser = "run" /\ a.over = "multicast"

\* The browser scans the caches, in any order, or starts a lookup over unicast DNS.
AddrScan(frees) ==
  LET running == [addr EXCEPT !.browser = "run"]
      found == {rec \in addr.cached : Multicast(running) /\ addr.asked \in {"any", rec.link}}
  IN
  /\ addr.browser = "defer"
  /\ \E s \in SetToSeqs(found) :
       addr' = FoldLeft(LAMBDA a, rec : addr_new(a, rec, frees), running, s)

\* The browser fails: its lookup cannot be made, or unicast DNS gives no answer.
AddrBrowserFails(made, frees) ==
  /\ addr.browser = "defer" \/ (addr.browser = "run" /\ addr.over = "wide area")
  /\ addr' = addr_failure(addr, made, frees)

\* A name comes from a unicast DNS server.
AddrAnswer(name, frees) ==
  /\ addr.browser = "run" /\ addr.over = "wide area"
  /\ addr' = addr_new(addr, [name |-> name, link |-> "any"], frees)

\* A record enters a cache.
AddrCacheNew(rec, frees) ==
  LET a == [addr EXCEPT !.cached = @ \cup {rec}]
  IN
  /\ rec \notin addr.cached /\ rec.link # "any"
  /\ addr' = IF Multicast(addr) /\ addr.asked \in {"any", rec.link} THEN addr_new(a, rec, frees)
             ELSE a

\* A record leaves a cache.
AddrCacheRemove(rec) ==
  LET a == [addr EXCEPT !.cached = @ \ {rec}]
  IN
  /\ rec \in addr.cached
  /\ addr' = IF Multicast(addr) /\ addr.asked \in {"any", rec.link} THEN addr_remove(a, rec) ELSE a

\* time_event_callback
AddrTimeout(frees) ==
  /\ addr.time_event
  /\ addr' = addr_finish(addr, "TIMEOUT", frees)

NewAddressResolver(flags, servers, link) ==
  [cached |-> {}, asked |-> link, interface |-> link, ptr_record |-> NoPtrRecord,
   time_event |-> TRUE, browser |-> "defer", flags |-> flags,
   over |-> IF flags = "none" THEN IF servers THEN "wide area" ELSE "multicast" ELSE flags,
   retry_with_multicast |-> flags = "none" /\ servers, told |-> "none", dead |-> FALSE]

\* avahi_s_address_resolver_prepare and _start; servers: are there unicast DNS servers?
AddrInit ==
  \E flags \in {"none", "wide area", "multicast"}, servers \in BOOLEAN,
     link \in PtrLink \cup {"any"} : addr = NewAddressResolver(flags, servers, link)

AddrNext ==
  \E frees \in BOOLEAN :
    \/ AddrScan(frees)
    \/ \E made \in BOOLEAN : AddrBrowserFails(made, frees)
    \/ \E name \in HostName : AddrAnswer(name, frees)
    \/ \E rec \in PtrRecord : AddrCacheNew(rec, frees) \/ AddrCacheRemove(rec)
    \/ AddrTimeout(frees)

AddrSpec == AddrInit /\ [][AddrNext]_addrVars

-----------------------------------------------------------------------------
AddrTypeOK == addr \in AddrType

\* A lookup that fails is reported only after multicast DNS was tried, unless the client
\* asked for unicast DNS alone, and it is tried no more than once.
FailsAfterMulticast ==
  /\ addr.told = "FAILURE" => addr.over = "multicast" \/ addr.flags = "wide area"
  /\ addr.retry_with_multicast => addr.over = "wide area"

\* The client has a name that is still good, or was told of a failure, or the timeout is
\* running, also while the second attempt is under way.
AddrNotStranded ==
  ~addr.dead => \/ addr.ptr_record \in addr.cached \cup [name : HostName, link : {"any"}]
                \/ addr.time_event
                \/ addr.told \in {"FAILURE", "TIMEOUT"}

\* The client has a name that is still good, or is told of a failure after both ways of
\* asking were tried, or the timeout is running.
AddrResolverInv == AddrTypeOK /\ FailsAfterMulticast /\ AddrNotStranded
=============================================================================
