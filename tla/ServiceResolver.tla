--------------------------- MODULE ServiceResolver ---------------------------
(***************************************************************************)
(* One DNS-SD service resolver (avahi-core/resolve-service.c) on top of    *)
(* the record browsers it owns (avahi-core/browse.c) and the records the   *)
(* mDNS caches hold.                                                       *)
(*                                                                         *)
(* The resolver browses for the SRV and TXT records of the service; once   *)
(* it knows an SRV record it browses for the A and AAAA records of the     *)
(* host named there.  Its client is called back with FOUND when it holds   *)
(* one record of each kind, and with FAILURE after five seconds.           *)
(*                                                                         *)
(* A record browser that was (re)started first waits for its defer time    *)
(* event; then it scans the caches, reporting NEW for every match, and     *)
(* from then on it reports every change.  The callbacks run inside the     *)
(* event that causes them, so the resolver is a record transformed by pure *)
(* operators, and one event may call the client several times.             *)
(***************************************************************************)
EXTENDS Naturals, Sequences, FiniteSets, SequencesExt

CONSTANTS Host,            \* values of the SRV record (host name and port)
          Text,            \* values of the TXT record
          Link,            \* network interfaces
          None,
          ReqInterface,    \* the interface asked for, or None for AVAHI_IF_UNSPEC
          MaxRecords       \* bound: records in the caches at once

ASSUME ResolverAssumption ==
  /\ None \notin Host \cup Text \cup Link
  /\ ReqInterface \in Link \cup {None}
  /\ MaxRecords \in Nat

VARIABLES cached,   \* the records in the caches of all interfaces
          r,        \* the resolver
          told      \* the client: the latest event and its data, and how many

resolverVars == <<cached, r, told>>

Browser == {"srv", "txt", "a", "aaaa"}

Record ==
  [type : {"srv", "a", "aaaa"}, value : Host, link : Link]
    \cup [type : {"txt"}, value : Text, link : Link]

\* NULL, waiting for its defer time event, or looking up.
BrowserState == {"null", "deferred", "running"}

Address == [host : Host, type : {"a", "aaaa"}]

\* A resolver and what its client was told so far, as one value.  A client frees the
\* resolver when it is called back (freeInCallback), as EmbeddedAvahiBrowse does, or
\* keeps it.
State == [res : [interface : Link \cup {None},
                 srv : Host \cup {None}, txt : Text \cup {None},
                 addr : Address \cup {None},
                 browser : [Browser -> BrowserState],
                 time_event : BOOLEAN, freed : BOOLEAN],
          told : [freeInCallback : BOOLEAN, event : {"none", "FOUND", "FAILURE"}, calls : 0..2,
                  host : Host \cup {None}, addr : Address \cup {None},
                  txt : Text \cup {None}]]

-----------------------------------------------------------------------------
(* Helpers of the callbacks.                                               *)

AllNull == [b \in Browser |-> "null"]

\* Mutant: the timeout stays armed when the client is called.
finishKeepsTimeout(s, event) ==
  [res |-> [s.res EXCEPT !.freed = s.told.freeInCallback,
                         !.browser = IF s.told.freeInCallback THEN AllNull ELSE @],
   told |-> [freeInCallback |-> s.told.freeInCallback, event |-> event, calls |-> IF s.told.calls = 2 THEN 2 ELSE s.told.calls + 1,
             host |-> s.res.srv, addr |-> s.res.addr, txt |-> s.res.txt]]

\* finish: drop the timeout, call the client.  A client that frees the resolver
\* does so in the callback (avahi_s_service_resolver_free).
finish(s, event) ==
  LET res == [s.res EXCEPT !.time_event = FALSE]
  IN [res |-> IF s.told.freeInCallback
              THEN [res EXCEPT !.freed = TRUE, !.browser = AllNull]
              ELSE res,
      told |-> [freeInCallback |-> s.told.freeInCallback,
                event |-> event,
                calls |-> IF s.told.calls = 2 THEN 2 ELSE s.told.calls + 1,
                host |-> IF event = "FOUND" THEN res.srv ELSE None,
                addr |-> IF event = "FOUND" THEN res.addr ELSE None,
                txt  |-> IF event = "FOUND" THEN res.txt ELSE None]]

\* The time event is only created if there is none.
start_timeout(res) == [res EXCEPT !.time_event = TRUE]

Complete(res) == res.srv # None /\ res.txt # None /\ res.addr # None

FinishIfComplete(s) == IF Complete(s.res) THEN finish(s, "FOUND") ELSE s

\* Does the browser of this type look for the record?  The SRV and TXT browsers
\* were given the interface asked for; the address browsers ask for the host of
\* the SRV record, on the interface the resolver has settled on.
LooksFor(res, b, rec) ==
  /\ rec.type = b
  /\ IF b \in {"a", "aaaa"} THEN rec.value = res.srv /\ rec.link = res.interface
                              ELSE ReqInterface \in {None, rec.link}

Reported(res, rec) ==
  /\ ~res.freed
  /\ \E b \in Browser : res.browser[b] = "running" /\ LooksFor(res, b, rec)

\* record_browser_callback, AVAHI_BROWSER_NEW
OnNew(s, rec) ==
  LET res == [s.res EXCEPT !.interface = IF @ = None THEN rec.link ELSE @]
  IN IF s.res.interface \notin {None, rec.link} THEN s
     ELSE CASE rec.type = "srv" /\ res.srv = None ->
                 FinishIfComplete([s EXCEPT !.res =
                   [res EXCEPT !.srv = rec.value,
                               !.browser = [@ EXCEPT !["a"] = "deferred",
                                                     !["aaaa"] = "deferred"]]])
            [] rec.type = "txt" /\ res.txt = None ->
                 FinishIfComplete([s EXCEPT !.res = [res EXCEPT !.txt = rec.value]])
            [] rec.type \in {"a", "aaaa"} /\ res.addr = None ->
                 FinishIfComplete([s EXCEPT !.res =
                   [res EXCEPT !.addr = [host |-> rec.value, type |-> rec.type]]])
            [] OTHER -> [s EXCEPT !.res = res]

Restart(browser, S) ==
  [b \in Browser |-> IF b \in S /\ browser[b] # "null" THEN "deferred" ELSE browser[b]]

\* Mutant: losing the TXT record does not arm the timeout.
OnRemoveNoTxtTimeout(s, rec) ==
  LET res == s.res
  IN CASE rec.type = "srv" /\ res.srv = rec.value ->
            [s EXCEPT !.res = start_timeout(
              [res EXCEPT !.srv = None,
                          !.browser = [@ EXCEPT !["a"] = "null", !["aaaa"] = "null",
                                                !["srv"] = "deferred"]])]
       [] rec.type = "txt" /\ res.txt = rec.value ->
            [s EXCEPT !.res = [res EXCEPT !.txt = None, !.browser = Restart(@, {"txt"})]]
       [] OTHER -> s

\* Mutant: a changed SRV record is only noticed on the requested interface.
OnRemoveKeepsSrv(s, rec) ==
  LET res == s.res
  IN CASE rec.type = "srv" /\ res.srv = rec.value /\ rec.link = ReqInterface ->
            [s EXCEPT !.res = start_timeout(
              [res EXCEPT !.srv = None,
                          !.browser = [@ EXCEPT !["a"] = "null", !["aaaa"] = "null",
                                                !["srv"] = "deferred"]])]
       [] OTHER -> s

\* record_browser_callback, AVAHI_BROWSER_REMOVE: the record is compared without
\* the interface it was removed on.
OnRemove(s, rec) ==
  LET res == s.res
  IN CASE rec.type = "srv" /\ res.srv = rec.value ->
            [s EXCEPT !.res = start_timeout(
              [res EXCEPT !.srv = None,
                          !.browser = [@ EXCEPT !["a"] = "null", !["aaaa"] = "null",
                                                !["srv"] = "deferred"]])]
       [] rec.type = "txt" /\ res.txt = rec.value ->
            [s EXCEPT !.res = start_timeout(
              [res EXCEPT !.txt = None, !.browser = Restart(@, {"txt"})])]
       [] rec.type \in {"a", "aaaa"}
            /\ res.addr = [host |-> rec.value, type |-> rec.type] ->
            [s EXCEPT !.res = start_timeout(
              [res EXCEPT !.addr = None, !.browser = Restart(@, {"a", "aaaa"})])]
       [] OTHER -> s

\* record_browser_callback, AVAHI_BROWSER_FAILURE of browser b
OnFailure(s, b) ==
  IF \/ b = "a" /\ s.res.browser["aaaa"] # "null"
     \/ b = "aaaa" /\ s.res.browser["a"] # "null"
  THEN [s EXCEPT !.res.browser[b] = "null"]
  ELSE finish([s EXCEPT !.res.browser = AllNull], "FAILURE")

Now == [res |-> r, told |-> told]

Become(s) == r' = s.res /\ told' = s.told

-----------------------------------------------------------------------------
\* avahi_s_service_resolver_new: prepare and start.
avahi_s_service_resolver_new(freeInCallback) ==
  [res |-> start_timeout(
             [interface |-> ReqInterface, srv |-> None, txt |-> None, addr |-> None,
              browser |-> [AllNull EXCEPT !["srv"] = "deferred", !["txt"] = "deferred"],
              time_event |-> FALSE, freed |-> FALSE]),
   told |-> [freeInCallback |-> freeInCallback, event |-> "none", calls |-> 0,
             host |-> None, addr |-> None, txt |-> None]]

ResolverInit ==
  /\ cached = {}
  /\ \E f \in BOOLEAN :
       /\ r = avahi_s_service_resolver_new(f).res
       /\ told = avahi_s_service_resolver_new(f).told

\* A record enters or leaves a cache (external: any order, any time).
RecordEnters(rec) ==
  /\ rec \notin cached /\ Cardinality(cached) < MaxRecords
  /\ cached' = cached \cup {rec}
  /\ IF Reported(r, rec) THEN Become(OnNew(Now, rec)) ELSE UNCHANGED <<r, told>>

RecordLeaves(rec) ==
  /\ rec \in cached
  /\ cached' = cached \ {rec}
  /\ IF Reported(r, rec) THEN Become(OnRemove(Now, rec)) ELSE UNCHANGED <<r, told>>

\* What the scan of browser b walks over, in the order of the caches' lists.
Matches(b) == {rec \in cached : LooksFor(r, b, rec)}

\* NEW for each match, until the client frees the resolver.
Scan(b, order) ==
  FoldLeft(LAMBDA s, rec : IF s.res.freed THEN s ELSE OnNew(s, rec),
           [Now EXCEPT !.res.browser[b] = "running"], order)

\* defer_callback of browser b: scan the cache, start the lookup.
DeferElapsed(b) ==
  /\ r.browser[b] = "deferred"
  /\ \E order \in SetToSeqs(Matches(b)) : Become(Scan(b, order))
  /\ UNCHANGED cached

\* defer_callback when the lookup could not be started.
DeferFails(b) ==
  /\ r.browser[b] = "deferred"
  /\ \E order \in SetToSeqs(Matches(b)) :
       LET s == Scan(b, order)
       IN Become(IF s.res.freed THEN s ELSE OnFailure(s, b))
  /\ UNCHANGED cached

\* time_event_callback: five seconds are over.
Timeout ==
  /\ r.time_event
  /\ Become(finish(Now, "FAILURE"))
  /\ UNCHANGED cached

ResolverNext ==
  \/ \E rec \in Record : RecordEnters(rec) \/ RecordLeaves(rec)
  \/ \E b \in Browser : DeferElapsed(b) \/ DeferFails(b)
  \/ Timeout

ResolverSpec == ResolverInit /\ [][ResolverNext]_resolverVars

-----------------------------------------------------------------------------
ResolverTypeOK == cached \subseteq Record /\ Now \in State

\* The client is never left waiting: if the last thing it heard is not a FAILURE,
\* the resolver holds all records or the timeout that will report is running.
NeverLeftWaiting ==
  told.event # "FAILURE" => Complete(r) \/ r.time_event

\* While it is looking, the resolver holds no SRV or TXT record that has left the
\* cache of its interface: a changed service is noticed.
HeldRecordsAreCached ==
  r.browser["srv"] # "null" =>
    /\ r.srv # None => [type |-> "srv", value |-> r.srv, link |-> r.interface] \in cached
    /\ r.txt # None => [type |-> "txt", value |-> r.txt, link |-> r.interface] \in cached

\* A known SRV record always has an address lookup under way or an answer: the
\* failure of one address family leaves the other one looking.
HostIsBeingLookedUp ==
  r.srv # None /\ r.browser["srv"] # "null" =>
    r.browser["a"] # "null" \/ r.browser["aaaa"] # "null"

\* A client that frees the resolver in its callback is called exactly once: no
\* browser or timeout of a freed resolver calls back.
CalledOnceIfFreed == told.freeInCallback => told.calls <= 1

\* The client is told the address of the host the SRV record names.
AddressOfHost == told.event = "FOUND" => told.addr.host = told.host

\* record_browser_callback keeps the resolver in step with the caches: what it holds is there,
\* and what it lacks is being looked up.
ResolverInv == ResolverTypeOK /\ HeldRecordsAreCached /\ HostIsBeingLookedUp
=============================================================================
