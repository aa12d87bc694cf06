--------------------------- MODULE ClientBrowsers ---------------------------
(***************************************************************************)
(* The browsers that avahi-core builds on record browsers: for DNS servers *)
(* (browse-dns-server.c), for domains (browse-domain.c), and for services  *)
(* and service types (browse-service.c, browse-service-type.c).            *)
(*                                                                         *)
(* One of each.  Their record browsers report the records of the caches as *)
(* module BrowserView promises.  What the DNS server browser does when its *)
(* client frees it in a callback is left out: no client does.              *)
(***************************************************************************)
EXTENDS Naturals, FiniteSets, Sequences, SequencesExt

CONSTANTS Srv,           \* SRV records of DNS servers, each on an interface
          MaxInfo,       \* the servers a browser keeps (10)
          Domain,        \* domain names
          BrowseDomains, \* the lists browse_domains is set to
          Instance,      \* names in PTR records of services
          Splittable     \* those that are well-formed service names

ASSUME ClientAssumption ==
  /\ MaxInfo \in Nat
  /\ BrowseDomains \subseteq Seq(Domain)
  /\ Splittable \subseteq Instance

VARIABLES dnsb,  \* the DNS server browser
          domb,  \* the domain browser
          svcb   \* the service browser

clientVars == <<dnsb, domb, svcb>>

-----------------------------------------------------------------------------
(* DNS servers.  A server is reported when the name of its host has been   *)
(* resolved.                                                               *)

\* info: none, resolving (host_name_resolver is there), reported, or unresolved (its
\* resolver failed and was freed); told: servers reported and not withdrawn;
\* full: a server was passed over
DnsType ==
  [cached : SUBSET Srv, info : [Srv -> {"none", "resolving", "reported", "unresolved"}],
   told : SUBSET Srv, full : BOOLEAN]

n_info == Cardinality({s \in Srv : dnsb.info[s] # "none"})

\* record_browser_callback, AVAHI_BROWSER_NEW
DnsNew(s) ==
  /\ s \notin dnsb.cached
  /\ dnsb' = IF n_info >= MaxInfo THEN [dnsb EXCEPT !.cached = @ \cup {s}, !.full = TRUE]
             ELSE [dnsb EXCEPT !.cached = @ \cup {s}, !.info[s] = "resolving"]

\* record_browser_callback, AVAHI_BROWSER_REMOVE, with server_info_free.  A server whose
\* host was not resolved is withdrawn as well, although it was never reported.
DnsRemove(s) ==
  /\ s \in dnsb.cached
  /\ dnsb' = [dnsb EXCEPT !.cached = @ \ {s}, !.info[s] = "none", !.told = @ \ {s}]

\* host_name_resolver_callback
DnsResolved(s, found) ==
  /\ dnsb.info[s] = "resolving"
  /\ dnsb' = IF found THEN [dnsb EXCEPT !.info[s] = "reported", !.told = @ \cup {s}]
             ELSE [dnsb EXCEPT !.info[s] = "unresolved"]

-----------------------------------------------------------------------------
(* Domains.  The domains of the configuration are reported first.          *)

\* static: config.browse_domains, and whether it changed since the browser was made;
\* told: domains reported and not withdrawn; known: the configured domains reported;
\* done: AVAHI_BROWSER_ALL_FOR_NOW was reported; frees: the client frees the browser in
\* its nth callback; late: callbacks since it did
DomainType ==
  [browse : BOOLEAN, static : BrowseDomains, changed : BOOLEAN, cached : SUBSET Domain,
   defer : BOOLEAN, all_for_now_scheduled : BOOLEAN, ref : 0..2, told : SUBSET Domain,
   known : SUBSET Domain, done : BOOLEAN, frees : 0..3, late : 0..1]

Static(b) == Range(b.static)

\* avahi_s_domain_browser_free
avahi_s_domain_browser_free(b) ==
  [b EXCEPT !.ref = @ - 1, !.defer = IF b.ref = 1 THEN FALSE ELSE @]

\* The callback: the client counts, and frees the browser in the one it chose.
DomainCallback(b) ==
  LET c == [b EXCEPT !.frees = IF @ = 0 THEN 0 ELSE @ - 1, !.late = IF b.ref = 0 THEN 1 ELSE @]
  IN IF b.frees = 1 THEN avahi_s_domain_browser_free(c) ELSE c

\* Is the domain reported, or known to be configured?
Passes(b, n) == ~(b.browse /\ n \in Static(b))

\* record_browser_callback, for a domain that appears
DomainNew(n) ==
  LET b == [domb EXCEPT !.cached = @ \cup {n}]
  IN
  /\ domb.ref > 0 /\ n \notin domb.cached
  /\ domb' = IF Passes(b, n) THEN DomainCallback([b EXCEPT !.told = @ \cup {n}]) ELSE b

\* record_browser_callback, for a domain that disappears
DomainRemove(n) ==
  LET b == [domb EXCEPT !.cached = @ \ {n}]
  IN
  /\ domb.ref > 0 /\ n \in domb.cached
  /\ domb' = IF Passes(b, n) THEN DomainCallback([b EXCEPT !.told = @ \ {n}]) ELSE b

\* record_browser_callback, AVAHI_BROWSER_ALL_FOR_NOW: kept back while the configured
\* domains are still to be reported.
DomainAllForNow ==
  /\ domb.ref > 0 /\ ~domb.done /\ ~domb.all_for_now_scheduled
  /\ domb' = IF domb.defer THEN [domb EXCEPT !.all_for_now_scheduled = TRUE]
             ELSE DomainCallback([domb EXCEPT !.done = TRUE])

\* One configured domain; nothing once the client has freed the browser.
ReportStatic(b, n) ==
  IF b.ref <= 1 THEN b
  ELSE DomainCallback([b EXCEPT !.told = @ \cup {n}, !.known = @ \cup {n}])

\* Mutant: the browser is not kept while its callbacks run.
DomainDefer_unheld ==
  LET all == FoldLeft(LAMBDA b, n : DomainCallback([b EXCEPT !.told = @ \cup {n}, !.known = @ \cup {n}]),
                      [domb EXCEPT !.defer = FALSE], domb.static)
  IN
  /\ domb.ref > 0 /\ domb.defer
  /\ domb' = IF all.all_for_now_scheduled THEN DomainCallback([all EXCEPT !.done = TRUE]) ELSE all

\* defer_callback
DomainDefer ==
  LET held == [domb EXCEPT !.defer = FALSE, !.ref = @ + 1]
      all == FoldLeft(ReportStatic, held, domb.static)
      end == IF all.ref > 1 /\ all.all_for_now_scheduled
             THEN DomainCallback([all EXCEPT !.done = TRUE]) ELSE all
  IN
  /\ domb.ref > 0 /\ domb.defer
  /\ domb' = avahi_s_domain_browser_free(end)

\* avahi_server_set_browse_domains, outside of the reports of DomainDefer
avahi_server_set_browse_domains(list) ==
  /\ domb.ref > 0 /\ list # domb.static
  /\ domb' = [domb EXCEPT !.static = list, !.changed = TRUE]

-----------------------------------------------------------------------------
(* Services and service types: names that cannot be split are left out.    *)

\* types: is it a browser for service types?
ServiceType == [types : BOOLEAN, cached : SUBSET Instance, told : SUBSET Instance]

\* record_browser_callback of browse-service.c: the names the client is told of
ServiceReports(n) == {n} \cap Splittable

\* record_browser_callback of browse-service-type.c
ServiceTypeReports(n) == {n} \cap Splittable

Reports(n) == IF svcb.types THEN ServiceTypeReports(n) ELSE ServiceReports(n)

ServiceNew(n) ==
  /\ n \notin svcb.cached
  /\ svcb' = [svcb EXCEPT !.cached = @ \cup {n}, !.told = @ \cup Reports(n)]

ServiceRemove(n) ==
  /\ n \in svcb.cached
  /\ svcb' = [svcb EXCEPT !.cached = @ \ {n}, !.told = @ \ Reports(n)]

-----------------------------------------------------------------------------
\* avahi_s_dns_server_browser_prepare
DnsInit == dnsb = [cached |-> {}, info |-> [s \in Srv |-> "none"], told |-> {}, full |-> FALSE]

\* avahi_s_domain_browser_prepare
DomainInit ==
  \E browse \in BOOLEAN, list \in BrowseDomains, frees \in 0..3 :
    domb = [browse |-> browse, static |-> list, changed |-> FALSE, cached |-> {},
            defer |-> browse /\ list # <<>>, all_for_now_scheduled |-> FALSE, ref |-> 1,
            told |-> {}, known |-> {}, done |-> FALSE, frees |-> frees, late |-> 0]

\* avahi_s_service_browser_prepare, avahi_s_service_type_browser_prepare
ServiceInit == svcb \in [types : BOOLEAN, cached : {{}}, told : {{}}]

ClientInit == DnsInit /\ DomainInit /\ ServiceInit

DnsNext ==
  /\ \E s \in Srv : DnsNew(s) \/ DnsRemove(s) \/ \E found \in BOOLEAN : DnsResolved(s, found)
  /\ UNCHANGED <<domb, svcb>>

DomainNext ==
  /\ \/ \E n \in Domain : DomainNew(n) \/ DomainRemove(n)
     \/ DomainAllForNow
     \/ DomainDefer
     \/ \E list \in BrowseDomains : avahi_server_set_browse_domains(list)
  /\ UNCHANGED <<dnsb, svcb>>

ServiceNext ==
  /\ \E n \in Instance : ServiceNew(n) \/ ServiceRemove(n)
  /\ UNCHANGED <<dnsb, domb>>

ClientNext == DnsNext \/ DomainNext \/ ServiceNext

ClientSpec == ClientInit /\ [][ClientNext]_clientVars

-----------------------------------------------------------------------------
ClientTypeOK ==
  /\ dnsb \in DnsType
  /\ domb \in DomainType
  /\ svcb \in ServiceType

\* The servers that were reported are in the caches, a resolver runs only for a server
\* that is, and every cached server is taken up until there were too many of them.
ServersAreKnown ==
  /\ dnsb.told \subseteq dnsb.cached
  /\ \A s \in Srv : dnsb.info[s] # "none" => s \in dnsb.cached
  /\ ~dnsb.full => \A s \in dnsb.cached : dnsb.info[s] # "none"
  /\ n_info <= MaxInfo

\* The client that is told of the end of the list has been told of the configured
\* domains, and never of their removal while the configuration stays.
ConfiguredDomainsFirst ==
  domb.browse /\ ~domb.changed /\ domb.ref > 0 =>
    /\ domb.done => Static(domb) \subseteq domb.told
    /\ domb.known \subseteq domb.told

\* A client that frees the browser, in a callback of defer_callback or of another event, is
\* not called again, and the browser is released once.
NoCallAfterFree == domb.late = 0 /\ (domb.ref = 0 => ~domb.defer)

\* What was reported as a service is a service in the caches, and all of them are.
ServicesMatch == svcb.told = svcb.cached \cap Splittable

\* The clients of the browsers know what is cached and configured, and hear nothing after they
\* freed them.
ClientInv == ClientTypeOK /\ ServersAreKnown /\ ConfiguredDomainsFirst /\ NoCallAfterFree /\ ServicesMatch
=============================================================================
