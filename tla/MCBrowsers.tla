----------------------------- MODULE MCBrowsers -----------------------------
(***************************************************************************)
(* Model checking of the browsers, on the side that asks, and of the       *)
(* schedulers of responses and probes, on the side that answers: a record  *)
(* browser, the browsers and the address resolver on top, the two          *)
(* schedulers.  They share no state, so a behaviour is one of one of them. *)
(*                                                                         *)
(* Only safety is checked, so that the hosts that ask, which are nothing   *)
(* but different, are taken for each other.                                *)
(***************************************************************************)
EXTENDS RecordBrowser, AddressResolver, ClientBrowsers, Responder, ProbeScheduler, TLC

VARIABLE part  \* the part at work

browsing == <<browserVars, addrVars, clientVars>>
scheduling == <<respVars, probeVars>>

mcBrowseDomains == {<<>>, <<"d1">>, <<"d1", "d2">>}
mcKeyOf == [r \in Record |-> IF r = "ptr" THEN "kp" ELSE "ks"]
mcAux == [r \in Record |-> IF r = "ptr" THEN {"srv"} ELSE {}]
mcNameOf == [r \in ProbeRecord |-> IF r \in {"a", "aaaa"} THEN "host" ELSE "srv"]

mcSymmetry == Permutations(Host)

mcBrowsing ==
  \/ part = "browser" /\ BrowserNext /\ UNCHANGED <<addrVars, clientVars>>
  \/ part = "address" /\ AddrNext /\ UNCHANGED <<browserVars, clientVars>>
  \/ /\ \/ part = "dns servers" /\ DnsNext
        \/ part = "domains" /\ DomainNext
        \/ part = "services" /\ ServiceNext
     /\ UNCHANGED <<browserVars, addrVars>>

mcScheduling ==
  \/ part = "responses" /\ RespNext /\ UNCHANGED probeVars
  \/ part = "probes" /\ ProbeNext /\ UNCHANGED respVars

\* Parts that are not at work are idle.
mcIdle ==
  /\ part # "browser" => browser.frees = "never"
  /\ IF part = "address" THEN AddrInit
     ELSE addr = addr_finish(NewAddressResolver("none", FALSE, "any"), "none", TRUE)
  /\ part # "domains" => domb.frees = 0 /\ domb.static = <<>> /\ domb.browse
  /\ part # "services" => ~svcb.types

mcInit ==
  /\ part \in {"browser", "address", "dns servers", "domains", "services", "responses", "probes"}
  /\ BrowserInit /\ ClientInit /\ RespInit /\ ProbeInit
  /\ mcIdle

mcNext ==
  /\ \/ mcBrowsing /\ UNCHANGED scheduling
     \/ mcScheduling /\ UNCHANGED browsing
  /\ UNCHANGED part

mcSpec == mcInit /\ [][mcNext]_<<part, browsing, scheduling>>
=============================================================================
