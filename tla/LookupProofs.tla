---------------------------- MODULE LookupProofs ----------------------------
(***************************************************************************)
(* Proofs about the clients of the lookups of avahi-core, for any sets of  *)
(* records, lookups, servers, addresses, names and interfaces: the wide    *)
(* area lookup engine, the two resolvers of one record, the browsers that  *)
(* are built on record browsers, and the service resolver.                 *)
(***************************************************************************)
EXTENDS WideArea, HostNameResolver, AddressResolver, ClientBrowsers, ServiceResolver, FiniteSetTheorems, TLAPS

-----------------------------------------------------------------------------
(* Wide area lookups.                                                      *)

\* A waiting lookup whose servers were not changed has asked the server it used last, and
\* as soon as it has sent more often than Retries says it has asked a second one, because
\* every further send goes to a server that the send before it did not go to, or to one
\* that a lookup moved to before.
Asking(w, s) ==
  w.state = "waiting" /\ w.steady =>
    /\ s # <<>> /\ w.used \in w.asked
    /\ IsInjective(s) /\ Len(s) > 1 /\ w.n_send > Retries => Cardinality(w.asked) > 1

\* What the client knows
Ended(w) ==
  /\ w.state = "waiting" => w.finals = 0 /\ w.final = "none"
  /\ w.state = "stopped" => w.finals = 1
  /\ w.state \in {"free", "dead"} => w.finals = 0 /\ w.final = "none"

GaveUp(w, s) ==
  w.final = "TIMEOUT" /\ w.steady /\ IsInjective(s) /\ Len(s) > 1 => Cardinality(w.asked) > 1

\* One lookup, with servers s and cache c
WideLookupOK(w, s, c) ==
  /\ w \in WideLookupType
  /\ IsFiniteSet(w.asked)
  /\ Asking(w, s)
  /\ Ended(w)
  /\ GaveUp(w, s)
  /\ w.state = "waiting" => c \subseteq w.told

WideIInv ==
  /\ dns \in ServerLists \cup {<<>>}
  /\ current = 0 \/ current \in 1..(Len(dns) - 1)
  /\ wcache \subseteq WideRecord /\ Cardinality(wcache) <= CacheMax
  /\ DOMAIN wlookup = WideLookup /\ wlookup = [l \in WideLookup |-> wlookup[l]]
  /\ \A l \in WideLookup : WideLookupOK(wlookup[l], dns, wcache)

LEMMA WideImplies == WideIInv => WideInv
<1> SUFFICES ASSUME WideIInv PROVE WideInv
  OBVIOUS
<1>1. \A l \in WideLookup : wlookup[l] \in WideLookupType
  BY DEF WideIInv, WideLookupOK
<1>2. WideTypeOK
  BY <1>1 DEF WideIInv, WideTypeOK
<1>3. \A l \in WideLookup : wlookup[l].state \in {"free", "waiting", "stopped", "dead"}
  BY <1>1 DEF WideLookupType
<1>4. EndsOnce
  BY <1>3 DEF WideIInv, WideLookupOK, Ended, EndsOnce, Waiting
<1>5. WaitingKnowCache
  BY DEF WideIInv, WideLookupOK, WaitingKnowCache, Waiting
<1>6. TriedAnotherServer
  BY DEF WideIInv, WideLookupOK, GaveUp, TriedAnotherServer
<1> QED
  BY <1>2, <1>4, <1>5, <1>6 DEF WideInv

LEMMA NoWideLookupOK ==
  ASSUME NEW s, NEW c
  PROVE  WideLookupOK(NoWideLookup, s, c) /\ WideLookupOK(DeadLookup, s, c)
<1>1. NoWideLookup \in WideLookupType
  <2>1. 0 \in 0..MaxSends /\ 0 \in 0..2
    BY WideAssumption
  <2> QED
    BY <2>1 DEF NoWideLookup, WideLookupType
<1>2. DeadLookup \in WideLookupType
  BY <1>1 DEF DeadLookup, WideLookupType
<1> QED
  BY <1>1, <1>2, FS_EmptySet
  DEF NoWideLookup, DeadLookup, WideLookupOK, Asking, Ended, GaveUp

\* The final callback keeps a lookup correct.
LEMMA FinishedOK ==
  ASSUME NEW s, NEW c, NEW w, w \in WideLookupType, IsFiniteSet(w.asked),
         w.state = "waiting", w.finals = 0,
         NEW event \in {"ALL_FOR_NOW", "FAILURE", "TIMEOUT"}, NEW frees \in BOOLEAN,
         event = "TIMEOUT" => (w.steady /\ IsInjective(s) /\ Len(s) > 1 => Cardinality(w.asked) > 1)
  PROVE  WideLookupOK(Finished(w, event, frees), s, c)
<1>1. CASE frees
  BY <1>1, NoWideLookupOK DEF Finished
<1>2. CASE ~frees
  <2> DEFINE f == Finished(w, event, frees)
  <2>1. /\ f.state = "stopped" /\ f.final = event /\ f.finals = 1 /\ f.steady = w.steady
        /\ f.asked = (IF event = "TIMEOUT" THEN w.asked ELSE {})
    BY <1>2 DEF Finished, WideLookupType
  <2>2. IsFiniteSet(f.asked)
    BY <2>1, FS_EmptySet
  <2>3. f \in WideLookupType
    <3>1. 0 \in 0..MaxSends /\ 1 \in 0..2 /\ (IF w.finals = 2 THEN 2 ELSE w.finals + 1) = 1
      BY WideAssumption
    <3>2. (IF event = "TIMEOUT" THEN w.asked ELSE {}) \in SUBSET Server
      BY DEF WideLookupType
    <3> QED
      BY <1>2, <3>1, <3>2 DEF Finished, WideLookupType
  <2> QED
    BY <2>1, <2>2, <2>3 DEF WideLookupOK, Asking, Ended, GaveUp
<1> QED
  BY <1>1, <1>2

\* So does sending the question once more: from the retry limit on the server is another
\* one than before (same: the current server is the one it used).
LEMMA SentOK ==
  ASSUME NEW s \in ServerLists \cup {<<>>}, NEW c, NEW w, WideLookupOK(w, s, c),
         w.state = "waiting", w.n_send < MaxSends,
         NEW now \in Nat, s # <<>> => now + 1 \in DOMAIN s,
         IsInjective(s) /\ Len(s) > 1 /\ w.n_send >= Retries => s[now + 1] # w.used
  PROVE  WideLookupOK([send_to_dns_server(w, s, now) EXCEPT !.n_send = @ + 1], s, c)
<1> DEFINE f == [send_to_dns_server(w, s, now) EXCEPT !.n_send = @ + 1]
<1>1. w \in WideLookupType /\ w.n_send \in Nat
  BY DEF WideLookupOK, WideLookupType
<1>2. w.n_send + 1 \in 0..MaxSends
  BY <1>1, WideAssumption
<1>3. CASE s = <<>>
  <2>1. f = [w EXCEPT !.n_send = @ + 1]
    BY <1>3 DEF send_to_dns_server
  <2>2. f \in WideLookupType
    BY <1>1, <1>2, <2>1 DEF WideLookupType
  <2>3. /\ f.state = "waiting" /\ f.asked = w.asked /\ f.steady = w.steady
        /\ f.final = w.final /\ f.finals = w.finals /\ f.told = w.told
    BY <1>1, <2>1 DEF WideLookupType
  <2> QED
    BY <1>3, <2>2, <2>3 DEF WideLookupOK, Asking, Ended, GaveUp
<1>4. CASE s # <<>>
  <2> DEFINE a == s[now + 1]
  <2>1. a \in Server
    BY <1>4, WideAssumption
  <2>2. /\ f.state = "waiting" /\ f.asked = w.asked \cup {a} /\ f.steady = w.steady
        /\ f.final = w.final /\ f.finals = w.finals /\ f.told = w.told
        /\ f.used = a /\ f.n_send = w.n_send + 1
    BY <1>1, <1>4 DEF send_to_dns_server, WideLookupType
  <2>3. f \in WideLookupType
    <3>1. w.asked \cup {a} \in SUBSET Server
      BY <1>1, <2>1 DEF WideLookupType
    <3> QED
      BY <1>1, <1>2, <1>4, <2>1, <3>1 DEF send_to_dns_server, WideLookupType
  <2> HIDE DEF f
  <2>4. IsFiniteSet(f.asked)
    <3>1. IsFiniteSet(w.asked)
      BY DEF WideLookupOK
    <3>2. IsFiniteSet(w.asked \cup {a})
      BY <3>1, FS_AddElement, Zenon
    <3> QED
      BY <2>2, <3>2
  <2>5. Asking(f, s)
    <3> SUFFICES ASSUME w.steady, IsInjective(s), Len(s) > 1, w.n_send + 1 > Retries
                 PROVE  Cardinality(w.asked \cup {a}) > 1
      BY <1>4, <2>2 DEF Asking
    <3>1. w.used \in w.asked /\ a # w.used
      BY <1>1, WideAssumption DEF WideLookupOK, Asking
    <3>2. {w.used, a} \subseteq w.asked \cup {a} /\ IsFiniteSet(w.asked \cup {a})
      BY <2>2, <2>4, <3>1
    <3>3. Cardinality({w.used, a}) = 2
      <4>1. IsFiniteSet({w.used}) /\ Cardinality({w.used}) = 1
        BY FS_Singleton
      <4> QED
        BY <3>1, <4>1, FS_AddElement
    <3>4. /\ Cardinality({w.used, a}) <= Cardinality(w.asked \cup {a})
          /\ Cardinality(w.asked \cup {a}) \in Nat
      BY <3>2, FS_Subset, FS_CardinalityType
    <3> QED
      BY <3>3, <3>4
  <2>6. WideLookupOK(f, s, c)
    BY <2>2, <2>3, <2>4, <2>5 DEF WideLookupOK, Ended, GaveUp
  <2> QED
    BY <2>6 DEF f
<1> QED
  BY <1>3, <1>4

LEMMA WideStart == WideInit => WideIInv
<1> SUFFICES ASSUME WideInit PROVE WideIInv
  OBVIOUS
<1>1. Cardinality({}) = 0
  BY FS_EmptySet
<1>2. \A l \in WideLookup : WideLookupOK(NoWideLookup, dns, wcache)
  BY NoWideLookupOK
<1> QED
  BY <1>1, <1>2, WideAssumption DEF WideInit, WideIInv

\* A step that changes one lookup.
LEMMA OneLookup ==
  ASSUME WideIInv, NEW l \in WideLookup, NEW w, WideLookupOK(w, dns, wcache),
         wlookup' = [wlookup EXCEPT ![l] = w],
         current' = 0 \/ current' \in 1..(Len(dns) - 1), UNCHANGED <<dns, wcache>>
  PROVE  WideIInv'
<1>1. /\ DOMAIN wlookup' = WideLookup /\ wlookup' = [m \in WideLookup |-> wlookup'[m]]
      /\ \A m \in WideLookup : wlookup'[m] = IF m = l THEN w ELSE wlookup[m]
  BY DEF WideIInv
<1>2. \A m \in WideLookup : WideLookupOK(wlookup'[m], dns', wcache')
  BY <1>1 DEF WideIInv
<1> QED
  BY <1>1, <1>2 DEF WideIInv

\* The time event of a lookup (sender_timeout_callback).
LEMMA TimedOut ==
  ASSUME WideIInv, NEW l \in WideLookup, sender_timeout_callback(l)
  PROVE  WideIInv'
<1> DEFINE w == wlookup[l]
<1>1. PICK same \in SameServer(w, current) :
        LET change == w.n_send >= Retries /\ same
            now == IF change THEN next_dns_server ELSE current
            alone == change /\ TRUE \in SameServer(w, now)
        IN  /\ current' = now
            /\ IF alone \/ w.n_send >= MaxSends
               THEN \E frees \in BOOLEAN :
                      wlookup' = [wlookup EXCEPT ![l] = Finished(w, "TIMEOUT", frees)]
               ELSE wlookup' = [wlookup EXCEPT ![l] =
                                  [send_to_dns_server(w, dns, now) EXCEPT !.n_send = @ + 1]]
  BY DEF sender_timeout_callback
<1> DEFINE change == w.n_send >= Retries /\ same
           now == IF change THEN next_dns_server ELSE current
           alone == change /\ TRUE \in SameServer(w, now)
<1>2. w.state = "waiting" /\ UNCHANGED <<dns, wcache>>
  BY DEF sender_timeout_callback, Waiting
<1>3. /\ WideLookupOK(w, dns, wcache) /\ w \in WideLookupType /\ w.n_send \in Nat
      /\ IsFiniteSet(w.asked) /\ w.finals = 0
  BY <1>2 DEF WideIInv, WideLookupOK, WideLookupType, Ended
<1>4. dns \in Seq(Server) /\ Len(dns) \in Nat /\ (dns # <<>> => Len(dns) > 0)
  <2>1. dns \in Seq(Server)
    <3>1. <<>> \in Seq(Server)
      OBVIOUS
    <3>2. dns \in ServerLists \/ dns = <<>>
      BY Zenon DEF WideIInv
    <3> QED
      BY <3>1, <3>2, WideAssumption, Zenon
  <2> QED
    BY <2>1
<1>5. current \in Nat /\ (dns # <<>> => current + 1 \in 1..Len(dns))
  BY <1>4 DEF WideIInv
<1>6. /\ now \in Nat /\ (dns # <<>> => now + 1 \in 1..Len(dns))
      /\ now = 0 \/ now \in 1..(Len(dns) - 1)
  <2>1. next_dns_server \in Nat /\ (dns # <<>> => next_dns_server + 1 \in 1..Len(dns))
    BY <1>4, <1>5 DEF next_dns_server
  <2>2. next_dns_server = 0 \/ next_dns_server \in 1..(Len(dns) - 1)
    BY <1>4, <1>5 DEF next_dns_server
  <2> QED
    BY <1>5, <2>1, <2>2 DEF WideIInv
<1>7. ASSUME IsInjective(dns), Len(dns) > 1, w.n_send >= Retries
      PROVE  dns[now + 1] # w.used /\ ~alone
  <2>1. dns # <<>> /\ same = (dns[current + 1] = w.used)
    BY <1>1, <1>7 DEF SameServer
  <2>2. CASE same
    <3>1. next_dns_server # current /\ now = next_dns_server
      BY <1>4, <1>5, <1>7, <2>2 DEF next_dns_server
    <3>2. dns[now + 1] # dns[current + 1]
      <4>1. now + 1 \in DOMAIN dns /\ current + 1 \in DOMAIN dns /\ now + 1 # current + 1
        BY <1>4, <1>5, <1>6, <2>1, <3>1
      <4> QED
        BY <1>7, <4>1 DEF IsInjective
    <3> QED
      BY <2>1, <2>2, <3>2 DEF SameServer
  <2>3. CASE ~same
    BY <2>1, <2>3
  <2> QED
    BY <2>1, <2>2, <2>3
<1> HIDE DEF now, alone, w
<1>8. current' = now /\ (current' = 0 \/ current' \in 1..(Len(dns) - 1))
  BY <1>1, <1>6 DEF now, w
<1>9. CASE alone \/ w.n_send >= MaxSends
  <2>1. PICK frees \in BOOLEAN : wlookup' = [wlookup EXCEPT ![l] = Finished(w, "TIMEOUT", frees)]
    BY <1>1, <1>9 DEF now, alone, w
  <2>2. w.steady /\ IsInjective(dns) /\ Len(dns) > 1 => Cardinality(w.asked) > 1
    <3> SUFFICES ASSUME w.steady, IsInjective(dns), Len(dns) > 1 PROVE Cardinality(w.asked) > 1
      OBVIOUS
    <3>1. alone => w.n_send >= Retries
      BY DEF alone, change, w
    <3>2. w.n_send >= MaxSends
      BY <1>7, <1>9, <3>1
    <3>3. w.n_send > Retries
      BY <1>3, <3>2, WideAssumption
    <3> QED
      BY <1>2, <1>3, <3>3 DEF WideLookupOK, Asking
  <2>3. WideLookupOK(Finished(w, "TIMEOUT", frees), dns, wcache)
    BY <1>2, <1>3, <2>2, FinishedOK
  <2> QED
    BY <1>2, <1>8, <2>1, <2>3, OneLookup
<1>10. CASE ~(alone \/ w.n_send >= MaxSends)
  <2>1. wlookup' = [wlookup EXCEPT ![l] =
                      [send_to_dns_server(w, dns, now) EXCEPT !.n_send = @ + 1]]
    BY <1>1, <1>10 DEF now, alone, w
  <2>2. w.n_send < MaxSends /\ (dns # <<>> => now + 1 \in DOMAIN dns)
    BY <1>3, <1>4, <1>6, <1>10, WideAssumption
  <2>3. WideLookupOK([send_to_dns_server(w, dns, now) EXCEPT !.n_send = @ + 1], dns, wcache)
    BY <1>2, <1>3, <1>6, <1>7, <2>2, SentOK DEF WideIInv
  <2> QED
    BY <1>2, <1>8, <2>1, <2>3, OneLookup
<1> QED
  BY <1>9, <1>10

\* An answer arrives (handle_packet): all waiting lookups are told of what is new.
LEMMA ToldOK ==
  ASSUME NEW s, NEW c, NEW d, NEW new \in SUBSET WideRecord, NEW leavers, NEW w, d \subseteq c \cup new,
         DOMAIN w = WideLookup, \A m \in WideLookup : WideLookupOK(w[m], s, c),
         NEW m \in WideLookup
  PROVE  WideLookupOK(run_callbacks(w, new, leavers)[m], s, d)
<1>1. WideLookupOK(w[m], s, c) /\ w[m] \in WideLookupType
  BY DEF WideLookupOK
<1>2. CASE w[m].state # "waiting" \/ new = {}
  BY <1>1, <1>2 DEF run_callbacks, WideLookupOK
<1>3. CASE w[m].state = "waiting" /\ new # {} /\ m \in leavers
  BY <1>3, NoWideLookupOK DEF run_callbacks
<1>4. CASE w[m].state = "waiting" /\ new # {} /\ m \notin leavers
  <2> DEFINE f == [w[m] EXCEPT !.told = @ \cup new]
  <2>1. run_callbacks(w, new, leavers)[m] = f
    BY <1>4 DEF run_callbacks
  <2>2. /\ f \in WideLookupType
        /\ f.told = w[m].told \cup new /\ f.state = "waiting" /\ f.asked = w[m].asked
        /\ f.steady = w[m].steady /\ f.used = w[m].used /\ f.n_send = w[m].n_send
        /\ f.final = w[m].final /\ f.finals = w[m].finals
    BY <1>1, <1>4 DEF WideLookupType
  <2> HIDE DEF f
  <2>3. WideLookupOK(f, s, d)
    BY <1>1, <1>4, <2>2 DEF WideLookupOK, Asking, Ended, GaveUp
  <2> QED
    BY <2>1, <2>3
<1> QED
  BY <1>2, <1>3, <1>4

LEMMA Answered ==
  ASSUME WideIInv, NEW l \in WideLookup, NEW rs \in SUBSET WideRecord,
         NEW event \in FinalEvents(rs), handle_packet(l, rs, event)
  PROVE  WideIInv'
<1> DEFINE new == rs \ wcache
<1>1. /\ wcache' \in SUBSET (wcache \cup rs) /\ Cardinality(wcache') <= CacheMax
      /\ UNCHANGED <<dns, current>>
  BY DEF handle_packet, Cached
<1>2. PICK leavers \in Leavers(new), frees \in BOOLEAN :
        LET w == run_callbacks(wlookup, new, leavers)
        IN  wlookup' = IF w[l].state # "waiting" THEN w
                       ELSE [w EXCEPT ![l] = Finished(w[l], event, frees)]
  BY DEF handle_packet
<1> DEFINE w == run_callbacks(wlookup, new, leavers)
<1>3. DOMAIN w = WideLookup /\ w = [m \in WideLookup |-> w[m]]
  BY DEF run_callbacks
<1>4. \A m \in WideLookup : WideLookupOK(w[m], dns, wcache')
  <2>1. wcache' \subseteq wcache \cup new /\ new \in SUBSET WideRecord
    BY <1>1
  <2> QED
    BY <2>1, ToldOK DEF WideIInv
<1> HIDE DEF w
<1>5. wlookup' = IF w[l].state # "waiting" THEN w
                 ELSE [w EXCEPT ![l] = Finished(w[l], event, frees)]
  BY <1>2 DEF w
<1>6. w[l].state = "waiting" => WideLookupOK(Finished(w[l], event, frees), dns, wcache')
  <2>1. event \in {"ALL_FOR_NOW", "FAILURE"}
    BY DEF FinalEvents
  <2>2. w[l].state = "waiting" => w[l] \in WideLookupType /\ IsFiniteSet(w[l].asked) /\ w[l].finals = 0
    BY <1>4 DEF WideLookupOK, Ended
  <2> QED
    BY <2>1, <2>2, FinishedOK
<1>7. /\ DOMAIN wlookup' = WideLookup /\ wlookup' = [m \in WideLookup |-> wlookup'[m]]
      /\ \A m \in WideLookup : WideLookupOK(wlookup'[m], dns, wcache')
  <2>1. CASE w[l].state # "waiting"
    BY <1>3, <1>4, <1>5, <2>1
  <2>2. CASE w[l].state = "waiting"
    <3>1. wlookup' = [w EXCEPT ![l] = Finished(w[l], event, frees)]
      BY <1>5, <2>2
    <3>2. WideLookupOK(Finished(w[l], event, frees), dns, wcache')
      BY <1>6, <2>2
    <3> HIDE DEF WideIInv
    <3> QED
      BY <1>3, <1>4, <3>1, <3>2
  <2> QED
    BY <2>1, <2>2
<1> QED
  BY <1>1, <1>7 DEF WideIInv

LEMMA WideStep == WideIInv /\ [WideNext]_wideVars => WideIInv'
<1> SUFFICES ASSUME WideIInv, [WideNext]_wideVars PROVE WideIInv'
  OBVIOUS
<1> USE DEF WideIInv
<1>1. ASSUME NEW l \in WideLookup, sender_timeout_callback(l) PROVE WideIInv'
  BY <1>1, TimedOut
<1>2. ASSUME NEW l \in WideLookup, avahi_wide_area_lookup_new(l) PROVE WideIInv'
  <2> DEFINE a == dns[current + 1]
             w == [send_to_dns_server(NoWideLookup, dns, current) EXCEPT
                     !.state = "waiting", !.n_send = 1]
  <2>1. /\ dns # <<>> /\ wcache = {} /\ UNCHANGED <<dns, current, wcache>>
        /\ wlookup' = [wlookup EXCEPT ![l] = w]
    BY <1>2 DEF avahi_wide_area_lookup_new
  <2>2. dns \in Seq(Server) /\ current + 1 \in 1..Len(dns)
    <3>1. dns \in Seq(Server)
      BY <2>1, WideAssumption
    <3> QED
      BY <2>1, <3>1
  <2>3. a \in Server
    BY <2>2
  <2>4. /\ w.state = "waiting" /\ w.n_send = 1 /\ w.asked = {a} /\ w.used = a
        /\ w.steady = TRUE /\ w.told = {} /\ w.final = "none" /\ w.finals = 0
        /\ DOMAIN w = DOMAIN NoWideLookup
    BY <2>1 DEF send_to_dns_server, NoWideLookup
  <2>5. w \in WideLookupType
    <3>1. 1 \in 0..MaxSends /\ 0 \in 0..2 /\ {} \cup {a} \in SUBSET Server
      BY <2>3, WideAssumption
    <3>2. NoWideLookup \in WideLookupType
      BY NoWideLookupOK DEF WideLookupOK
    <3>3. NoWideLookup.asked \cup {a} \in SUBSET Server
      BY <2>3, <3>2 DEF WideLookupType
    <3>4. send_to_dns_server(NoWideLookup, dns, current) \in WideLookupType
      BY <2>1, <2>3, <3>2, <3>3 DEF send_to_dns_server, WideLookupType
    <3> QED
      BY <3>1, <3>4 DEF WideLookupType
  <2> HIDE DEF w
  <2>6. WideLookupOK(w, dns, wcache)
    <3>1. IsFiniteSet({a})
      BY FS_Singleton
    <3>2. ~(w.n_send > Retries)
      BY <2>4, WideAssumption
    <3> QED
      BY <2>1, <2>4, <2>5, <3>1, <3>2 DEF WideLookupOK, Asking, Ended, GaveUp
  <2> QED
    BY <2>1, <2>6, OneLookup
<1>3. ASSUME NEW l \in WideLookup, avahi_wide_area_lookup_free(l) PROVE WideIInv'
  BY <1>3, NoWideLookupOK, OneLookup DEF avahi_wide_area_lookup_free
<1>4. ASSUME NEW l \in WideLookup, NEW rs \in SUBSET WideRecord, NEW event \in FinalEvents(rs),
             handle_packet(l, rs, event)
      PROVE  WideIInv'
  BY <1>4, Answered
<1>5. ASSUME avahi_wide_area_cleanup PROVE WideIInv'
  <2>1. \A l \in WideLookup : WideLookupOK(wlookup'[l], dns, wcache)
    BY <1>5, NoWideLookupOK DEF avahi_wide_area_cleanup
  <2>2. DOMAIN wlookup' = WideLookup /\ wlookup' = [m \in WideLookup |-> wlookup'[m]]
    BY <1>5 DEF avahi_wide_area_cleanup
  <2> QED
    BY <1>5, <2>1, <2>2 DEF avahi_wide_area_cleanup
<1>6. ASSUME NEW rec \in WideRecord, expiry_event(rec) PROVE WideIInv'
  <2>1. wcache' = wcache \ {rec} /\ UNCHANGED <<dns, current, wlookup>>
    BY <1>6 DEF expiry_event
  <2>2. Cardinality(wcache') <= CacheMax
    <3>1. IsFiniteSet(wcache)
      BY WideAssumption, FS_Subset
    <3>2. /\ Cardinality(wcache \ {rec}) <= Cardinality(wcache)
          /\ Cardinality(wcache \ {rec}) \in Nat /\ Cardinality(wcache) \in Nat
      BY <3>1, FS_Subset, FS_CardinalityType
    <3> QED
      BY <2>1, <3>2, WideAssumption
  <2>3. \A l \in WideLookup : WideLookupOK(wlookup[l], dns, wcache')
    BY <2>1 DEF WideLookupOK
  <2> QED
    BY <2>1, <2>2, <2>3
<1>7. ASSUME NEW s \in ServerLists, avahi_wide_area_set_servers(s) PROVE WideIInv'
  <2>1. /\ dns' = s /\ current' = 0 /\ wcache' = {}
        /\ wlookup' = [l \in WideLookup |-> IF wlookup[l].state = "free" THEN wlookup[l]
                                            ELSE [wlookup[l] EXCEPT !.steady = FALSE]]
    BY <1>7 DEF avahi_wide_area_set_servers
  <2>2. ASSUME NEW l \in WideLookup PROVE WideLookupOK(wlookup'[l], s, {})
    <3>1. wlookup[l] \in WideLookupType
      BY DEF WideLookupOK
    <3>2. CASE wlookup[l].state = "free"
      BY <2>1, <3>2 DEF WideLookupOK, Asking, Ended, GaveUp
    <3>3. CASE wlookup[l].state # "free"
      <4> DEFINE f == [wlookup[l] EXCEPT !.steady = FALSE]
      <4>1. f \in WideLookupType /\ f.steady = FALSE /\ f.state = wlookup[l].state
            /\ f.asked = wlookup[l].asked /\ f.final = wlookup[l].final
            /\ f.finals = wlookup[l].finals
        BY <3>1 DEF WideLookupType
      <4>2. wlookup'[l] = f
        BY <2>1, <3>3
      <4> HIDE DEF f
      <4>3. WideLookupOK(f, s, {})
        BY <4>1 DEF WideLookupOK, Asking, Ended, GaveUp
      <4> QED
        BY <4>2, <4>3
    <3> QED
      BY <3>2, <3>3
  <2>3. Cardinality(wcache') <= CacheMax
    BY <2>1, FS_EmptySet, WideAssumption
  <2>4. DOMAIN wlookup' = WideLookup /\ wlookup' = [m \in WideLookup |-> wlookup'[m]]
    BY <2>1
  <2> QED
    BY <2>1, <2>2, <2>3, <2>4
<1>8. CASE UNCHANGED wideVars
  BY <1>8 DEF wideVars
<1> QED
  BY <1>1, <1>2, <1>3, <1>4, <1>5, <1>6, <1>7, <1>8 DEF WideNext

\* A wide area lookup is served whatever happens to the others with which it shares the
\* engine, the cache and the current server: it is told of all that is cached, ends once,
\* and does not time out before a second server was asked, if there is one and none is
\* listed twice (sender_timeout_callback, handle_packet, run_callbacks).
THEOREM LookupsAreServed == WideSpec => []WideInv
BY WideStart, WideStep, WideImplies, PTL DEF WideSpec

-----------------------------------------------------------------------------
(* Host names.                                                             *)

\* The record held is on the interface the resolver is fixed to.  If it was reported after
\* the last failure, it is in the cache and the browser that found it runs, so that its
\* removal is noticed.
HostSound(h) ==
  /\ h \in HostType
  /\ IsFiniteSet(h.cached)
  /\ h.dead => /\ h.browsers = NoBrowsers /\ ~h.time_event
               /\ h.address_record = NoAddressRecord
  /\ h.address_record # NoAddressRecord => h.address_record.link = h.interface
  /\ h.address_record # NoAddressRecord /\ h.told = "FOUND" =>
       h.address_record \in h.cached /\ HostReports(h, h.address_record)
  /\ h.dead \/ h.address_record # NoAddressRecord \/ h.time_event \/ h.told = "FAILURE"

LEMMA HostImplies == HostSound(host) => HostResolverInv
BY DEF HostSound, HostResolverInv, HostTypeOK, HeldAddressIsCached, HostNotStranded

\* Freeing the resolver
LEMMA HostFreed ==
  ASSUME NEW h, h \in HostType, IsFiniteSet(h.cached)
  PROVE  /\ HostSound(avahi_s_host_name_resolver_free(h))
         /\ avahi_s_host_name_resolver_free(h).dead
         /\ avahi_s_host_name_resolver_free(h).cached = h.cached
<1> DEFINE f == avahi_s_host_name_resolver_free(h)
<1>1. NoBrowsers \in [AddressType -> {"none", "defer", "run"}]
  BY DEF NoBrowsers
<1>2. /\ f \in HostType /\ f.dead /\ f.cached = h.cached /\ f.browsers = NoBrowsers
      /\ ~f.time_event /\ f.address_record = NoAddressRecord
  BY <1>1 DEF avahi_s_host_name_resolver_free, HostType
<1> HIDE DEF f
<1>3. HostSound(f)
  BY <1>2 DEF HostSound
<1> QED
  BY <1>2, <1>3 DEF f

\* Telling the client
LEMMA HostFinished ==
  ASSUME NEW h, h \in HostType, IsFiniteSet(h.cached), ~h.dead,
         NEW event \in {"FOUND", "FAILURE"},
         h.address_record # NoAddressRecord => h.address_record.link = h.interface,
         event = "FOUND" => /\ h.address_record # NoAddressRecord
                            /\ h.address_record \in h.cached
                            /\ HostReports(h, h.address_record)
  PROVE  /\ HostSound(host_finish(h, event))
         /\ host_finish(h, event).cached = h.cached
         /\ \/ host_finish(h, event).dead
            \/ /\ host_finish(h, event).browsers = h.browsers
               /\ host_finish(h, event).asked = h.asked
<1> DEFINE f == [h EXCEPT !.time_event = FALSE, !.told = event]
<1>1. /\ f \in HostType /\ f.told = event /\ ~f.dead /\ f.cached = h.cached
      /\ f.address_record = h.address_record /\ f.interface = h.interface
      /\ f.browsers = h.browsers /\ f.asked = h.asked /\ f.frees = h.frees
  BY DEF HostType
<1>2. host_finish(h, event) = IF h.frees = event THEN avahi_s_host_name_resolver_free(f) ELSE f
  BY DEF host_finish
<1> HIDE DEF f
<1>3. CASE h.frees = event
  BY <1>1, <1>2, <1>3, HostFreed
<1>4. CASE h.frees # event
  <2>1. HostSound(f)
    BY <1>1 DEF HostSound, HostReports
  <2> QED
    BY <1>1, <1>2, <1>4, <2>1
<1> QED
  BY <1>3, <1>4

\* A record appears
LEMMA HostNewSound ==
  ASSUME NEW h, NEW rec \in AddressRecord, HostSound(h),
         h.dead \/ (rec \in h.cached /\ HostReports(h, rec))
  PROVE  /\ HostSound(host_new(h, rec))
         /\ host_new(h, rec).cached = h.cached
         /\ \/ host_new(h, rec).dead
            \/ /\ host_new(h, rec).browsers = h.browsers
               /\ host_new(h, rec).asked = h.asked
<1> DEFINE fixed == [h EXCEPT !.interface = rec.link]
           held == [fixed EXCEPT !.address_record = rec]
<1>1. h \in HostType /\ rec.link \in HostLink
  BY DEF HostSound, AddressRecord
<1>2. /\ fixed \in HostType /\ fixed.cached = h.cached /\ fixed.dead = h.dead
      /\ fixed.interface = rec.link
      /\ fixed.address_record = h.address_record /\ fixed.browsers = h.browsers
      /\ fixed.asked = h.asked /\ fixed.told = h.told /\ fixed.time_event = h.time_event
  BY <1>1 DEF HostType
<1>3. /\ held \in HostType /\ held.cached = h.cached /\ held.dead = h.dead
      /\ held.interface = rec.link
      /\ held.address_record = rec /\ held.browsers = h.browsers /\ held.asked = h.asked
  BY <1>1, <1>2 DEF HostType
<1>4. host_new(h, rec) = IF h.dead \/ h.interface \notin {"any", rec.link} THEN h
                         ELSE IF h.address_record # NoAddressRecord THEN fixed
                         ELSE host_finish(held, "FOUND")
  BY DEF host_new
<1> HIDE DEF fixed, held
<1>5. CASE h.dead \/ h.interface \notin {"any", rec.link}
  BY <1>4, <1>5
<1>6. CASE ~(h.dead \/ h.interface \notin {"any", rec.link}) /\ h.address_record # NoAddressRecord
  <2>1. h.interface = rec.link
    <3>1. h.address_record.link = h.interface /\ h.address_record \in AddressRecord
      BY <1>1, <1>6 DEF HostSound, HostType
    <3> QED
      BY <1>6, <3>1, HostAssumption DEF AddressRecord
  <2>2. HostSound(fixed)
    BY <1>2, <1>6, <2>1 DEF HostSound, HostReports
  <2> QED
    BY <1>2, <1>4, <1>6, <2>2
<1>7. CASE ~(h.dead \/ h.interface \notin {"any", rec.link}) /\ h.address_record = NoAddressRecord
  <2>1. rec # NoAddressRecord
    BY DEF AddressRecord, NoAddressRecord, AddressType
  <2>2. HostReports(held, rec) /\ rec \in held.cached /\ IsFiniteSet(held.cached)
    BY <1>3, <1>7 DEF HostSound, HostReports
  <2>3. /\ HostSound(host_finish(held, "FOUND"))
        /\ host_finish(held, "FOUND").cached = held.cached
        /\ \/ host_finish(held, "FOUND").dead
           \/ /\ host_finish(held, "FOUND").browsers = held.browsers
              /\ host_finish(held, "FOUND").asked = held.asked
    BY <1>3, <1>7, <2>1, <2>2, HostFinished
  <2> QED
    BY <1>3, <1>4, <1>7, <2>3
<1> QED
  BY <1>5, <1>6, <1>7

\* A record disappears
LEMMA HostRemoveSound ==
  ASSUME NEW h, NEW rec \in AddressRecord, h \in HostType, IsFiniteSet(h.cached),
         NEW g, HostSound(g), h = [g EXCEPT !.cached = @ \ {rec}], HostReports(g, rec)
  PROVE  HostSound(host_remove(h, rec))
<1>1. g \in HostType
  BY DEF HostSound
<1>2. /\ h.dead = g.dead /\ h.address_record = g.address_record /\ h.told = g.told
      /\ h.browsers = g.browsers /\ h.time_event = g.time_event /\ h.asked = g.asked
      /\ h.interface = g.interface /\ h.cached = g.cached \ {rec}
  BY <1>1 DEF HostType
<1>3. CASE h.dead \/ ~HoldsAddress(h, rec)
  <2>1. g.address_record # NoAddressRecord => g.address_record # rec
    BY <1>2, <1>3 DEF HoldsAddress, HostSound, NoAddressRecord
  <2>2. HostSound(h)
    BY <1>2, <2>1 DEF HostSound, HostReports
  <2> QED
    BY <1>3, <2>2 DEF host_remove
<1>4. CASE ~(h.dead \/ ~HoldsAddress(h, rec))
  <2> DEFINE f == [h EXCEPT !.address_record = NoAddressRecord, !.time_event = TRUE,
                            !.browsers = HostBrowsersRestarted(h)]
  <2>1. HostBrowsersRestarted(h) \in [AddressType -> {"none", "defer", "run"}]
    BY DEF HostBrowsersRestarted
  <2>2. /\ f \in HostType /\ f.address_record = NoAddressRecord /\ f.time_event
        /\ f.cached = h.cached /\ f.dead = h.dead
    BY <2>1 DEF HostType
  <2> HIDE DEF f
  <2>3. HostSound(f)
    BY <1>4, <2>2 DEF HostSound
  <2> QED
    BY <1>4, <2>3 DEF host_remove, f
<1> QED
  BY <1>3, <1>4

\* One record of a scan; nothing else (p) matters.
HostStepOver(p, h, rec) == host_new(h, rec)

HostScanning == INSTANCE FoldProofs WITH Op <- HostStepOver

\* A browser scans the caches.
LEMMA HostScanSound ==
  ASSUME NEW h, HostSound(h), NEW S, NEW order \in SetToSeqs(S), IsFiniteSet(S),
         S \subseteq AddressRecord,
         \A rec \in S : rec \in h.cached /\ HostReports(h, rec)
  PROVE  HostSound(FoldLeft(host_new, h, order))
<1> DEFINE n == Cardinality(S)
           G == {f \in HostType : /\ HostSound(f) /\ f.cached = h.cached
                                  /\ f.dead \/ (f.browsers = h.browsers /\ f.asked = h.asked)}
<1>1. n \in Nat /\ DOMAIN order = 1..n /\ \A i \in 1..n : order[i] \in S
  BY FS_CardinalityType DEF SetToSeqs
<1>2. h \in G
  BY DEF HostSound
<1>3. ASSUME NEW f \in G, NEW i \in 1..n PROVE HostStepOver(0, f, order[i]) \in G
  <2> PICK rec \in S : rec = order[i]
    BY <1>1
  <2>1. rec \in AddressRecord /\ HostSound(f)
    OBVIOUS
  <2>2. f.dead \/ (rec \in f.cached /\ HostReports(f, rec))
    BY DEF HostReports
  <2>3. PICK e : e = host_new(f, rec)
    OBVIOUS
  <2>4. /\ HostSound(e) /\ e.cached = f.cached
        /\ e.dead \/ (e.browsers = f.browsers /\ e.asked = f.asked)
    BY <2>1, <2>2, <2>3, HostNewSound
  <2>5. f.dead => e = f
    BY <2>3 DEF host_new
  <2>6. e \in G
    BY <2>4, <2>5 DEF HostSound
  <2> QED
    BY <2>3, <2>6 DEF HostStepOver
<1> HIDE DEF n, G
<1>4. HostScanning!Folded(0, h, order) \in G
  BY <1>1, <1>2, <1>3, HostScanning!FoldKeeps
<1>5. FoldLeft(host_new, h, order) \in G
  BY <1>4 DEF HostStepOver, FoldLeft, MapThenFoldSet, Max, HostScanning!Folded,
              HostScanning!FoldLeft, HostScanning!MapThenFoldSet, HostScanning!Max
<1> QED
  BY <1>5 DEF G

LEMMA HostStart == HostInit => HostSound(host)
<1> SUFFICES ASSUME HostInit PROVE HostSound(host)
  OBVIOUS
<1>1. PICK types \in SUBSET AddressType, link \in HostLink \cup {"any"},
           frees \in {"never", "FOUND", "FAILURE"} : host = NewHostResolver(types, link, frees)
  BY DEF HostInit
<1>2. IsFiniteSet({})
  BY FS_EmptySet
<1>3. [t \in AddressType |-> IF t \in types THEN "defer" ELSE "none"]
         \in [AddressType -> {"none", "defer", "run"}]
  OBVIOUS
<1> QED
  BY <1>1, <1>2, <1>3 DEF NewHostResolver, HostSound, HostType

LEMMA HostStep == HostSound(host) /\ [HostNext]_hostVars => HostSound(host)'
<1> SUFFICES ASSUME HostSound(host), [HostNext]_hostVars PROVE HostSound(host')
  BY DEF HostSound, HostReports
<1>0. host \in HostType /\ IsFiniteSet(host.cached)
  BY DEF HostSound
<1>1. ASSUME NEW t \in AddressType, HostScan(t) PROVE HostSound(host')
  <2> PICK running : running = [host EXCEPT !.browsers[t] = "run"]
    OBVIOUS
  <2> PICK S : S = {rec \in host.cached : rec.type = t /\ HostReports(running, rec)}
    OBVIOUS
  <2>1. PICK order \in SetToSeqs(S) : host' = FoldLeft(host_new, running, order)
    BY <1>1 DEF HostScan
  <2>2. host.browsers[t] = "defer" /\ ~host.dead
    BY <1>1 DEF HostScan, HostSound, NoBrowsers
  <2>3. /\ running \in HostType /\ running.cached = host.cached /\ running.dead = host.dead
        /\ running.browsers = [host.browsers EXCEPT ![t] = "run"]
        /\ running.time_event = host.time_event /\ running.told = host.told
        /\ running.address_record = host.address_record /\ running.asked = host.asked
        /\ running.interface = host.interface
    BY <1>0 DEF HostType
  <2>4. ASSUME NEW rec, HostReports(host, rec) PROVE HostReports(running, rec)
    BY <1>0, <2>2, <2>3, <2>4 DEF HostReports, HostType
  <2>5. HostSound(running)
    BY <1>0, <2>2, <2>3, <2>4 DEF HostSound
  <2>6. IsFiniteSet(S) /\ S \subseteq AddressRecord
    <3>1. S \subseteq host.cached /\ host.cached \subseteq AddressRecord
      BY <1>0 DEF HostType
    <3> QED
      BY <1>0, <3>1, FS_Subset
  <2>7. \A rec \in S : rec \in running.cached /\ HostReports(running, rec)
    BY <2>3
  <2> QED
    BY <2>1, <2>5, <2>6, <2>7, HostScanSound
<1>2. ASSUME NEW t \in AddressType, HostBrowserFails(t) PROVE HostSound(host')
  <2> DEFINE h == [host EXCEPT !.browsers = NoBrowsers]
  <2>1. NoBrowsers \in [AddressType -> {"none", "defer", "run"}]
    BY DEF NoBrowsers
  <2>2. /\ h \in HostType /\ h.cached = host.cached /\ h.dead = host.dead
        /\ h.address_record = host.address_record /\ h.interface = host.interface
    BY <1>0, <2>1 DEF HostType
  <2>3. host' = host_finish(h, "FAILURE") /\ ~host.dead
    BY <1>2 DEF HostBrowserFails, HostSound, NoBrowsers
  <2> HIDE DEF h
  <2> QED
    BY <1>0, <2>2, <2>3, HostFinished DEF HostSound
<1>3. ASSUME NEW rec \in AddressRecord, HostCacheNew(rec) PROVE HostSound(host')
  <2> DEFINE h == [host EXCEPT !.cached = @ \cup {rec}]
  <2>1. host' = IF HostReports(host, rec) THEN host_new(h, rec) ELSE h
    BY <1>3 DEF HostCacheNew
  <2>2. /\ h \in HostType /\ h.cached = host.cached \cup {rec} /\ h.dead = host.dead
        /\ h.browsers = host.browsers
        /\ h.time_event = host.time_event /\ h.told = host.told
        /\ h.address_record = host.address_record /\ h.asked = host.asked
        /\ h.interface = host.interface
    BY <1>0 DEF HostType
  <2> HIDE DEF h
  <2>3. HostSound(h)
    BY <1>0, <2>2, FS_AddElement DEF HostSound, HostReports
  <2>4. HostReports(host, rec) => HostReports(h, rec) /\ rec \in h.cached
    BY <2>2 DEF HostReports
  <2> QED
    BY <2>1, <2>3, <2>4, HostNewSound
<1>4. ASSUME NEW rec \in AddressRecord, HostCacheRemove(rec) PROVE HostSound(host')
  <2> DEFINE h == [host EXCEPT !.cached = @ \ {rec}]
  <2>1. host' = IF HostReports(host, rec) THEN host_remove(h, rec) ELSE h
    BY <1>4 DEF HostCacheRemove
  <2>2. /\ h \in HostType /\ h.cached = host.cached \ {rec} /\ h.dead = host.dead
        /\ h.browsers = host.browsers
        /\ h.time_event = host.time_event /\ h.told = host.told
        /\ h.address_record = host.address_record /\ h.asked = host.asked
        /\ h.interface = host.interface
    BY <1>0 DEF HostType
  <2>3. IsFiniteSet(h.cached)
    BY <1>0, <2>2, FS_Subset
  <2>4. CASE HostReports(host, rec)
    BY <1>0, <2>1, <2>2, <2>3, <2>4, HostRemoveSound
  <2>5. CASE ~HostReports(host, rec)
    <3> HIDE DEF h
    <3>1. HostSound(h)
      BY <2>2, <2>3, <2>5 DEF HostSound, HostReports
    <3> QED
      BY <2>1, <2>5, <3>1
  <2> QED
    BY <2>4, <2>5
<1>5. CASE HostTimeout
  <2>1. host' = host_finish(host, "FAILURE") /\ ~host.dead
    BY <1>5 DEF HostTimeout, HostSound
  <2> QED
    BY <1>0, <2>1, HostFinished DEF HostSound
<1>6. CASE HostFree
  BY <1>0, <1>6, HostFreed DEF HostFree
<1>7. CASE UNCHANGED hostVars
  BY <1>7 DEF hostVars
<1> QED
  BY <1>1, <1>2, <1>3, <1>4, <1>5, <1>6, <1>7 DEF HostNext

\* The client of a host name resolver has an address that is still in the cache of the
\* resolver's interface, or was told of a failure, or the timeout runs, however the records
\* of all interfaces come and go and the browsers are restarted (record_browser_callback,
\* start_timeout, finish).
THEOREM HostClientIsAnswered == HostSpec => []HostResolverInv
BY HostStart, HostStep, HostImplies, PTL DEF HostSpec

-----------------------------------------------------------------------------
(* Names of addresses.                                                     *)

AnyName == [name : HostName, link : {"any"}]

\* A multicast browser that runs hears of the removal of record rec.
Hears(a, rec) == Multicast(a) /\ a.asked \in {"any", rec.link}

\* The name that was given last is one of unicast DNS, which is never removed, or is in the
\* cache and its removal is noticed.
NameGood(a) ==
  a.ptr_record \in AnyName \/ (a.ptr_record \in a.cached /\ Hears(a, a.ptr_record))

\* Only a browser that never tried multicast has the other try before it.
TriesLeft(a) ==
  /\ a.retry_with_multicast => a.over = "wide area"
  /\ a.retry_with_multicast \/ a.over = "multicast" \/ a.flags = "wide area"
  /\ a.told = "FAILURE" => a.over = "multicast" \/ a.flags = "wide area"

AddrSound(a) ==
  /\ a \in AddrType
  /\ IsFiniteSet(a.cached)
  /\ a.dead => a.browser = "none" /\ ~a.time_event
  /\ TriesLeft(a)
  /\ a.dead \/ NameGood(a) \/ a.time_event \/ a.told \in {"FAILURE", "TIMEOUT"}

LEMMA AddrImplies == AddrSound(addr) => AddrResolverInv
BY DEF AddrSound, TriesLeft, NameGood, AnyName, AddrResolverInv, AddrTypeOK, FailsAfterMulticast,
       AddrNotStranded

\* Telling the client
LEMMA AddrFinished ==
  ASSUME NEW a, a \in AddrType, IsFiniteSet(a.cached), ~a.dead, TriesLeft(a),
         NEW event \in {"FOUND", "FAILURE", "TIMEOUT"}, NEW frees \in BOOLEAN,
         event = "FOUND" => NameGood(a),
         event = "FAILURE" => a.over = "multicast" \/ a.flags = "wide area"
  PROVE  /\ AddrSound(addr_finish(a, event, frees))
         /\ addr_finish(a, event, frees).cached = a.cached
         /\ \/ addr_finish(a, event, frees).dead
            \/ /\ addr_finish(a, event, frees).browser = a.browser
               /\ addr_finish(a, event, frees).over = a.over
               /\ addr_finish(a, event, frees).asked = a.asked
<1> DEFINE f == addr_finish(a, event, frees)
<1>1. /\ f \in AddrType /\ ~f.time_event /\ f.told = event /\ f.cached = a.cached
      /\ f.over = a.over /\ f.flags = a.flags /\ f.asked = a.asked
      /\ f.retry_with_multicast = a.retry_with_multicast
  BY DEF addr_finish, AddrType
<1>2. IF frees THEN f.dead /\ f.browser = "none"
      ELSE ~f.dead /\ f.browser = a.browser /\ f.ptr_record = a.ptr_record
  BY DEF addr_finish, AddrType
<1> HIDE DEF f
<1>3. TriesLeft(f)
  BY <1>1 DEF TriesLeft
<1>4. f.dead \/ NameGood(f) \/ f.told \in {"FAILURE", "TIMEOUT"}
  BY <1>1, <1>2 DEF NameGood, Hears, Multicast
<1>5. AddrSound(f)
  BY <1>1, <1>2, <1>3, <1>4 DEF AddrSound
<1> QED
  BY <1>1, <1>2, <1>5 DEF f

\* A name is found
LEMMA AddrNewSound ==
  ASSUME NEW a, NEW rec \in PtrRecord, AddrSound(a), NEW frees \in BOOLEAN,
         a.dead \/ rec.link = "any" \/ (rec \in a.cached /\ Hears(a, rec))
  PROVE  /\ AddrSound(addr_new(a, rec, frees))
         /\ addr_new(a, rec, frees).cached = a.cached
         /\ \/ addr_new(a, rec, frees).dead
            \/ /\ addr_new(a, rec, frees).browser = a.browser
               /\ addr_new(a, rec, frees).over = a.over
               /\ addr_new(a, rec, frees).asked = a.asked
<1> DEFINE fixed == [a EXCEPT !.interface = rec.link]
           held == [fixed EXCEPT !.ptr_record = rec]
<1>1. a \in AddrType /\ rec.link \in PtrLink \cup {"any"} /\ IsFiniteSet(a.cached) /\ TriesLeft(a)
  BY DEF AddrSound, PtrRecord
<1>2. /\ fixed \in AddrType /\ fixed.cached = a.cached /\ fixed.dead = a.dead
      /\ fixed.ptr_record = a.ptr_record /\ fixed.browser = a.browser /\ fixed.over = a.over
      /\ fixed.asked = a.asked /\ fixed.told = a.told /\ fixed.time_event = a.time_event
      /\ fixed.flags = a.flags /\ fixed.retry_with_multicast = a.retry_with_multicast
  BY <1>1 DEF AddrType
<1>3. /\ held \in AddrType /\ held.cached = a.cached /\ held.dead = a.dead
      /\ held.ptr_record = rec /\ held.browser = a.browser /\ held.over = a.over
      /\ held.asked = a.asked /\ held.told = a.told
      /\ held.flags = a.flags /\ held.retry_with_multicast = a.retry_with_multicast
  BY <1>1, <1>2 DEF AddrType
<1>4. addr_new(a, rec, frees) = IF a.dead \/ a.interface \notin {"any", rec.link} THEN a
                                ELSE IF a.ptr_record # NoPtrRecord THEN fixed
                                ELSE addr_finish(held, "FOUND", frees)
  BY DEF addr_new
<1> HIDE DEF fixed, held
<1>5. CASE a.dead \/ a.interface \notin {"any", rec.link}
  BY <1>4, <1>5
<1>6. CASE ~(a.dead \/ a.interface \notin {"any", rec.link}) /\ a.ptr_record # NoPtrRecord
  <2>1. AddrSound(fixed)
    BY <1>2 DEF AddrSound, TriesLeft, NameGood, Hears, Multicast
  <2> QED
    BY <1>2, <1>4, <1>6, <2>1
<1>7. CASE ~(a.dead \/ a.interface \notin {"any", rec.link}) /\ a.ptr_record = NoPtrRecord
  <2>1. NameGood(held)
    BY <1>3, <1>7 DEF NameGood, Hears, Multicast, AnyName, PtrRecord
  <2>2. TriesLeft(held)
    BY <1>1, <1>3 DEF TriesLeft
  <2>3. /\ AddrSound(addr_finish(held, "FOUND", frees))
        /\ addr_finish(held, "FOUND", frees).cached = held.cached
        /\ \/ addr_finish(held, "FOUND", frees).dead
           \/ /\ addr_finish(held, "FOUND", frees).browser = held.browser
              /\ addr_finish(held, "FOUND", frees).over = held.over
              /\ addr_finish(held, "FOUND", frees).asked = held.asked
    BY <1>1, <1>3, <1>7, <2>1, <2>2, AddrFinished
  <2> QED
    BY <1>3, <1>4, <1>7, <2>3
<1> QED
  BY <1>5, <1>6, <1>7

\* A name disappears
LEMMA AddrRemoveSound ==
  ASSUME NEW a, NEW rec \in PtrRecord, a \in AddrType, IsFiniteSet(a.cached),
         NEW g, AddrSound(g), a = [g EXCEPT !.cached = @ \ {rec}]
  PROVE  AddrSound(addr_remove(a, rec))
<1>1. g \in AddrType
  BY DEF AddrSound
<1>2. /\ a.dead = g.dead /\ a.ptr_record = g.ptr_record /\ a.told = g.told
      /\ a.browser = g.browser /\ a.over = g.over /\ a.time_event = g.time_event
      /\ a.asked = g.asked /\ a.flags = g.flags
      /\ a.retry_with_multicast = g.retry_with_multicast /\ a.cached = g.cached \ {rec}
  BY <1>1 DEF AddrType
<1>3. TriesLeft(a)
  BY <1>2 DEF AddrSound, TriesLeft
<1>4. CASE a.dead \/ a.ptr_record.name # rec.name
  <2>1. NameGood(g) => a.dead \/ NameGood(a)
    BY <1>2, <1>4 DEF NameGood, Hears, Multicast
  <2>2. AddrSound(a)
    BY <1>2, <1>3, <2>1 DEF AddrSound
  <2> QED
    BY <1>4, <2>2 DEF addr_remove
<1>5. CASE ~(a.dead \/ a.ptr_record.name # rec.name)
  <2> DEFINE f == [a EXCEPT !.ptr_record = NoPtrRecord, !.time_event = TRUE, !.browser = "defer"]
  <2>1. /\ f \in AddrType /\ f.time_event /\ f.cached = a.cached /\ f.dead = a.dead
        /\ f.told = a.told /\ f.over = a.over /\ f.flags = a.flags
        /\ f.retry_with_multicast = a.retry_with_multicast
    BY DEF AddrType
  <2> HIDE DEF f
  <2>2. AddrSound(f)
    BY <1>3, <1>5, <2>1 DEF AddrSound, TriesLeft
  <2> QED
    BY <1>5, <2>2 DEF addr_remove, f
<1> QED
  BY <1>4, <1>5

\* The browser fails
LEMMA AddrFailureSound ==
  ASSUME NEW a, AddrSound(a), ~a.dead, NEW made \in BOOLEAN, NEW frees \in BOOLEAN
  PROVE  AddrSound(addr_failure(a, made, frees))
<1> DEFINE again == [a EXCEPT !.retry_with_multicast = FALSE, !.over = "multicast",
                              !.browser = IF made THEN "defer" ELSE "none"]
           timed == [again EXCEPT !.time_event = TRUE]
           failed == [a EXCEPT !.browser = "failed"]
<1>1. a \in AddrType /\ IsFiniteSet(a.cached) /\ TriesLeft(a)
  BY DEF AddrSound
<1>2. /\ again \in AddrType /\ again.cached = a.cached /\ ~again.dead
      /\ again.over = "multicast" /\ ~again.retry_with_multicast
  BY <1>1 DEF AddrType
<1> HIDE DEF again
<1>3. /\ timed \in AddrType /\ timed.cached = a.cached /\ ~timed.dead /\ timed.time_event
      /\ timed.over = "multicast" /\ ~timed.retry_with_multicast
  BY <1>1, <1>2 DEF AddrType
<1>4. /\ failed \in AddrType /\ failed.cached = a.cached /\ ~failed.dead
      /\ failed.over = a.over /\ failed.flags = a.flags /\ failed.told = a.told
      /\ failed.retry_with_multicast = a.retry_with_multicast
  BY <1>1 DEF AddrType
<1>5. addr_failure(a, made, frees) =
        IF a.retry_with_multicast
        THEN IF made THEN timed ELSE addr_finish(again, "FAILURE", frees)
        ELSE addr_finish(failed, "FAILURE", frees)
  BY DEF addr_failure, again
<1> HIDE DEF timed, failed
<1>6. TriesLeft(again) /\ TriesLeft(timed) /\ TriesLeft(failed)
  BY <1>1, <1>2, <1>3, <1>4 DEF TriesLeft
<1>7. AddrSound(timed)
  BY <1>1, <1>3, <1>6 DEF AddrSound
<1>8. AddrSound(addr_finish(again, "FAILURE", frees))
  BY <1>1, <1>2, <1>6, AddrFinished
<1>9. ~a.retry_with_multicast => AddrSound(addr_finish(failed, "FAILURE", frees))
  <2> SUFFICES ASSUME ~a.retry_with_multicast
               PROVE  AddrSound(addr_finish(failed, "FAILURE", frees))
    OBVIOUS
  <2>1. failed.over = "multicast" \/ failed.flags = "wide area"
    BY <1>1, <1>4 DEF TriesLeft
  <2> QED
    BY <1>1, <1>4, <1>6, <2>1, AddrFinished
<1> QED
  BY <1>5, <1>7, <1>8, <1>9

\* One record of a scan, for a client that frees the resolver in its callback or not.
AddrStepOver(frees, a, rec) == addr_new(a, rec, frees)

AddrScanning == INSTANCE FoldProofs WITH Op <- AddrStepOver

LEMMA AddrScanSound ==
  ASSUME NEW a, AddrSound(a), NEW frees \in BOOLEAN, NEW S, NEW order \in SetToSeqs(S),
         IsFiniteSet(S), S \subseteq PtrRecord,
         \A rec \in S : rec \in a.cached /\ Hears(a, rec)
  PROVE  AddrSound(FoldLeft(LAMBDA b, rec : addr_new(b, rec, frees), a, order))
<1> DEFINE n == Cardinality(S)
           G == {f \in AddrType : /\ AddrSound(f) /\ f.cached = a.cached
                                  /\ f.dead \/ /\ f.browser = a.browser /\ f.over = a.over
                                               /\ f.asked = a.asked}
<1>1. n \in Nat /\ DOMAIN order = 1..n /\ \A i \in 1..n : order[i] \in S
  BY FS_CardinalityType DEF SetToSeqs
<1>2. a \in G
  BY DEF AddrSound
<1>3. ASSUME NEW f \in G, NEW i \in 1..n PROVE AddrStepOver(frees, f, order[i]) \in G
  <2> PICK rec \in S : rec = order[i]
    BY <1>1
  <2>1. rec \in PtrRecord /\ AddrSound(f)
    OBVIOUS
  <2>2. f.dead \/ (rec \in f.cached /\ Hears(f, rec))
    BY DEF Hears, Multicast
  <2>3. PICK e : e = addr_new(f, rec, frees)
    OBVIOUS
  <2>4. /\ AddrSound(e) /\ e.cached = f.cached
        /\ e.dead \/ (e.browser = f.browser /\ e.over = f.over /\ e.asked = f.asked)
    BY <2>1, <2>2, <2>3, AddrNewSound
  <2>5. f.dead => e = f
    BY <2>3 DEF addr_new
  <2>6. e \in G
    BY <2>4, <2>5 DEF AddrSound
  <2> QED
    BY <2>3, <2>6 DEF AddrStepOver
<1> HIDE DEF n, G
<1>4. AddrScanning!Folded(frees, a, order) \in G
  BY <1>1, <1>2, <1>3, AddrScanning!FoldKeeps
<1>5. FoldLeft(LAMBDA b, rec : addr_new(b, rec, frees), a, order) \in G
  BY <1>4 DEF AddrStepOver, FoldLeft, MapThenFoldSet, Max, AddrScanning!Folded,
              AddrScanning!FoldLeft, AddrScanning!MapThenFoldSet, AddrScanning!Max
<1> QED
  BY <1>5 DEF G

LEMMA AddrStart == AddrInit => AddrSound(addr)
<1> SUFFICES ASSUME AddrInit PROVE AddrSound(addr)
  OBVIOUS
<1>1. PICK flags \in {"none", "wide area", "multicast"}, servers \in BOOLEAN,
           link \in PtrLink \cup {"any"} : addr = NewAddressResolver(flags, servers, link)
  BY DEF AddrInit
<1>2. IsFiniteSet({})
  BY FS_EmptySet
<1> QED
  BY <1>1, <1>2 DEF NewAddressResolver, AddrSound, AddrType, TriesLeft

LEMMA AddrStep == AddrSound(addr) /\ [AddrNext]_addrVars => AddrSound(addr)'
<1> SUFFICES ASSUME AddrSound(addr), [AddrNext]_addrVars PROVE AddrSound(addr')
  BY DEF AddrSound, TriesLeft, NameGood, Hears, Multicast
<1>0. addr \in AddrType /\ IsFiniteSet(addr.cached) /\ TriesLeft(addr)
  BY DEF AddrSound
<1>1. ASSUME NEW frees \in BOOLEAN, AddrScan(frees) PROVE AddrSound(addr')
  <2> PICK running : running = [addr EXCEPT !.browser = "run"]
    OBVIOUS
  <2> PICK S : S = {rec \in addr.cached : Multicast(running) /\ addr.asked \in {"any", rec.link}}
    OBVIOUS
  <2>1. PICK order \in SetToSeqs(S) :
          addr' = FoldLeft(LAMBDA a, rec : addr_new(a, rec, frees), running, order)
    BY <1>1 DEF AddrScan
  <2>2. addr.browser = "defer" /\ ~addr.dead
    BY <1>1 DEF AddrScan, AddrSound
  <2>3. /\ running \in AddrType /\ running.cached = addr.cached /\ running.dead = addr.dead
        /\ running.time_event = addr.time_event /\ running.told = addr.told
        /\ running.ptr_record = addr.ptr_record /\ running.asked = addr.asked
        /\ running.over = addr.over /\ running.flags = addr.flags
        /\ running.retry_with_multicast = addr.retry_with_multicast
    BY <1>0 DEF AddrType
  <2>4. NameGood(addr) => NameGood(running)
    BY <2>2, <2>3 DEF NameGood, Hears, Multicast
  <2>5. AddrSound(running)
    BY <1>0, <2>2, <2>3, <2>4 DEF AddrSound, TriesLeft
  <2>6. IsFiniteSet(S) /\ S \subseteq PtrRecord
    <3>1. S \subseteq addr.cached /\ addr.cached \subseteq PtrRecord
      BY <1>0 DEF AddrType
    <3> QED
      BY <1>0, <3>1, FS_Subset
  <2>7. \A rec \in S : rec \in running.cached /\ Hears(running, rec)
    BY <2>3 DEF Hears
  <2> QED
    BY <2>1, <2>5, <2>6, <2>7, AddrScanSound
<1>2. ASSUME NEW frees \in BOOLEAN, NEW made \in BOOLEAN, AddrBrowserFails(made, frees)
      PROVE  AddrSound(addr')
  BY <1>2, AddrFailureSound DEF AddrBrowserFails, AddrSound
<1>3. ASSUME NEW frees \in BOOLEAN, NEW name \in HostName, AddrAnswer(name, frees)
      PROVE  AddrSound(addr')
  <2> PICK rec : rec = [name |-> name, link |-> "any"]
    OBVIOUS
  <2>1. rec \in PtrRecord /\ rec.link = "any"
    BY DEF PtrRecord
  <2>2. addr' = addr_new(addr, rec, frees)
    BY <1>3 DEF AddrAnswer
  <2> QED
    BY <2>1, <2>2, AddrNewSound
<1>4. ASSUME NEW frees \in BOOLEAN, NEW rec \in PtrRecord, AddrCacheNew(rec, frees)
      PROVE  AddrSound(addr')
  <2> DEFINE a == [addr EXCEPT !.cached = @ \cup {rec}]
  <2>1. addr' = IF Hears(addr, rec) THEN addr_new(a, rec, frees) ELSE a
    BY <1>4 DEF AddrCacheNew, Hears
  <2>2. /\ a \in AddrType /\ a.cached = addr.cached \cup {rec} /\ a.dead = addr.dead
        /\ a.time_event = addr.time_event /\ a.told = addr.told /\ a.browser = addr.browser
        /\ a.ptr_record = addr.ptr_record /\ a.asked = addr.asked
        /\ a.over = addr.over /\ a.flags = addr.flags
        /\ a.retry_with_multicast = addr.retry_with_multicast
    BY <1>0 DEF AddrType
  <2> HIDE DEF a
  <2>3. IsFiniteSet(a.cached)
    BY <1>0, <2>2, FS_AddElement
  <2>4. AddrSound(a)
    BY <1>0, <2>2, <2>3 DEF AddrSound, TriesLeft, NameGood, Hears, Multicast
  <2>5. Hears(addr, rec) => rec \in a.cached /\ Hears(a, rec)
    BY <2>2 DEF Hears, Multicast
  <2> QED
    BY <2>1, <2>4, <2>5, AddrNewSound
<1>5. ASSUME NEW rec \in PtrRecord, AddrCacheRemove(rec) PROVE AddrSound(addr')
  <2> DEFINE a == [addr EXCEPT !.cached = @ \ {rec}]
  <2>1. addr' = IF Hears(addr, rec) THEN addr_remove(a, rec) ELSE a
    BY <1>5 DEF AddrCacheRemove, Hears
  <2>2. /\ a \in AddrType /\ a.cached = addr.cached \ {rec} /\ a.dead = addr.dead
        /\ a.time_event = addr.time_event /\ a.told = addr.told /\ a.browser = addr.browser
        /\ a.ptr_record = addr.ptr_record /\ a.asked = addr.asked
        /\ a.over = addr.over /\ a.flags = addr.flags
        /\ a.retry_with_multicast = addr.retry_with_multicast
    BY <1>0 DEF AddrType
  <2>3. IsFiniteSet(a.cached)
    BY <1>0, <2>2, FS_Subset
  <2>4. CASE Hears(addr, rec)
    BY <1>0, <2>1, <2>2, <2>3, <2>4, AddrRemoveSound
  <2>5. CASE ~Hears(addr, rec)
    <3> HIDE DEF a
    <3>1. NameGood(addr) => NameGood(a)
      BY <2>2, <2>5 DEF NameGood, Hears, Multicast
    <3>2. AddrSound(a)
      BY <2>2, <2>3, <3>1 DEF AddrSound, TriesLeft
    <3> QED
      BY <2>1, <2>5, <3>2
  <2> QED
    BY <2>4, <2>5
<1>6. ASSUME NEW frees \in BOOLEAN, AddrTimeout(frees) PROVE AddrSound(addr')
  <2>1. addr' = addr_finish(addr, "TIMEOUT", frees) /\ ~addr.dead
    BY <1>6 DEF AddrTimeout, AddrSound
  <2> QED
    BY <1>0, <2>1, AddrFinished
<1>7. CASE UNCHANGED addrVars
  BY <1>7 DEF addrVars
<1> QED
  BY <1>1, <1>2, <1>3, <1>4, <1>5, <1>6, <1>7 DEF AddrNext

\* The client of an address resolver has a name that is still good, or is told of a failure
\* after both ways of asking were tried, or the timeout runs (record_browser_callback,
\* start_timeout, finish).
THEOREM AddrClientIsAnswered == AddrSpec => []AddrResolverInv
BY AddrStart, AddrStep, AddrImplies, PTL DEF AddrSpec

-----------------------------------------------------------------------------
(* DNS servers.                                                            *)

Taken(info) == {s \in Srv : info[s] # "none"}

DnsSound(b) ==
  /\ b \in DnsType
  /\ b.told \subseteq b.cached
  /\ Taken(b.info) \subseteq b.cached
  /\ ~b.full => b.cached \subseteq Taken(b.info)
  /\ IsFiniteSet(Taken(b.info)) /\ Cardinality(Taken(b.info)) <= MaxInfo

LEMMA DnsStart == DnsInit => DnsSound(dnsb)
<1> SUFFICES ASSUME DnsInit PROVE DnsSound(dnsb)
  OBVIOUS
<1>1. Taken(dnsb.info) = {}
  BY DEF DnsInit, Taken
<1>2. Cardinality({}) = 0 /\ IsFiniteSet({})
  BY FS_EmptySet
<1>3. IsFiniteSet(Taken(dnsb.info)) /\ Cardinality(Taken(dnsb.info)) <= MaxInfo
  BY <1>1, <1>2, ClientAssumption
<1>4. /\ dnsb \in DnsType /\ dnsb.told = {} /\ dnsb.cached = {}
  BY DEF DnsInit, DnsType
<1> QED
  BY <1>1, <1>3, <1>4 DEF DnsSound

LEMMA DnsStep ==
  ASSUME DnsSound(dnsb), NEW s \in Srv, NEW found \in BOOLEAN,
         DnsNew(s) \/ DnsRemove(s) \/ DnsResolved(s, found)
  PROVE  DnsSound(dnsb')
<1>0. dnsb \in DnsType /\ IsFiniteSet(Taken(dnsb.info)) /\ Cardinality(Taken(dnsb.info)) \in Nat
  BY FS_CardinalityType DEF DnsSound
<1>1. CASE DnsNew(s) /\ n_info >= MaxInfo
  BY <1>0, <1>1 DEF DnsNew, DnsSound, DnsType, Taken
<1>2. CASE DnsNew(s) /\ ~(n_info >= MaxInfo)
  <2>1. /\ dnsb' \in DnsType /\ dnsb'.cached = dnsb.cached \cup {s} /\ dnsb'.told = dnsb.told
        /\ dnsb'.full = dnsb.full /\ dnsb'.info = [dnsb.info EXCEPT ![s] = "resolving"]
    BY <1>0, <1>2 DEF DnsNew, DnsType
  <2>2. Taken(dnsb'.info) = Taken(dnsb.info) \cup {s}
    BY <1>0, <2>1 DEF Taken, DnsType
  <2>3. s \notin Taken(dnsb.info)
    BY <1>2 DEF DnsNew, DnsSound
  <2>4. /\ IsFiniteSet(Taken(dnsb'.info))
        /\ Cardinality(Taken(dnsb'.info)) = Cardinality(Taken(dnsb.info)) + 1
    BY <1>0, <2>2, <2>3, FS_AddElement
  <2>5. Cardinality(Taken(dnsb'.info)) <= MaxInfo
    BY <1>0, <1>2, <2>4, ClientAssumption DEF n_info, Taken
  <2> QED
    BY <2>1, <2>2, <2>4, <2>5 DEF DnsSound
<1>3. CASE DnsRemove(s)
  <2>1. /\ dnsb' \in DnsType /\ dnsb'.cached = dnsb.cached \ {s} /\ dnsb'.told = dnsb.told \ {s}
        /\ dnsb'.full = dnsb.full /\ dnsb'.info = [dnsb.info EXCEPT ![s] = "none"]
    BY <1>0, <1>3 DEF DnsRemove, DnsType
  <2>2. Taken(dnsb'.info) = Taken(dnsb.info) \ {s}
    BY <1>0, <2>1 DEF Taken, DnsType
  <2>3. /\ IsFiniteSet(Taken(dnsb'.info)) /\ Cardinality(Taken(dnsb'.info)) \in Nat
        /\ Cardinality(Taken(dnsb'.info)) <= Cardinality(Taken(dnsb.info))
    BY <1>0, <2>2, FS_Subset, FS_CardinalityType
  <2>4. Cardinality(Taken(dnsb'.info)) <= MaxInfo
    BY <1>0, <2>3, ClientAssumption DEF DnsSound
  <2> QED
    BY <2>1, <2>2, <2>3, <2>4 DEF DnsSound
<1>4. CASE DnsResolved(s, found)
  <2>1. /\ dnsb' \in DnsType /\ dnsb'.cached = dnsb.cached
        /\ dnsb'.told \in {dnsb.told, dnsb.told \cup {s}} /\ dnsb'.full = dnsb.full
        /\ \/ dnsb'.info = [dnsb.info EXCEPT ![s] = "reported"]
           \/ dnsb'.info = [dnsb.info EXCEPT ![s] = "unresolved"]
    BY <1>0, <1>4 DEF DnsResolved, DnsType
  <2>2. s \in Taken(dnsb.info)
    BY <1>4 DEF DnsResolved, Taken
  <2>3. Taken(dnsb'.info) = Taken(dnsb.info)
    BY <1>0, <2>1, <2>2 DEF Taken, DnsType
  <2> QED
    BY <2>1, <2>2, <2>3 DEF DnsSound
<1> QED
  BY <1>1, <1>2, <1>3, <1>4

-----------------------------------------------------------------------------
(* Domains.                                                                *)

\* While nobody changes the configuration, what was reported of it stays reported.
KnownStay(b) == b.browse /\ ~b.changed => b.known \subseteq Static(b) /\ b.known \subseteq b.told

DomainSound(b) ==
  /\ b \in DomainType
  /\ b.ref \in {0, 1} /\ b.late = 0
  /\ b.ref = 0 \/ b.done => ~b.defer
  /\ b.ref > 0 => /\ KnownStay(b)
                  /\ b.browse /\ ~b.changed /\ ~b.defer => Static(b) \subseteq b.known

\* What a callback leaves alone, and the client that frees the browser in it
LEMMA DomainCalled ==
  ASSUME NEW b \in DomainType, b.ref > 0
  PROVE  LET f == DomainCallback(b)
         IN  /\ f \in DomainType /\ f.late = b.late /\ f.static = b.static
             /\ f.browse = b.browse /\ f.changed = b.changed /\ f.told = b.told
             /\ f.known = b.known /\ f.done = b.done
             /\ f.all_for_now_scheduled = b.all_for_now_scheduled
             /\ \/ f.ref = b.ref /\ f.defer = b.defer
                \/ f.ref = b.ref - 1 /\ (f.defer => b.defer) /\ (f.ref = 0 => ~f.defer)
<1> DEFINE c == [b EXCEPT !.frees = IF @ = 0 THEN 0 ELSE @ - 1,
                          !.late = IF b.ref = 0 THEN 1 ELSE @]
           f == DomainCallback(b)
<1>1. /\ b.frees \in 0..3 /\ b.ref \in 0..2
      /\ (IF b.frees = 0 THEN 0 ELSE b.frees - 1) \in 0..3 /\ b.ref # 0
  BY DEF DomainType
<1>2. /\ c \in DomainType /\ c.late = b.late /\ c.static = b.static
      /\ c.browse = b.browse /\ c.changed = b.changed /\ c.told = b.told
      /\ c.known = b.known /\ c.done = b.done
      /\ c.all_for_now_scheduled = b.all_for_now_scheduled
      /\ c.ref = b.ref /\ c.defer = b.defer
  BY <1>1 DEF DomainType
<1>3. f = IF b.frees = 1 THEN avahi_s_domain_browser_free(c) ELSE c
  BY DEF DomainCallback
<1> HIDE DEF c
<1> DEFINE e == avahi_s_domain_browser_free(c)
<1>4. c.ref - 1 \in 0..2 /\ (c.ref - 1 = 0 <=> c.ref = 1)
  BY <1>1, <1>2
<1>5. /\ e \in DomainType /\ e.late = b.late /\ e.static = b.static
      /\ e.browse = b.browse /\ e.changed = b.changed /\ e.told = b.told
      /\ e.known = b.known /\ e.done = b.done
      /\ e.all_for_now_scheduled = b.all_for_now_scheduled
      /\ e.ref = c.ref - 1 /\ e.defer = IF c.ref = 1 THEN FALSE ELSE c.defer
  BY <1>2, <1>4 DEF avahi_s_domain_browser_free, DomainType
<1> HIDE DEF e, f
<1>6. CASE b.frees = 1
  BY <1>2, <1>3, <1>4, <1>5, <1>6 DEF e, f
<1>7. CASE b.frees # 1
  BY <1>2, <1>3, <1>7 DEF f
<1> QED
  BY <1>6, <1>7

\* A callback outside of defer_callback
LEMMA DomainCalledSound ==
  ASSUME NEW b, DomainSound(b), b.ref > 0
  PROVE  DomainSound(DomainCallback(b))
<1> DEFINE f == DomainCallback(b)
<1>1. b \in DomainType /\ b.ref = 1
  BY DEF DomainSound
<1>2. /\ f \in DomainType /\ f.late = b.late /\ f.static = b.static
      /\ f.browse = b.browse /\ f.changed = b.changed /\ f.told = b.told
      /\ f.known = b.known /\ f.done = b.done
      /\ \/ f.ref = b.ref /\ f.defer = b.defer
         \/ f.ref = b.ref - 1 /\ (f.defer => b.defer) /\ (f.ref = 0 => ~f.defer)
  BY <1>1, DomainCalled
<1> HIDE DEF f
<1>3. \/ f.ref = 1 /\ f.defer = b.defer
      \/ f.ref = 0 /\ ~f.defer
  BY <1>1, <1>2
<1>4. DomainSound(f)
  BY <1>1, <1>2, <1>3 DEF DomainSound, KnownStay, Static
<1> QED
  BY <1>4 DEF f

\* In defer_callback, which holds the browser, after k configured domains
Reporting(b, k, list) ==
  /\ b \in DomainType
  /\ b.ref \in {1, 2} /\ b.late = 0 /\ ~b.defer /\ b.static = list
  /\ KnownStay(b)
  /\ b.ref = 2 => \A i \in 1..k : list[i] \in b.known

\* One configured domain; nothing else (p) matters.
DomainStepOver(p, b, n) == ReportStatic(b, n)

DomainReporting == INSTANCE FoldProofs WITH Op <- DomainStepOver

LEMMA OneMoreReported ==
  ASSUME NEW list \in Seq(Domain), NEW k \in 1..Len(list), NEW b, Reporting(b, k - 1, list)
  PROVE  Reporting(ReportStatic(b, list[k]), k, list)
<1> DEFINE n == list[k]
           a == [b EXCEPT !.told = @ \cup {n}, !.known = @ \cup {n}]
           f == DomainCallback(a)
<1>1. n \in Domain /\ n \in Range(list) /\ Len(list) \in Nat
  BY DEF Range
<1>2. CASE b.ref = 1
  <2>1. ReportStatic(b, n) = b
    BY <1>2 DEF ReportStatic
  <2> QED
    BY <1>2, <2>1 DEF Reporting
<1>3. CASE b.ref = 2
  <2>1. ReportStatic(b, n) = f
    BY <1>3 DEF ReportStatic
  <2>2. /\ a \in DomainType /\ a.late = 0 /\ a.static = list /\ a.ref = 2 /\ ~a.defer
        /\ a.browse = b.browse /\ a.changed = b.changed
        /\ a.told = b.told \cup {n} /\ a.known = b.known \cup {n}
    BY <1>1, <1>3 DEF Reporting, DomainType
  <2> HIDE DEF a
  <2>3. /\ f \in DomainType /\ f.late = a.late /\ f.static = a.static
        /\ f.browse = a.browse /\ f.changed = a.changed /\ f.told = a.told
        /\ f.known = a.known
        /\ \/ f.ref = a.ref /\ f.defer = a.defer
           \/ f.ref = a.ref - 1 /\ (f.defer => a.defer)
    BY <2>2, DomainCalled
  <2> HIDE DEF f
  <2>4. f.ref \in {1, 2} /\ ~f.defer
    BY <2>2, <2>3
  <2>5. KnownStay(f)
    BY <1>1, <2>2, <2>3 DEF Reporting, KnownStay, Static
  <2>6. \A i \in 1..k : i # k => i \in 1..(k - 1)
    BY <1>1
  <2>7. b.ref = 2 => \A i \in 1..k : list[i] \in f.known
    BY <2>2, <2>3, <2>6 DEF Reporting
  <2>8. Reporting(f, k, list)
    BY <1>3, <2>2, <2>3, <2>4, <2>5, <2>7 DEF Reporting
  <2> QED
    BY <2>1, <2>8
<1> QED
  BY <1>2, <1>3 DEF Reporting

\* The loop over the configured domains: if the client keeps the browser it knows them all.
LEMMA AllReported ==
  ASSUME NEW list \in Seq(Domain), NEW base, Reporting(base, 0, list)
  PROVE  Reporting(FoldLeft(ReportStatic, base, list), Len(list), list)
<1> DEFINE n == Len(list)
<1>1. n \in Nat /\ DOMAIN list = 1..n
  OBVIOUS
<1>2. PICK g : DomainReporting!Rounds(g, 0, n, base, list)
  BY <1>1, DomainReporting!FoldTrace
<1>3. /\ g[0] = base
      /\ \A k \in 1..n : g[k] = ReportStatic(g[k - 1], list[k])
      /\ FoldLeft(ReportStatic, base, list) = g[n]
  BY <1>2 DEF DomainReporting!Rounds, DomainStepOver, FoldLeft, MapThenFoldSet, Max,
              DomainReporting!Folded, DomainReporting!FoldLeft,
              DomainReporting!MapThenFoldSet, DomainReporting!Max
<1> DEFINE Bad == {k \in 0..n : ~Reporting(g[k], k, list)}
<1>4. Bad = {}
  <2> SUFFICES ASSUME Bad # {} PROVE FALSE
    OBVIOUS
  <2>1. Bad \in SUBSET Nat
    BY <1>1
  <2>2. PICK k \in Bad : \A m \in Bad : ~(m < k)
    BY <2>1, DomainReporting!LeastNat
  <2>3. k # 0
    BY <1>3
  <2>4. k \in 1..n /\ k - 1 \in 0..n /\ k - 1 < k
    BY <1>1, <2>3
  <2>5. Reporting(g[k - 1], k - 1, list)
    BY <2>2, <2>4
  <2>6. PICK b : b = g[k - 1]
    OBVIOUS
  <2>7. Reporting(ReportStatic(b, list[k]), k, list)
    BY <2>4, <2>5, <2>6, OneMoreReported
  <2> QED
    BY <1>3, <2>4, <2>6, <2>7
<1> QED
  BY <1>1, <1>3, <1>4

LEMMA DeferSound ==
  ASSUME DomainSound(domb), DomainDefer
  PROVE  DomainSound(domb')
<1> DEFINE held == [domb EXCEPT !.defer = FALSE, !.ref = @ + 1]
           list == domb.static
           all == FoldLeft(ReportStatic, held, list)
           done == [all EXCEPT !.done = TRUE]
           end == IF all.ref > 1 /\ all.all_for_now_scheduled THEN DomainCallback(done) ELSE all
<1>1. domb \in DomainType /\ domb.ref = 1 /\ list \in Seq(Domain)
  <2>1. domb \in DomainType /\ domb.ref = 1
    BY DEF DomainDefer, DomainSound
  <2>2. domb.static \in BrowseDomains
    BY <2>1 DEF DomainType
  <2> QED
    BY <2>1, <2>2, ClientAssumption
<1>2. domb' = avahi_s_domain_browser_free(end)
  BY DEF DomainDefer
<1>3. Reporting(held, 0, list)
  <2>1. domb.ref + 1 = 2 /\ 2 \in 0..2 /\ \A i \in 1..0 : list[i] \in domb.known
    BY <1>1
  <2>2. /\ held \in DomainType /\ held.ref = 2 /\ ~held.defer /\ held.static = list
        /\ held.late = domb.late /\ held.browse = domb.browse /\ held.changed = domb.changed
        /\ held.told = domb.told /\ held.known = domb.known
    BY <1>1, <2>1 DEF DomainType
  <2> HIDE DEF held
  <2> QED
    BY <1>1, <2>1, <2>2 DEF DomainSound, Reporting, KnownStay, Static
<1> HIDE DEF held
<1>4. Reporting(all, Len(list), list)
  BY <1>1, <1>3, AllReported
<1>5. all.ref = 2 => Static(all) \subseteq all.known
  <2>1. Range(list) = {list[i] : i \in 1..Len(list)}
    BY <1>1 DEF Range
  <2> QED
    BY <1>4, <2>1 DEF Reporting, Static
<1> HIDE DEF all
<1>6. /\ end \in DomainType /\ end.ref \in {1, 2} /\ end.late = 0 /\ ~end.defer /\ KnownStay(end)
      /\ end.ref = 2 => Static(end) \subseteq end.known
  <2>1. CASE ~(all.ref > 1 /\ all.all_for_now_scheduled)
    BY <1>4, <1>5, <2>1 DEF Reporting
  <2>2. CASE all.ref > 1 /\ all.all_for_now_scheduled
    <3>1. /\ done \in DomainType /\ done.ref = 2 /\ done.late = 0 /\ ~done.defer
          /\ done.static = all.static /\ done.browse = all.browse
          /\ done.changed = all.changed /\ done.told = all.told /\ done.known = all.known
      <4>1. all.ref = 2 /\ all \in DomainType
        BY <1>4, <2>2 DEF Reporting
      <4> QED
        BY <1>4, <4>1 DEF Reporting, DomainType
    <3> HIDE DEF done
    <3> DEFINE f == DomainCallback(done)
    <3>2. /\ f \in DomainType /\ f.late = done.late /\ f.static = done.static
          /\ f.browse = done.browse /\ f.changed = done.changed /\ f.told = done.told
          /\ f.known = done.known
          /\ \/ f.ref = done.ref /\ f.defer = done.defer
             \/ f.ref = done.ref - 1 /\ (f.defer => done.defer)
      BY <3>1, DomainCalled
    <3> HIDE DEF f
    <3>3. f.ref \in {1, 2} /\ ~f.defer /\ f.late = 0
      BY <3>1, <3>2
    <3>4. KnownStay(f) /\ (f.ref = 2 => Static(f) \subseteq f.known)
      <4>1. all.ref = 2
        BY <1>4, <2>2 DEF Reporting
      <4> QED
        BY <1>4, <1>5, <3>1, <3>2, <4>1 DEF Reporting, KnownStay, Static
    <3> QED
      BY <2>2, <3>2, <3>3, <3>4 DEF f
  <2> QED
    BY <2>1, <2>2
<1> HIDE DEF end
<1> DEFINE e == avahi_s_domain_browser_free(end)
<1>7. end.ref - 1 \in 0..2 /\ end.ref - 1 \in {0, 1} /\ (end.ref - 1 > 0 => end.ref = 2)
  BY <1>6
<1>8. /\ e \in DomainType /\ e.late = 0 /\ ~e.defer /\ e.ref = end.ref - 1
      /\ e.static = end.static /\ e.browse = end.browse /\ e.changed = end.changed
      /\ e.told = end.told /\ e.known = end.known
  BY <1>6, <1>7 DEF avahi_s_domain_browser_free, DomainType
<1> HIDE DEF e
<1>9. DomainSound(e)
  BY <1>6, <1>7, <1>8 DEF DomainSound, KnownStay, Static
<1> QED
  BY <1>2, <1>9 DEF e

LEMMA DomainStart == DomainInit => DomainSound(domb)
<1> SUFFICES ASSUME DomainInit PROVE DomainSound(domb)
  OBVIOUS
<1>1. PICK browse \in BOOLEAN, list \in BrowseDomains, frees \in 0..3 :
        domb = [browse |-> browse, static |-> list, changed |-> FALSE, cached |-> {},
                defer |-> browse /\ list # <<>>, all_for_now_scheduled |-> FALSE, ref |-> 1,
                told |-> {}, known |-> {}, done |-> FALSE, frees |-> frees, late |-> 0]
  BY DEF DomainInit
<1>2. 1 \in 0..2 /\ 0 \in 0..1
  OBVIOUS
<1>3. domb \in DomainType
  BY <1>1, <1>2 DEF DomainType
<1>4. list = <<>> => Range(list) = {}
  BY DEF Range
<1> QED
  BY <1>1, <1>3, <1>4 DEF DomainSound, KnownStay, Static

LEMMA DomainStep ==
  ASSUME DomainSound(domb), DomainNext
  PROVE  DomainSound(domb')
<1>0. domb \in DomainType
  BY DEF DomainSound
<1>1. ASSUME NEW n \in Domain, DomainNew(n) PROVE DomainSound(domb')
  <2> DEFINE b == [domb EXCEPT !.cached = @ \cup {n}]
             a == [b EXCEPT !.told = @ \cup {n}]
  <2>1. domb' = (IF Passes(b, n) THEN DomainCallback(a) ELSE b) /\ domb.ref > 0
    BY <1>1 DEF DomainNew
  <2>2. DomainSound(b) /\ b.ref = domb.ref
    <3>1. /\ b \in DomainType /\ b.ref = domb.ref /\ b.late = domb.late /\ b.static = domb.static
          /\ b.browse = domb.browse /\ b.changed = domb.changed /\ b.told = domb.told
          /\ b.known = domb.known /\ b.done = domb.done /\ b.defer = domb.defer
      BY <1>0 DEF DomainType
    <3> QED
      BY <3>1 DEF DomainSound, KnownStay, Static
  <2> HIDE DEF b
  <2>3. DomainSound(a) /\ a.ref = domb.ref
    <3>1. /\ a \in DomainType /\ a.ref = b.ref /\ a.late = b.late /\ a.static = b.static
          /\ a.browse = b.browse /\ a.changed = b.changed /\ a.told = b.told \cup {n}
          /\ a.known = b.known /\ a.done = b.done /\ a.defer = b.defer
      BY <2>2 DEF DomainSound, DomainType
    <3> QED
      BY <2>2, <3>1 DEF DomainSound, KnownStay, Static
  <2> HIDE DEF a
  <2> QED
    BY <2>1, <2>2, <2>3, DomainCalledSound
<1>2. ASSUME NEW n \in Domain, DomainRemove(n) PROVE DomainSound(domb')
  <2> DEFINE b == [domb EXCEPT !.cached = @ \ {n}]
             a == [b EXCEPT !.told = @ \ {n}]
  <2>1. domb' = (IF Passes(b, n) THEN DomainCallback(a) ELSE b) /\ domb.ref > 0
    BY <1>2 DEF DomainRemove
  <2>2. DomainSound(b) /\ b.ref = domb.ref
    <3>1. /\ b \in DomainType /\ b.ref = domb.ref /\ b.late = domb.late /\ b.static = domb.static
          /\ b.browse = domb.browse /\ b.changed = domb.changed /\ b.told = domb.told
          /\ b.known = domb.known /\ b.done = domb.done /\ b.defer = domb.defer
      BY <1>0 DEF DomainType
    <3> QED
      BY <3>1 DEF DomainSound, KnownStay, Static
  <2> HIDE DEF b
  <2>3. Passes(b, n) => DomainSound(a) /\ a.ref = domb.ref
    <3>1. /\ a \in DomainType /\ a.ref = b.ref /\ a.late = b.late /\ a.static = b.static
          /\ a.browse = b.browse /\ a.changed = b.changed /\ a.told = b.told \ {n}
          /\ a.known = b.known /\ a.done = b.done /\ a.defer = b.defer
      BY <2>2 DEF DomainSound, DomainType
    <3> HIDE DEF a
    <3>2. KnownStay(b) /\ Passes(b, n) => KnownStay(a)
      BY <3>1 DEF Passes, KnownStay, Static
    <3> QED
      BY <2>2, <3>1, <3>2 DEF DomainSound, Static
  <2> HIDE DEF a
  <2> QED
    BY <2>1, <2>2, <2>3, DomainCalledSound
<1>3. CASE DomainAllForNow
  <2>1. CASE domb.defer
    <3>1. domb' = [domb EXCEPT !.all_for_now_scheduled = TRUE]
      BY <1>3, <2>1 DEF DomainAllForNow
    <3>2. /\ domb' \in DomainType /\ domb'.ref = domb.ref /\ domb'.late = domb.late
          /\ domb'.static = domb.static /\ domb'.browse = domb.browse
          /\ domb'.changed = domb.changed /\ domb'.told = domb.told
          /\ domb'.known = domb.known /\ domb'.done = domb.done /\ domb'.defer = domb.defer
      BY <1>0, <3>1 DEF DomainType
    <3> QED
      BY <3>2 DEF DomainSound, KnownStay, Static
  <2>2. CASE ~domb.defer
    <3> DEFINE a == [domb EXCEPT !.done = TRUE]
    <3>1. domb' = DomainCallback(a) /\ domb.ref > 0
      BY <1>3, <2>2 DEF DomainAllForNow
    <3>2. /\ a \in DomainType /\ a.ref = domb.ref /\ a.late = domb.late
          /\ a.static = domb.static /\ a.browse = domb.browse
          /\ a.changed = domb.changed /\ a.told = domb.told
          /\ a.known = domb.known /\ a.defer = domb.defer
      BY <1>0 DEF DomainType
    <3> HIDE DEF a
    <3>3. DomainSound(a)
      BY <2>2, <3>2 DEF DomainSound, KnownStay, Static
    <3> QED
      BY <3>1, <3>2, <3>3, DomainCalledSound
  <2> QED
    BY <2>1, <2>2
<1>4. CASE DomainDefer
  BY <1>4, DeferSound
<1>5. ASSUME NEW list \in BrowseDomains, avahi_server_set_browse_domains(list)
      PROVE  DomainSound(domb')
  <2>1. domb' = [domb EXCEPT !.static = list, !.changed = TRUE]
    BY <1>5 DEF avahi_server_set_browse_domains
  <2>2. /\ domb' \in DomainType /\ domb'.ref = domb.ref /\ domb'.late = domb.late
        /\ domb'.changed /\ domb'.done = domb.done /\ domb'.defer = domb.defer
    BY <1>0, <2>1 DEF DomainType
  <2> QED
    BY <2>2 DEF DomainSound, KnownStay
<1> QED
  BY <1>1, <1>2, <1>3, <1>4, <1>5 DEF DomainNext

-----------------------------------------------------------------------------
(* All three browsers.                                                     *)

ClientIInv ==
  /\ DnsSound(dnsb) /\ DomainSound(domb)
  /\ svcb \in ServiceType /\ ServicesMatch

LEMMA ClientImplies == ClientIInv => ClientInv
<1> SUFFICES ASSUME ClientIInv PROVE ClientInv
  OBVIOUS
<1>1. ClientTypeOK
  BY DEF ClientIInv, DnsSound, DomainSound, ClientTypeOK
<1>2. ServersAreKnown
  BY DEF ClientIInv, DnsSound, DnsType, Taken, n_info, ServersAreKnown
<1>3. ConfiguredDomainsFirst
  <2>1. domb \in DomainType
    BY <1>1 DEF ClientTypeOK
  <2> QED
    BY <2>1 DEF ClientIInv, DomainSound, KnownStay, ConfiguredDomainsFirst
<1>4. NoCallAfterFree
  BY DEF ClientIInv, DomainSound, NoCallAfterFree
<1> QED
  BY <1>1, <1>2, <1>3, <1>4 DEF ClientIInv, ClientInv

LEMMA ServiceStep ==
  ASSUME svcb \in ServiceType, ServicesMatch, ServiceNext
  PROVE  svcb' \in ServiceType /\ ServicesMatch'
<1>1. ASSUME NEW n \in Instance, ServiceNew(n) PROVE svcb' \in ServiceType /\ ServicesMatch'
  <2>1. Reports(n) = {n} \cap Splittable
    BY DEF Reports, ServiceReports, ServiceTypeReports
  <2> QED
    BY <1>1, <2>1 DEF ServiceNew, ServiceType, ServicesMatch
<1>2. ASSUME NEW n \in Instance, ServiceRemove(n) PROVE svcb' \in ServiceType /\ ServicesMatch'
  <2>1. Reports(n) = {n} \cap Splittable
    BY DEF Reports, ServiceReports, ServiceTypeReports
  <2> QED
    BY <1>2, <2>1 DEF ServiceRemove, ServiceType, ServicesMatch
<1> QED
  BY <1>1, <1>2 DEF ServiceNext

\* The clients of the browsers know what is cached and configured, in any order of records,
\* configuration changes and scans, and a client that frees its browser in a callback is
\* not called again (defer_callback of browse-domain.c, record_browser_callback).
THEOREM ClientsKnow == ClientSpec => []ClientInv
<1>1. ClientInit => ClientIInv
  <2> SUFFICES ASSUME ClientInit PROVE ClientIInv
    OBVIOUS
  <2>1. svcb \in ServiceType /\ ServicesMatch
    BY DEF ClientInit, ServiceInit, ServiceType, ServicesMatch
  <2> QED
    BY <2>1, DnsStart, DomainStart DEF ClientInit, ClientIInv
<1>2. ClientIInv /\ [ClientNext]_clientVars => ClientIInv'
  <2> SUFFICES ASSUME ClientIInv, [ClientNext]_clientVars
               PROVE  DnsSound(dnsb') /\ DomainSound(domb') /\ svcb' \in ServiceType /\ ServicesMatch'
    BY DEF ClientIInv, DnsSound, Taken, DomainSound, KnownStay, Static
  <2>1. CASE DnsNext
    BY <2>1, DnsStep DEF DnsNext, ClientIInv, ServicesMatch
  <2>2. CASE DomainNext
    BY <2>2, DomainStep DEF DomainNext, ClientIInv, ServicesMatch
  <2>3. CASE ServiceNext
    BY <2>3, ServiceStep DEF ServiceNext, ClientIInv
  <2>4. CASE UNCHANGED clientVars
    BY <2>4 DEF clientVars, ClientIInv, ServicesMatch
  <2> QED
    BY <2>1, <2>2, <2>3, <2>4 DEF ClientNext
<1> QED
  BY <1>1, <1>2, ClientImplies, PTL DEF ClientSpec
-----------------------------------------------------------------------------
(* The service resolver.                                                   *)
(*                                                                         *)
(* A callback transforms the resolver and its client (s) against the       *)
(* caches (c); Sound says what every callback finds and leaves behind.     *)
(* A scan of the caches is a fold of callbacks: what one callback keeps,   *)
(* the scan keeps, by induction on the number of records scanned.          *)

\* What the resolver holds is in the caches, and is watched by a browser that runs.
Held(res, c) ==
  /\ res.srv # None => /\ res.browser["srv"] = "running"
                       /\ [type |-> "srv", value |-> res.srv, link |-> res.interface] \in c
                       /\ res.browser["a"] # "null" \/ res.browser["aaaa"] # "null"
  /\ res.txt # None => /\ res.browser["txt"] = "running"
                       /\ [type |-> "txt", value |-> res.txt, link |-> res.interface] \in c

Sound(s, c) ==
  /\ s \in State
  /\ s.told.event # "FAILURE" => Complete(s.res) \/ s.res.time_event
  /\ s.res.freed => s.res.browser = AllNull /\ ~s.res.time_event
  /\ s.told.freeInCallback => s.told.calls <= IF s.res.freed THEN 1 ELSE 0
  /\ s.res.browser["srv"] # "null" => Held(s.res, c)
  /\ ReqInterface # None => s.res.interface = ReqInterface
  /\ s.res.srv # None \/ s.res.txt # None => s.res.interface # None

IInv == cached \subseteq Record /\ IsFiniteSet(cached) /\ Sound(Now, cached)

-----------------------------------------------------------------------------
(* Scanning the caches.                                                    *)

\* One record of a scan; nothing else (p) matters.
Step(p, s, rec) == IF s.res.freed THEN s ELSE OnNew(s, rec)

Scanning == INSTANCE FoldProofs WITH Op <- Step

\* What every callback of a scan keeps, the scan keeps.
LEMMA ScanKeeps ==
  ASSUME NEW n \in Nat, NEW order, DOMAIN order = 1..n,
         NEW G, NEW base \in G,
         \A s \in G : \A i \in 1..n : Step(0, s, order[i]) \in G
  PROVE  FoldLeft(LAMBDA s, rec : IF s.res.freed THEN s ELSE OnNew(s, rec), base, order) \in G
<1>1. Scanning!Folded(0, base, order) \in G
  BY Scanning!FoldKeeps
<1> QED
  BY <1>1 DEF Step, FoldLeft, MapThenFoldSet, Max, Scanning!Folded, Scanning!FoldLeft,
              Scanning!MapThenFoldSet, Scanning!Max

-----------------------------------------------------------------------------
(* The callbacks.                                                          *)

Resolver == [interface : Link \cup {None},
             srv : Host \cup {None}, txt : Text \cup {None},
             addr : Address \cup {None},
             browser : [Browser -> BrowserState],
             time_event : BOOLEAN, freed : BOOLEAN]

Client == [freeInCallback : BOOLEAN, event : {"none", "FOUND", "FAILURE"}, calls : 0..2,
           host : Host \cup {None}, addr : Address \cup {None},
           txt : Text \cup {None}]

LEMMA StateIsAPair == State = [res : Resolver, told : Client]
  BY DEF State, Resolver, Client

\* What holds in the middle of a callback, before the client is called.
Ready(s, c) ==
  /\ s \in State
  /\ ~s.res.freed
  /\ s.told.freeInCallback => s.told.calls = 0
  /\ s.res.browser["srv"] # "null" => Held(s.res, c)
  /\ ReqInterface # None => s.res.interface = ReqInterface
  /\ s.res.srv # None \/ s.res.txt # None => s.res.interface # None

LEMMA SoundIsReady ==
  ASSUME NEW s, NEW c, Sound(s, c), ~s.res.freed
  PROVE  Ready(s, c)
<1>1. s.told.calls \in 0..2
  BY StateIsAPair DEF Sound, Client
<1> QED
  BY <1>1 DEF Sound, Ready

\* Calling the client.
LEMMA FinishSound ==
  ASSUME NEW s, NEW c, Ready(s, c), NEW event \in {"FOUND", "FAILURE"},
         event = "FOUND" => Complete(s.res)
  PROVE  /\ Sound(finish(s, event), c)
         /\ ~finish(s, event).res.freed => finish(s, event).res.browser = s.res.browser
<1> DEFINE f == finish(s, event)
           res == [s.res EXCEPT !.time_event = FALSE]
<1>1. s.res \in Resolver /\ s.told \in Client
  BY StateIsAPair DEF Ready
<1>2. res \in Resolver
  BY <1>1 DEF Resolver
<1>3. f.res \in Resolver
  <2>1. AllNull \in [Browser -> BrowserState]
    BY DEF AllNull, BrowserState
  <2> QED
    BY <1>1, <2>1 DEF finish, Resolver
<1>4. f.told \in Client
  BY <1>1 DEF finish, Resolver, Client
<1>5. f \in State
  BY <1>3, <1>4, StateIsAPair DEF finish
<1>6. /\ f.res.interface = s.res.interface /\ f.res.srv = s.res.srv
      /\ f.res.txt = s.res.txt /\ f.res.addr = s.res.addr
      /\ ~f.res.time_event
      /\ f.res.freed <=> s.told.freeInCallback
      /\ f.res.browser = IF s.told.freeInCallback THEN AllNull ELSE s.res.browser
  BY <1>1 DEF finish, Ready, Resolver, Client
<1>7. /\ f.told.freeInCallback = s.told.freeInCallback
      /\ f.told.event = event
      /\ s.told.freeInCallback => f.told.calls = 1
  BY DEF finish, Ready
<1>8. f.res.freed => f.res.browser["srv"] = "null"
  BY <1>6 DEF AllNull, Browser
<1> HIDE DEF f, res
<1>9. f.res.browser["srv"] # "null" => Held(f.res, c)
  BY <1>6, <1>8 DEF Ready, Held
<1>10. Sound(f, c)
  BY <1>5, <1>6, <1>7, <1>9 DEF Sound, Ready, Complete
<1> QED
  BY <1>6, <1>10 DEF f

LEMMA FinishIfCompleteSound ==
  ASSUME NEW s, NEW c, Ready(s, c),
         s.told.event # "FAILURE" => Complete(s.res) \/ s.res.time_event
  PROVE  /\ Sound(FinishIfComplete(s), c)
         /\ ~FinishIfComplete(s).res.freed
              => FinishIfComplete(s).res.browser = s.res.browser
<1>1. CASE Complete(s.res)
  BY <1>1, FinishSound DEF FinishIfComplete
<1>2. CASE ~Complete(s.res)
  BY <1>2 DEF FinishIfComplete, Sound, Ready
<1> QED
  BY <1>1, <1>2

\* A record that is there is reported.
LEMMA OnNewSound ==
  ASSUME NEW s, NEW c, Sound(s, c), ~s.res.freed, NEW rec \in Record, rec \in c,
         rec.type \in {"srv", "txt"} => s.res.browser[rec.type] = "running"
  PROVE  /\ Sound(OnNew(s, rec), c)
         /\ ~OnNew(s, rec).res.freed =>
              \A b \in {"srv", "txt"} : OnNew(s, rec).res.browser[b] = s.res.browser[b]
<1> DEFINE m == [s.res EXCEPT !.interface = IF @ = None THEN rec.link ELSE @]
           browser == [s.res.browser EXCEPT !["a"] = "deferred", !["aaaa"] = "deferred"]
<1>1. s \in State /\ s.res \in Resolver /\ s.told \in Client
  BY StateIsAPair DEF Sound
<1>2. Ready(s, c)
  BY SoundIsReady
<1>3. /\ rec.link \in Link /\ rec.link # None
      /\ rec.type \in {"srv", "a", "aaaa"} => rec.value \in Host /\ rec.value # None
      /\ rec.type = "txt" => rec.value \in Text /\ rec.value # None
      /\ rec.type \in Browser
      /\ rec = [type |-> rec.type, value |-> rec.value, link |-> rec.link]
  BY ResolverAssumption DEF Record, Browser
<1>4. CASE s.res.interface \notin {None, rec.link}
  BY <1>4 DEF OnNew
<1>5. CASE s.res.interface \in {None, rec.link}
  <2>1. /\ m \in Resolver
        /\ m.interface = rec.link
        /\ m.srv = s.res.srv /\ m.txt = s.res.txt /\ m.addr = s.res.addr
        /\ m.browser = s.res.browser /\ m.time_event = s.res.time_event /\ ~m.freed
    BY <1>1, <1>3, <1>5 DEF Resolver
  <2>2. m.srv # None \/ m.txt # None => s.res.interface = rec.link
    BY <1>2, <1>5, <2>1 DEF Ready
  <2>3. ReqInterface # None => m.interface = ReqInterface
    BY <1>2, <1>3, <1>5, <2>1 DEF Ready
  <2>4. m.browser["srv"] # "null" => Held(m, c)
    BY <1>2, <2>1, <2>2 DEF Ready, Held
  <2>5. s.told.freeInCallback => s.told.calls = 0
    BY <1>2 DEF Ready
  <2>6. s.told.event # "FAILURE" => Complete(m) \/ m.time_event
    BY <2>1 DEF Sound, Complete
  <2>7. m.interface # None
    BY <1>3, <2>1
  <2> HIDE DEF m
  <2>8. CASE rec.type = "srv" /\ m.srv = None
    <3> DEFINE x == [m EXCEPT !.srv = rec.value, !.browser = browser]
               y == [s EXCEPT !.res = x]
    <3>1. browser \in [Browser -> BrowserState]
      BY <1>1 DEF Resolver, Browser, BrowserState
    <3>2. /\ x \in Resolver
          /\ x.interface = rec.link
          /\ x.srv = rec.value /\ x.txt = m.txt /\ x.addr = m.addr
          /\ x.browser = browser /\ x.time_event = m.time_event /\ ~x.freed
      BY <1>3, <2>1, <2>8, <3>1 DEF Resolver
    <3>3. /\ browser["srv"] = "running" /\ browser["txt"] = s.res.browser["txt"]
          /\ browser["a"] = "deferred"
      BY <1>1, <2>8 DEF Resolver, Browser
    <3> HIDE DEF x, browser
    <3>4. y \in State /\ y.res = x /\ y.told = s.told
      BY <1>1, <3>2, StateIsAPair
    <3>5. Held(x, c)
      BY <1>3, <2>1, <2>4, <2>8, <3>2, <3>3 DEF Held
    <3> HIDE DEF y
    <3>6. Ready(y, c)
      BY <1>3, <2>1, <2>3, <2>5, <3>2, <3>4, <3>5 DEF Ready
    <3>7. y.told.event # "FAILURE" => y.res.time_event
      BY <2>6, <2>8, <3>2, <3>4 DEF Complete
    <3>8. OnNew(s, rec) = FinishIfComplete(y)
      BY <1>5, <2>1, <2>8 DEF OnNew, m, x, y, browser
    <3>9. /\ Sound(FinishIfComplete(y), c)
          /\ ~FinishIfComplete(y).res.freed => FinishIfComplete(y).res.browser = browser
      BY <3>2, <3>4, <3>6, <3>7, FinishIfCompleteSound
    <3> QED
      BY <2>8, <3>3, <3>8, <3>9
  <2>9. CASE rec.type = "txt" /\ m.txt = None
    <3> DEFINE x == [m EXCEPT !.txt = rec.value]
               y == [s EXCEPT !.res = x]
    <3>2. /\ x \in Resolver
          /\ x.interface = rec.link
          /\ x.srv = m.srv /\ x.txt = rec.value /\ x.addr = m.addr
          /\ x.browser = m.browser /\ x.time_event = m.time_event /\ ~x.freed
      BY <1>3, <2>1, <2>9 DEF Resolver
    <3> HIDE DEF x
    <3>4. y \in State /\ y.res = x /\ y.told = s.told
      BY <1>1, <3>2, StateIsAPair
    <3>5. x.browser["srv"] # "null" => Held(x, c)
      BY <1>3, <2>1, <2>4, <2>9, <3>2 DEF Held
    <3> HIDE DEF y
    <3>6. Ready(y, c)
      BY <1>3, <2>1, <2>3, <2>5, <3>2, <3>4, <3>5 DEF Ready
    <3>7. y.told.event # "FAILURE" => y.res.time_event
      BY <2>6, <2>9, <3>2, <3>4 DEF Complete
    <3>8. OnNew(s, rec) = FinishIfComplete(y)
      BY <1>5, <2>1, <2>9 DEF OnNew, m, x, y
    <3>9. /\ Sound(FinishIfComplete(y), c)
          /\ ~FinishIfComplete(y).res.freed
               => FinishIfComplete(y).res.browser = s.res.browser
      BY <2>1, <3>2, <3>4, <3>6, <3>7, FinishIfCompleteSound
    <3> QED
      BY <3>8, <3>9
  <2>10. CASE rec.type \in {"a", "aaaa"} /\ m.addr = None
    <3> DEFINE x == [m EXCEPT !.addr = [host |-> rec.value, type |-> rec.type]]
               y == [s EXCEPT !.res = x]
    <3>2. /\ x \in Resolver
          /\ x.interface = rec.link
          /\ x.srv = m.srv /\ x.txt = m.txt
          /\ x.browser = m.browser /\ x.time_event = m.time_event /\ ~x.freed
      BY <1>3, <2>1, <2>10 DEF Resolver, Address
    <3> HIDE DEF x
    <3>4. y \in State /\ y.res = x /\ y.told = s.told
      BY <1>1, <3>2, StateIsAPair
    <3>5. x.browser["srv"] # "null" => Held(x, c)
      BY <2>1, <2>4, <3>2 DEF Held
    <3> HIDE DEF y
    <3>6. Ready(y, c)
      BY <2>1, <2>3, <2>5, <2>7, <3>2, <3>4, <3>5 DEF Ready
    <3>7. y.told.event # "FAILURE" => y.res.time_event
      BY <2>6, <2>10, <3>2, <3>4 DEF Complete
    <3>8. OnNew(s, rec) = FinishIfComplete(y)
      BY <1>5, <2>1, <2>10 DEF OnNew, m, x, y
    <3>9. /\ Sound(FinishIfComplete(y), c)
          /\ ~FinishIfComplete(y).res.freed
               => FinishIfComplete(y).res.browser = s.res.browser
      BY <2>1, <3>2, <3>4, <3>6, <3>7, FinishIfCompleteSound
    <3> QED
      BY <3>8, <3>9
  <2>11. CASE ~(\/ rec.type = "srv" /\ m.srv = None
                \/ rec.type = "txt" /\ m.txt = None
                \/ rec.type \in {"a", "aaaa"} /\ m.addr = None)
    <3> DEFINE y == [s EXCEPT !.res = m]
    <3>1. y \in State /\ y.res = m /\ y.told = s.told
      BY <1>1, <2>1, StateIsAPair
    <3>2. OnNew(s, rec) = y
      BY <1>5, <2>1, <2>11 DEF OnNew, m, y
    <3> HIDE DEF y
    <3>3. Sound(y, c)
      BY <2>1, <2>3, <2>4, <2>6, <2>7, <3>1 DEF Sound
    <3> QED
      BY <2>1, <3>1, <3>2, <3>3
  <2> QED
    BY <2>8, <2>9, <2>10, <2>11
<1> QED
  BY <1>4, <1>5

LEMMA StillThere ==
  ASSUME NEW c, NEW rec, NEW t, NEW v, NEW l, [type |-> t, value |-> v, link |-> l] \in c
  PROVE  \/ [type |-> t, value |-> v, link |-> l] \in c \ {rec}
         \/ rec.type = t /\ rec.value = v
<1> DEFINE x == [type |-> t, value |-> v, link |-> l]
<1>0. x.type = t /\ x.value = v
  OBVIOUS
<1>1. x \in c
  BY Zenon
<1> HIDE DEF x
<1>2. \/ x \in c \ {rec}
      \/ rec.type = t /\ rec.value = v
  BY <1>0, <1>1
<1> QED
  BY <1>2, Zenon DEF x

\* A record that is gone is noticed; what the resolver still holds is another one.
LEMMA OnRemoveSound ==
  ASSUME NEW s, NEW c, Sound(s, c), ~s.res.freed, NEW rec \in Record,
         s.res.browser[rec.type] = "running"
  PROVE  Sound(OnRemove(s, rec), c \ {rec})
<1> DEFINE x1 == start_timeout([s.res EXCEPT
                   !.srv = None,
                   !.browser = [@ EXCEPT !["a"] = "null", !["aaaa"] = "null",
                                         !["srv"] = "deferred"]])
           x2 == start_timeout([s.res EXCEPT !.txt = None,
                                             !.browser = Restart(@, {"txt"})])
           x3 == start_timeout([s.res EXCEPT !.addr = None,
                                             !.browser = Restart(@, {"a", "aaaa"})])
           left(x) == [s EXCEPT !.res = x]
<1>1. s \in State /\ s.res \in Resolver /\ s.told \in Client
  BY StateIsAPair DEF Sound
<1>2. Ready(s, c)
  BY SoundIsReady
<1>3. /\ rec.type \in {"srv", "a", "aaaa"} => rec.value \in Host /\ rec.value # None
      /\ rec.type = "txt" => rec.value \in Text /\ rec.value # None
      /\ rec.type \in Browser
  BY ResolverAssumption DEF Record, Browser
<1>9. ASSUME NEW t, NEW v, NEW l, [type |-> t, value |-> v, link |-> l] \in c
      PROVE  \/ [type |-> t, value |-> v, link |-> l] \in c \ {rec}
             \/ rec.type = t /\ rec.value = v
  BY <1>9, StillThere
\* What is left is armed, and holds what the caches still hold.
<1>4. ASSUME NEW x \in Resolver,
             x.interface = s.res.interface, ~x.freed, x.time_event,
             x.srv # None => x.srv = s.res.srv, x.txt # None => x.txt = s.res.txt,
             x.browser["srv"] # "null" => Held(x, c \ {rec})
      PROVE  Sound(left(x), c \ {rec})
  <2> DEFINE y == left(x)
  <2>1. y \in State /\ y.res = x /\ y.told = s.told
    BY <1>1, <1>4, StateIsAPair
  <2> HIDE DEF y
  <2>2. Sound(y, c \ {rec})
    BY <1>2, <1>4, <2>1 DEF Sound, Ready
  <2> QED
    BY <2>2 DEF y
<1>5. CASE rec.type = "srv" /\ s.res.srv = rec.value
  <2>1. /\ x1 \in Resolver /\ x1.interface = s.res.interface /\ ~x1.freed /\ x1.time_event
        /\ x1.srv = None /\ x1.txt = s.res.txt
        /\ x1.browser["txt"] = s.res.browser["txt"]
    BY <1>1, <1>2 DEF Ready, Resolver, Browser, BrowserState, start_timeout
  <2>2. Held(s.res, c)
    BY <1>2, <1>5 DEF Ready
  <2>3. OnRemove(s, rec) = left(x1)
    BY <1>5 DEF OnRemove
  <2> HIDE DEF x1, left
  <2>4. Held(x1, c \ {rec})
    BY <1>3, <1>9, <1>5, <2>1, <2>2 DEF Held
  <2> QED
    BY <1>4, <2>1, <2>3, <2>4
<1>6. CASE rec.type = "txt" /\ s.res.txt = rec.value
  <2>1. /\ x2 \in Resolver /\ x2.interface = s.res.interface /\ ~x2.freed /\ x2.time_event
        /\ x2.srv = s.res.srv /\ x2.txt = None
        /\ \A b \in {"srv", "a", "aaaa"} : x2.browser[b] = s.res.browser[b]
    BY <1>1, <1>2 DEF Ready, Resolver, Browser, BrowserState, start_timeout, Restart
  <2>2. s.res.browser["srv"] # "null" => Held(s.res, c)
    BY <1>2 DEF Ready
  <2>3. OnRemove(s, rec) = left(x2)
    BY <1>6 DEF OnRemove
  <2> HIDE DEF x2, left
  <2>4. x2.browser["srv"] # "null" => Held(x2, c \ {rec})
    BY <1>3, <1>9, <1>6, <2>1, <2>2 DEF Held
  <2> QED
    BY <1>4, <2>1, <2>3, <2>4
<1>7. CASE /\ rec.type \in {"a", "aaaa"}
           /\ s.res.addr = [host |-> rec.value, type |-> rec.type]
  <2>1. /\ x3 \in Resolver /\ x3.interface = s.res.interface /\ ~x3.freed /\ x3.time_event
        /\ x3.srv = s.res.srv /\ x3.txt = s.res.txt
        /\ \A b \in {"srv", "txt"} : x3.browser[b] = s.res.browser[b]
        /\ \A b \in {"a", "aaaa"} : x3.browser[b] = "null" <=> s.res.browser[b] = "null"
    BY <1>1, <1>2 DEF Ready, Resolver, Browser, BrowserState, start_timeout, Restart
  <2>2. s.res.browser["srv"] # "null" => Held(s.res, c)
    BY <1>2 DEF Ready
  <2>3. OnRemove(s, rec) = left(x3)
    BY <1>7 DEF OnRemove
  <2> HIDE DEF x3, left
  <2>4. x3.browser["srv"] # "null" => Held(x3, c \ {rec})
    BY <1>3, <1>9, <1>7, <2>1, <2>2 DEF Held
  <2> QED
    BY <1>4, <2>1, <2>3, <2>4
<1>8. CASE /\ ~(rec.type = "srv" /\ s.res.srv = rec.value)
           /\ ~(rec.type = "txt" /\ s.res.txt = rec.value)
           /\ ~(/\ rec.type \in {"a", "aaaa"}
                /\ s.res.addr = [host |-> rec.value, type |-> rec.type])
  <2>1. OnRemove(s, rec) = s
    BY <1>8 DEF OnRemove
  <2>2. s.res.browser["srv"] # "null" => Held(s.res, c \ {rec})
    BY <1>2, <1>3, <1>9, <1>8 DEF Ready, Held
  <2> QED
    BY <2>1, <2>2 DEF Sound
<1> QED
  BY <1>5, <1>6, <1>7, <1>8

\* A browser that cannot look any further.
LEMMA OnFailureSound ==
  ASSUME NEW s, NEW c, Sound(s, c), ~s.res.freed, NEW b \in Browser
  PROVE  Sound(OnFailure(s, b), c)
<1>1. s \in State /\ s.res \in Resolver /\ s.told \in Client
  BY StateIsAPair DEF Sound
<1>2. Ready(s, c)
  BY SoundIsReady
<1>3. CASE \/ b = "a" /\ s.res.browser["aaaa"] # "null"
           \/ b = "aaaa" /\ s.res.browser["a"] # "null"
  <2> DEFINE x == [s.res EXCEPT !.browser[b] = "null"]
             y == [s EXCEPT !.res.browser[b] = "null"]
  <2>1. /\ x \in Resolver /\ x.interface = s.res.interface /\ ~x.freed
        /\ x.time_event = s.res.time_event /\ x.addr = s.res.addr
        /\ x.srv = s.res.srv /\ x.txt = s.res.txt
        /\ \A o \in {"srv", "txt"} : x.browser[o] = s.res.browser[o]
        /\ x.browser["a"] # "null" \/ x.browser["aaaa"] # "null"
    BY <1>1, <1>2, <1>3 DEF Ready, Resolver, Browser, BrowserState
  <2>2. y \in State /\ y.res = x /\ y.told = s.told
    BY <1>1, <2>1, StateIsAPair
  <2>3. OnFailure(s, b) = y
    BY <1>3 DEF OnFailure
  <2> HIDE DEF x, y
  <2>4. x.browser["srv"] # "null" => Held(x, c)
    BY <1>2, <2>1 DEF Ready, Held
  <2>5. Sound(y, c)
    BY <2>1, <2>2, <2>4 DEF Sound, Complete
  <2> QED
    BY <2>3, <2>5
<1>4. CASE ~(\/ b = "a" /\ s.res.browser["aaaa"] # "null"
             \/ b = "aaaa" /\ s.res.browser["a"] # "null")
  <2> DEFINE x == [s.res EXCEPT !.browser = AllNull]
             y == [s EXCEPT !.res.browser = AllNull]
  <2>1. /\ x \in Resolver /\ x.interface = s.res.interface /\ ~x.freed
        /\ x.srv = s.res.srv /\ x.txt = s.res.txt
        /\ x.browser["srv"] = "null"
    BY <1>1, <1>2 DEF Ready, Resolver, Browser, BrowserState, AllNull
  <2>5. y = [s EXCEPT !.res = x]
    OBVIOUS
  <2> HIDE DEF x, y
  <2>2. y \in State /\ y.res = x /\ y.told = s.told
    BY <1>1, <2>1, <2>5, StateIsAPair
  <2>3. OnFailure(s, b) = finish(y, "FAILURE")
    BY <1>4 DEF OnFailure, y
  <2>4. Ready(y, c)
    BY <1>2, <2>1, <2>2 DEF Ready
  <2> QED
    BY <2>3, <2>4, FinishSound
<1> QED
  BY <1>3, <1>4

-----------------------------------------------------------------------------
(* The invariant.                                                          *)

\* A record browser that starts to look reports what is there, in any order.
LEMMA ScanSound ==
  ASSUME IInv, NEW b \in Browser, r.browser[b] = "deferred",
         NEW order \in SetToSeqs(Matches(b))
  PROVE  Sound(Scan(b, order), cached)
<1> DEFINE n == Cardinality(Matches(b))
           G == {s \in State : /\ Sound(s, cached)
                               /\ \/ s.res.freed
                                  \/ b \in {"a", "aaaa"}
                                  \/ s.res.browser[b] = "running"}
           base == [Now EXCEPT !.res.browser[b] = "running"]
<1>1. n \in Nat
  <2>1. IsFiniteSet(Matches(b))
    BY FS_Subset DEF IInv, Matches
  <2> QED
    BY <2>1, FS_CardinalityType
<1>2. DOMAIN order = 1..n /\ \A i \in 1..n : order[i] \in Matches(b)
  BY DEF SetToSeqs
<1>3. r \in Resolver /\ told \in Client /\ Now \in State /\ Now.res = r /\ Now.told = told
  BY StateIsAPair DEF IInv, Sound, Now
<1>4. base \in G
  <2> DEFINE x == [r EXCEPT !.browser[b] = "running"]
  <2>1. /\ x \in Resolver /\ x.interface = r.interface /\ x.freed = r.freed
        /\ x.time_event = r.time_event
        /\ x.srv = r.srv /\ x.txt = r.txt /\ x.addr = r.addr
        /\ x.browser[b] = "running"
        /\ \A o \in Browser \ {b} : x.browser[o] = r.browser[o]
    BY <1>3 DEF Resolver, BrowserState
  <2>2. base \in State /\ base.res = x /\ base.told = told
    BY <1>3, <2>1, StateIsAPair
  <2>3. ~r.freed
    BY <1>3 DEF IInv, Sound, AllNull
  <2>4. r.browser["srv"] # "null" => Held(r, cached)
    BY <1>3 DEF IInv, Sound
  <2> HIDE DEF x, base
  <2>5. x.browser["srv"] # "null" => Held(x, cached)
    <3> SUFFICES ASSUME x.browser["srv"] # "null" PROVE Held(x, cached)
      OBVIOUS
    <3>1. Held(r, cached)
      BY <1>3, <2>1, <2>4 DEF Browser
    <3> QED
      BY <2>1, <3>1 DEF Held, Browser
  <2>6. Sound(base, cached)
    BY <1>3, <2>1, <2>2, <2>3, <2>5 DEF IInv, Sound, Complete
  <2> QED
    BY <2>1, <2>2, <2>6
<1>5. \A s \in G : \A i \in 1..n : Step(0, s, order[i]) \in G
  <2> TAKE s \in G
  <2> TAKE i \in 1..n
  <2> DEFINE rec == order[i]
  <2>1. rec \in cached /\ rec \in Record /\ rec.type = b
    BY <1>2 DEF Matches, LooksFor, IInv
  <2> HIDE DEF rec
  <2>2. CASE s.res.freed
    BY <2>2 DEF Step
  <2>3. CASE ~s.res.freed
    <3>1. rec.type \in {"srv", "txt"} => s.res.browser[rec.type] = "running"
      BY <2>1, <2>3
    <3> DEFINE y == OnNew(s, rec)
    <3>2. /\ Sound(y, cached)
          /\ ~y.res.freed => \A o \in {"srv", "txt"} : y.res.browser[o] = s.res.browser[o]
      BY <2>1, <2>3, <3>1, OnNewSound
    <3>3. Step(0, s, rec) = y
      BY <2>3 DEF Step
    <3> HIDE DEF y
    <3>4. y \in G
      BY <2>1, <2>3, <3>1, <3>2 DEF Sound, Browser
    <3> QED
      BY <3>3, <3>4 DEF rec
  <2> QED
    BY <2>2, <2>3 DEF rec
<1> HIDE DEF n, G, base
<1>6. Scan(b, order) \in G
  BY <1>1, <1>2, <1>4, <1>5, ScanKeeps DEF Scan, base
<1> QED
  BY <1>6 DEF G

LEMMA InitSound == ResolverInit => IInv
<1> SUFFICES ASSUME ResolverInit PROVE IInv
  OBVIOUS
<1> PICK f \in BOOLEAN : /\ r = avahi_s_service_resolver_new(f).res
                         /\ told = avahi_s_service_resolver_new(f).told
  BY DEF ResolverInit
<1> DEFINE browser == [AllNull EXCEPT !["srv"] = "deferred", !["txt"] = "deferred"]
<1>1. /\ browser \in [Browser -> BrowserState]
      /\ browser["srv"] = "deferred"
  BY DEF AllNull, Browser, BrowserState
<1> HIDE DEF browser
<1>2. r = [interface |-> ReqInterface, srv |-> None, txt |-> None, addr |-> None,
           browser |-> browser, time_event |-> TRUE, freed |-> FALSE]
  BY DEF avahi_s_service_resolver_new, start_timeout, browser
<1>3. told = [freeInCallback |-> f, event |-> "none", calls |-> 0,
              host |-> None, addr |-> None, txt |-> None]
  BY DEF avahi_s_service_resolver_new
<1>4. r \in Resolver
  BY <1>1, <1>2, ResolverAssumption DEF Resolver
<1>5. told \in Client
  BY <1>3 DEF Client
<1>6. Now \in State /\ Now.res = r /\ Now.told = told
  BY <1>4, <1>5, StateIsAPair DEF Now
<1>7. Held(r, cached)
  BY <1>2 DEF Held
<1>8. Sound(Now, cached)
  BY <1>2, <1>3, <1>6, <1>7 DEF Sound
<1>9. cached = {} /\ IsFiniteSet(cached)
  BY FS_EmptySet DEF ResolverInit
<1> QED
  BY <1>8, <1>9 DEF IInv

\* Becoming a sound value is becoming sound.
LEMMA BecomeSound ==
  ASSUME NEW s, Become(s), Sound(s, cached')
  PROVE  Sound(Now, cached)'
<1>1. s = [res |-> s.res, told |-> s.told]
  BY DEF Sound, State
<1>2. Now' = s
  BY <1>1 DEF Become, Now
<1> QED
  BY <1>2

LEMMA EntersSound ==
  ASSUME IInv, NEW rec \in Record, RecordEnters(rec)
  PROVE  IInv'
<1>1. cached' = cached \cup {rec} /\ cached' \subseteq Record /\ IsFiniteSet(cached')
  BY FS_AddElement DEF IInv, RecordEnters
<1>2. Now.res = r
  BY DEF Now
<1>3. Sound(Now, cached')
  BY <1>1 DEF IInv, Sound, Held
<1>4. CASE Reported(r, rec)
  <2>1. /\ ~Now.res.freed
        /\ rec.type \in {"srv", "txt"} => Now.res.browser[rec.type] = "running"
    BY <1>2, <1>4 DEF Reported, LooksFor
  <2>2. Sound(OnNew(Now, rec), cached')
    <3> PICK c : c = cached'
      OBVIOUS
    <3> DEFINE s == Now
    <3>1. Sound(s, c) /\ rec \in c
      BY <1>1, <1>3
    <3> HIDE DEF s
    <3>2. Sound(OnNew(s, rec), c)
      BY <2>1, <3>1, OnNewSound DEF s
    <3> QED
      BY <3>2 DEF s
  <2> QED
    BY <1>1, <1>4, <2>2, BecomeSound DEF IInv, RecordEnters
<1>5. CASE ~Reported(r, rec)
  <2>1. Now' = Now
    BY <1>5 DEF RecordEnters, Now
  <2> QED
    BY <1>1, <1>3, <2>1 DEF IInv
<1> QED
  BY <1>4, <1>5

LEMMA LeavesSound ==
  ASSUME IInv, NEW rec \in Record, RecordLeaves(rec)
  PROVE  IInv'
<1>1. cached' = cached \ {rec} /\ cached' \subseteq Record /\ IsFiniteSet(cached')
  BY FS_RemoveElement DEF IInv, RecordLeaves
<1>2. Now.res = r /\ Now.told = told
  BY DEF Now
<1>3. CASE Reported(r, rec)
  <2>1. ~Now.res.freed /\ Now.res.browser[rec.type] = "running"
    BY <1>2, <1>3 DEF Reported, LooksFor
  <2>2. Sound(OnRemove(Now, rec), cached \ {rec})
    BY <2>1, OnRemoveSound DEF IInv
  <2> QED
    BY <1>1, <1>3, <2>2, BecomeSound DEF IInv, RecordLeaves
\* Nobody is told of it: the resolver does not hold it.
<1>4. CASE ~Reported(r, rec)
  <2>1. Now' = Now
    BY <1>4 DEF RecordLeaves, Now
  <2>2. r.browser["srv"] # "null" => Held(r, cached \ {rec})
    <3> SUFFICES ASSUME r.browser["srv"] # "null" PROVE Held(r, cached \ {rec})
      OBVIOUS
    <3>1. Held(r, cached) /\ ~r.freed
      BY <1>2 DEF IInv, Sound, AllNull, Browser
    <3>2. ASSUME NEW t \in {"srv", "txt"}, NEW v, r.browser[t] = "running",
                 [type |-> t, value |-> v, link |-> r.interface] \in cached,
                 r.interface # None
          PROVE  [type |-> t, value |-> v, link |-> r.interface] \in cached \ {rec}
      <4> DEFINE x == [type |-> t, value |-> v, link |-> r.interface]
      <4>1. x.type = t /\ x.link = r.interface
        OBVIOUS
      <4> HIDE DEF x
      <4>2. x # rec
        <5> SUFFICES ASSUME x = rec PROVE FALSE
          OBVIOUS
        <5>1. LooksFor(r, t, rec)
          BY <1>2, <3>2, <4>1 DEF LooksFor, IInv, Sound
        <5> QED
          BY <1>4, <3>1, <3>2, <5>1 DEF Reported, Browser
      <4> QED
        BY <3>2, <4>2, Zenon DEF x
    <3>3. r.srv # None \/ r.txt # None => r.interface # None
      BY <1>2 DEF IInv, Sound
    <3> QED
      BY <3>1, <3>2, <3>3 DEF Held
  <2>3. Sound(Now, cached \ {rec})
    BY <1>2, <2>2 DEF IInv, Sound
  <2> QED
    BY <1>1, <2>1, <2>3 DEF IInv
<1> QED
  BY <1>3, <1>4

LEMMA NextSound == IInv /\ [ResolverNext]_resolverVars => IInv'
<1> SUFFICES ASSUME IInv, [ResolverNext]_resolverVars PROVE IInv'
  OBVIOUS
<1>1. ASSUME NEW rec \in Record, RecordEnters(rec) PROVE IInv'
  BY <1>1, EntersSound
<1>2. ASSUME NEW rec \in Record, RecordLeaves(rec) PROVE IInv'
  BY <1>2, LeavesSound
<1>3. ASSUME NEW b \in Browser, DeferElapsed(b) PROVE IInv'
  <2> PICK order \in SetToSeqs(Matches(b)) : Become(Scan(b, order))
    BY <1>3 DEF DeferElapsed
  <2>1. cached' = cached /\ Sound(Scan(b, order), cached)
    BY <1>3, ScanSound DEF DeferElapsed
  <2> QED
    BY <2>1, BecomeSound DEF IInv
<1>4. ASSUME NEW b \in Browser, DeferFails(b) PROVE IInv'
  <2> PICK order \in SetToSeqs(Matches(b)) :
        LET s == Scan(b, order)
        IN Become(IF s.res.freed THEN s ELSE OnFailure(s, b))
    BY <1>4 DEF DeferFails
  <2> DEFINE s == Scan(b, order)
             e == IF s.res.freed THEN s ELSE OnFailure(s, b)
  <2>1. cached' = cached /\ Sound(s, cached)
    BY <1>4, ScanSound DEF DeferFails
  <2>2. Become(e)
    OBVIOUS
  <2> HIDE DEF s
  <2>3. Sound(e, cached)
    BY <2>1, OnFailureSound
  <2> HIDE DEF e
  <2> QED
    BY <2>1, <2>2, <2>3, BecomeSound DEF IInv
<1>5. ASSUME Timeout PROVE IInv'
  <2>1. ~Now.res.freed
    BY <1>5 DEF Timeout, IInv, Sound, Now
  <2>2. Sound(finish(Now, "FAILURE"), cached)
    BY <2>1, SoundIsReady, FinishSound DEF IInv
  <2> QED
    BY <1>5, <2>2, BecomeSound DEF Timeout, IInv
<1>6. ASSUME UNCHANGED resolverVars PROVE IInv'
  BY <1>6 DEF IInv, resolverVars, Now
<1> QED
  BY <1>1, <1>2, <1>3, <1>4, <1>5, <1>6 DEF ResolverNext

\* What every callback finds and leaves behind: the resolver watches what it holds, its
\* client is owed an answer only while the timeout runs, and once freed it is silent.
THEOREM ResolverInductive == ResolverSpec => []IInv
<1>1. ResolverInit => IInv
  BY InitSound
<1>2. IInv /\ [ResolverNext]_resolverVars => IInv'
  BY NextSound
<1> QED
  BY <1>1, <1>2, PTL DEF ResolverSpec

\* While it is looking, the resolver holds no SRV or TXT record that has left the caches,
\* and a known host always has an address lookup under way (record_browser_callback).
THEOREM HeldIsWatched == ResolverSpec => []ResolverInv
<1>1. IInv => ResolverInv
  <2> SUFFICES ASSUME IInv PROVE ResolverInv
    OBVIOUS
  <2>1. Now.res = r /\ Now \in State /\ cached \subseteq Record
    BY DEF IInv, Sound, Now
  <2>2. r.browser["srv"] # "null" => Held(r, cached)
    BY <2>1 DEF IInv, Sound
  <2> QED
    BY <2>1, <2>2 DEF ResolverInv, ResolverTypeOK, HeldRecordsAreCached,
                      HostIsBeingLookedUp, Held
<1> QED
  BY <1>1, ResolverInductive, PTL

\* Unless the last thing the client heard is FAILURE, the resolver holds an answer or the
\* timeout that will report is running (start_timeout, finish).
THEOREM ClientIsAnswered == ResolverSpec => []NeverLeftWaiting
<1>1. IInv => NeverLeftWaiting
  BY DEF IInv, Sound, Now, NeverLeftWaiting
<1> QED
  BY <1>1, ResolverInductive, PTL

\* A client that frees the resolver in its callback is called once: no browser, no timeout
\* and no scan calls back after avahi_s_service_resolver_free.
THEOREM FreedIsSilent == ResolverSpec => []CalledOnceIfFreed
<1>1. IInv => CalledOnceIfFreed
  <2> SUFFICES ASSUME IInv, told.freeInCallback PROVE told.calls <= 1
    BY DEF CalledOnceIfFreed
  <2>1. Now.told = told /\ Now.told \in Client
    BY StateIsAPair DEF IInv, Sound, Now
  <2>2. told.calls \in 0..2
    BY <2>1 DEF Client
  <2>3. told.calls <= IF r.freed THEN 1 ELSE 0
    BY DEF IInv, Sound, Now
  <2> QED
    BY <2>2, <2>3
<1> QED
  BY <1>1, ResolverInductive, PTL

=============================================================================
