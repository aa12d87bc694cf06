------------------------------ MODULE WideArea ------------------------------
(***************************************************************************)
(* The wide area lookup engine (avahi-core/wide-area.c): lookups that ask  *)
(* unicast DNS servers, repeat the question when no answer comes, change   *)
(* to another server and fail in the end, and the cache they share.        *)
(*                                                                         *)
(* Answers are lost, late or duplicated: any existing lookup may be        *)
(* answered at any time.  The id of a lookup is its identity; ids do not   *)
(* wrap around.  CNAME records are in module RecordBrowser.                *)
(***************************************************************************)
EXTENDS Naturals, Sequences, FiniteSets, SequencesExt

CONSTANTS WideRecord,   \* records, all of one key
          WideLookup,   \* lookups for that key; bounds how many exist at once
          Server,       \* DNS servers
          ServerLists,  \* the lists the servers are set to
          Retries,      \* sends before another server is tried (3)
          MaxSends,     \* sends before the lookup fails (6)
          CacheMax      \* CACHE_ENTRIES_MAX (500)

ASSUME WideAssumption ==
  /\ ServerLists \subseteq Seq(Server)
  /\ Retries \in Nat /\ MaxSends \in Nat /\ 0 < Retries /\ Retries < MaxSends
  /\ CacheMax \in Nat
  /\ IsFiniteSet(WideRecord)

VARIABLES dns,      \* dns_servers[0 .. n_dns_servers - 1]
          current,  \* current_dns_server
          wcache,   \* the cache
          wlookup   \* lookup -> its state

wideVars == <<dns, current, wcache, wlookup>>

\* state: free, waiting, stopped (callback = NULL) or dead (freed, to be cleaned up);
\* asked: the servers it sent to; steady: the servers were not set anew since;
\* told: records the client was told of; final: the last event, and how many
WideLookupType ==
  [state : {"free", "waiting", "stopped", "dead"}, n_send : 0..MaxSends,
   asked : SUBSET Server, used : Server \cup {"none"}, steady : BOOLEAN,
   told : SUBSET WideRecord, final : {"none", "ALL_FOR_NOW", "FAILURE", "TIMEOUT"},
   finals : 0..2]

NoWideLookup ==
  [state |-> "free", n_send |-> 0, asked |-> {}, used |-> "none", steady |-> TRUE,
   told |-> {}, final |-> "none", finals |-> 0]

Waiting(l) == wlookup[l].state = "waiting"

\* find_lookup
find_lookup(l) == wlookup[l].state \in {"waiting", "stopped"}

-----------------------------------------------------------------------------
\* send_to_dns_server: the lookup after the attempt to send, with server number c of s
send_to_dns_server(w, s, c) ==
  IF s = <<>> THEN w ELSE [w EXCEPT !.used = s[c + 1], !.asked = @ \cup {s[c + 1]}]

\* next_dns_server
next_dns_server == IF current + 1 >= Len(dns) THEN 0 ELSE current + 1

\* A lookup that was freed; what it knew does not matter any more.
DeadLookup == [NoWideLookup EXCEPT !.state = "dead"]

\* The final callback, in which the client frees the lookup or not, and lookup_stop
Finished(w, event, frees) ==
  IF frees THEN DeadLookup
  ELSE [w EXCEPT !.state = "stopped", !.final = event, !.finals = IF @ = 2 THEN 2 ELSE @ + 1,
                 !.n_send = 0, !.told = {}, !.used = "none",
                 !.asked = IF event = "TIMEOUT" THEN @ ELSE {}]

\* Mutant: the retries are not counted.
sender_timeout_callback_forever(l) ==
  /\ Waiting(l)
  /\ wlookup' = [wlookup EXCEPT ![l] = send_to_dns_server(wlookup[l], dns, current)]
  /\ UNCHANGED <<dns, current, wcache>>

\* Mutant: no other server is tried.
sender_timeout_callback_same(l) ==
  LET w == wlookup[l]
  IN
  /\ Waiting(l)
  /\ IF w.n_send >= MaxSends
     THEN \E frees \in BOOLEAN : wlookup' = [wlookup EXCEPT ![l] = Finished(w, "TIMEOUT", frees)]
     ELSE wlookup' = [wlookup EXCEPT ![l] =
                        [send_to_dns_server(w, dns, current) EXCEPT !.n_send = @ + 1]]
  /\ UNCHANGED <<dns, current, wcache>>

\* Is server number c the one that the lookup used?  When the servers were taken away the
\* array still holds one of the old ones.
SameServer(w, c) == IF dns = <<>> THEN BOOLEAN ELSE {dns[c + 1] = w.used}

\* sender_timeout_callback.  If the next server is the same the lookup fails at once.
sender_timeout_callback(l) ==
  /\ Waiting(l)
  /\ \E same \in SameServer(wlookup[l], current) :
       LET w == wlookup[l]
           change == w.n_send >= Retries /\ same
           now == IF change THEN next_dns_server ELSE current
           alone == change /\ TRUE \in SameServer(w, now)
       IN
       /\ current' = now
       /\ IF alone \/ w.n_send >= MaxSends
          THEN \E frees \in BOOLEAN :
                 wlookup' = [wlookup EXCEPT ![l] = Finished(w, "TIMEOUT", frees)]
          ELSE wlookup' = [wlookup EXCEPT ![l] =
                             [send_to_dns_server(w, dns, now) EXCEPT !.n_send = @ + 1]]
  /\ UNCHANGED <<dns, wcache>>

\* avahi_wide_area_lookup_new, from lookup_go of the record browser: only if the scan of
\* the cache found nothing.  Without a server it fails.
avahi_wide_area_lookup_new(l) ==
  /\ wlookup[l] = NoWideLookup
  /\ wcache = {} /\ dns # <<>>
  /\ wlookup' = [wlookup EXCEPT ![l] =
                   [send_to_dns_server(NoWideLookup, dns, current) EXCEPT
                      !.state = "waiting", !.n_send = 1]]
  /\ UNCHANGED <<dns, current, wcache>>

\* avahi_wide_area_lookup_free
avahi_wide_area_lookup_free(l) ==
  /\ find_lookup(l)
  /\ wlookup' = [wlookup EXCEPT ![l] = DeadLookup]
  /\ UNCHANGED <<dns, current, wcache>>

\* avahi_wide_area_cleanup: lookup_destroy for all dead lookups
avahi_wide_area_cleanup ==
  /\ \E l \in WideLookup : wlookup[l].state = "dead"
  /\ wlookup' = [l \in WideLookup |-> IF wlookup[l].state = "dead" THEN NoWideLookup
                                      ELSE wlookup[l]]
  /\ UNCHANGED <<dns, current, wcache>>

-----------------------------------------------------------------------------
(* The cache.                                                              *)

\* run_callbacks: all lookups that wait are told of the new records; those in leavers are
\* freed by their clients in the callback.
run_callbacks(w, new, leavers) ==
  [l \in WideLookup |->
     IF w[l].state # "waiting" \/ new = {} THEN w[l]
     ELSE IF l \in leavers THEN DeadLookup
     ELSE [w[l] EXCEPT !.told = @ \cup new]]

\* add_to_cache: the cache with the records rs; there is room for some of them only.
Cached(rs) ==
  {c \in SUBSET (wcache \cup rs) :
     /\ wcache \subseteq c
     /\ Cardinality(c) <= CacheMax
     /\ Cardinality(c) < CacheMax => c = wcache \cup rs}

\* The lookups whose clients may free them when they are told of the new records
Leavers(new) == IF new = {} THEN {{}} ELSE SUBSET {l \in WideLookup : Waiting(l)}

\* The event that a packet with records rs ends a lookup with: it may report an error and
\* hold records all the same.
FinalEvents(rs) == IF rs = {} THEN {"FAILURE"} ELSE {"ALL_FOR_NOW", "FAILURE"}

\* handle_packet: an answer to lookup l with records rs arrives.
handle_packet(l, rs, event) ==
  /\ find_lookup(l)
  /\ wcache' \in Cached(rs)
  /\ \E leavers \in Leavers(rs \ wcache), frees \in BOOLEAN :
       LET w == run_callbacks(wlookup, rs \ wcache, leavers)
       IN wlookup' = IF w[l].state # "waiting" THEN w
                     ELSE [w EXCEPT ![l] = Finished(w[l], event, frees)]
  /\ UNCHANGED <<dns, current>>

\* expiry_event, cache_entry_free
expiry_event(rec) ==
  /\ rec \in wcache
  /\ wcache' = wcache \ {rec}
  /\ UNCHANGED <<dns, current, wlookup>>

\* avahi_wide_area_set_servers, with avahi_wide_area_clear_cache
avahi_wide_area_set_servers(s) ==
  /\ dns' = s /\ current' = 0 /\ wcache' = {}
  /\ wlookup' = [l \in WideLookup |-> IF wlookup[l].state = "free" THEN wlookup[l]
                                      ELSE [wlookup[l] EXCEPT !.steady = FALSE]]

WideInit ==
  /\ dns = <<>> /\ current = 0 /\ wcache = {}
  /\ wlookup = [l \in WideLookup |-> NoWideLookup]

WideNext ==
  \/ \E l \in WideLookup :
       \/ sender_timeout_callback(l)
       \/ avahi_wide_area_lookup_new(l)
       \/ avahi_wide_area_lookup_free(l)
       \/ \E rs \in SUBSET WideRecord : \E event \in FinalEvents(rs) : handle_packet(l, rs, event)
  \/ avahi_wide_area_cleanup
  \/ \E rec \in WideRecord : expiry_event(rec)
  \/ \E s \in ServerLists : avahi_wide_area_set_servers(s)

WideSpec == WideInit /\ [][WideNext]_wideVars

\* The time event of a waiting lookup elapses.
WideFairness == \A l \in WideLookup : WF_wideVars(sender_timeout_callback(l))

-----------------------------------------------------------------------------
WideTypeOK ==
  /\ dns \in ServerLists \cup {<<>>}
  /\ current = 0 \/ current \in 1..(Len(dns) - 1)
  /\ wcache \subseteq WideRecord /\ Cardinality(wcache) <= CacheMax
  /\ wlookup \in [WideLookup -> WideLookupType]

\* A lookup ends once: the answer to a question that was repeated, that comes after the
\* timeout, or that another answer overtook, does not call the client a second time.
EndsOnce == \A l \in WideLookup : wlookup[l].finals <= 1 /\ (Waiting(l) => wlookup[l].finals = 0)

\* A waiting lookup was told of every record of its key in the cache, also of those that
\* the answer to another lookup brought.
WaitingKnowCache ==
  \A l \in WideLookup : Waiting(l) => wcache \subseteq wlookup[l].told

\* Although all lookups share one current server and change it under each other, a lookup
\* that times out has asked a second server if there is one and none is listed twice. (With
\* the current server listed twice in a row the step goes to the same server, takes that for
\* "no other DNS server" and gives up without asking the third.)
TriedAnotherServer ==
  \A l \in WideLookup : wlookup[l].final = "TIMEOUT" /\ wlookup[l].steady /\ IsInjective(dns) /\ Len(dns) > 1
                          => Cardinality(wlookup[l].asked) > 1

\* A lookup that waits does not wait for ever.
LookupsEnd == \A l \in WideLookup : Waiting(l) ~> ~Waiting(l)

\* A lookup is served whatever happens to the others: it is told of all that is cached, ends
\* once, and does not give up before a second server was asked.
WideInv == WideTypeOK /\ EndsOnce /\ WaitingKnowCache /\ TriedAnotherServer
=============================================================================
