---------------------------- MODULE RecordBrowser ----------------------------
(***************************************************************************)
(* One record browser (avahi-core/browse.c) over the multicast lookup      *)
(* engine (avahi-core/multicast-lookup.c) and the caches of the            *)
(* interfaces.                                                             *)
(*                                                                         *)
(* A browser has a lookup for its key and, for every CNAME record found, a *)
(* lookup for the same type of record under the other name; the lookups    *)
(* form a tree.  Callbacks run inside the event that causes them, and the  *)
(* client may free the browser in any of them, so the browser is a record  *)
(* transformed by pure operators.  They nest: the callback for a CNAME     *)
(* record starts a lookup, which scans the caches and so makes callbacks   *)
(* before the scan goes on that found the record.  Operators that start a  *)
(* scan return the browser and the calls to come.                          *)
(*                                                                         *)
(* A client may also restart the browser in its callback, as               *)
(* resolve-service.c does when a record is removed.  A report of a removed *)
(* record is the last thing an event does with the browser, so a restart   *)
(* made there leads where a restart right after the event leads, which is  *)
(* the step avahi_s_record_browser_restart.                                *)
(*                                                                         *)
(* The browser is used without flags and without wide area DNS, as         *)
(* everywhere in the program.                                              *)
(***************************************************************************)
EXTENDS Naturals, FiniteSets, Sequences, SequencesExt

CONSTANTS Name,        \* domain names
          Root,        \* the name the browser was made for
          BrowseLink,  \* the interfaces
          AskedLink,   \* those the browser was made for
          MaxLookups,  \* AVAHI_LOOKUPS_PER_BROWSER_MAX (15)
          MaxCached    \* bound: records in the caches

ASSUME BrowserAssumption ==
  /\ Root \in Name /\ "rr" \notin Name
  /\ AskedLink \subseteq BrowseLink /\ AskedLink # {}
  /\ MaxLookups \in Nat \ {0} /\ MaxCached \in Nat

VARIABLE browser  \* the browser, the caches and what its client was told

browserVars == <<browser>>

\* A record of the type asked for (to = "rr"), or a CNAME record that leads to a name
CacheRecord == [name : Name, to : Name \cup {"rr"}, link : BrowseLink]

LookupId == 1..MaxLookups

\* links: the interfaces of the lookup; parent: whose CNAME record led to it
NoLookup == [key |-> "none", links |-> {}, flags |-> "none", parent |-> 0]

LookupType ==
  [key : Name, links : SUBSET BrowseLink, flags : {"multicast"}, parent : 0..MaxLookups]
    \cup {NoLookup}

\* cached: the records in the caches; defer: is defer_time_event set?  told: the records reported as new and not as removed;
\* frees: the event in whose callback the client frees the browser; aborted: an assertion
\* failed
BrowserType ==
  [cached : SUBSET CacheRecord, lookups : [LookupId -> LookupType], defer : BOOLEAN, dead : BOOLEAN,
   told : SUBSET CacheRecord, frees : {"never", "NEW", "REMOVE", "CACHE_EXHAUSTED"},
   aborted : BOOLEAN]

Ended(b) == b.dead \/ b.aborted

Lookups(b) == {n \in LookupId : b.lookups[n] # NoLookup}

-----------------------------------------------------------------------------
(* The lookups.                                                            *)

\* The lookup n, those it led to, those that they led to, and so on
LedTo(b, n) ==
  LET Closed(S) == n \in S /\ \A m \in Lookups(b) : b.lookups[m].parent \in S => m \in S
  IN {m \in Lookups(b) : \A S \in SUBSET Lookups(b) : Closed(S) => m \in S}

\* lookup_unref, by its owner
lookup_unref(b, n) ==
  [b EXCEPT !.lookups = [m \in LookupId |-> IF m \in LedTo(b, n) THEN NoLookup ELSE @[m]]]

\* Mutant: the lookups stay.
browser_cancel_kept(b) == [b EXCEPT !.defer = FALSE]

\* browser_cancel.  Lookups whose callback is running go when it returns.
browser_cancel(b) == [b EXCEPT !.lookups = [n \in LookupId |-> NoLookup], !.defer = FALSE]

\* avahi_s_record_browser_free
Freed(b) == [browser_cancel(b) EXCEPT !.dead = TRUE]

\* The client's callback.  A restart made in it is the next step.
callback(b, event, rec) ==
  LET c == [b EXCEPT !.told = CASE event = "NEW" -> @ \cup {rec}
                                [] event = "REMOVE" -> @ \ {rec}
                                [] OTHER -> @]
  IN IF b.frees = event THEN Freed(c) ELSE c

\* transport_flags_from_domain, without wide area DNS servers
transport_flags_from_domain(flags) == IF flags = "none" THEN "multicast" ELSE flags

\* lookup_find, lookup_drop_cname: does lookup n look for the key on the interface?
Finds(b, n, link, flags, key) ==
  /\ b.lookups[n].key = key
  /\ b.lookups[n].flags = flags
  /\ b.lookups[n].links = BrowseLink \/ link \in b.lookups[n].links

\* lookup_new: the new lookup, 0 if there are too many, and the browser
lookup_new(b, links, flags, key, parent) ==
  LET free == LookupId \ Lookups(b)
      n == CHOOSE m \in free : \A k \in free : m <= k
  IN IF free = {} THEN <<0, b>>
     ELSE <<n, [b EXCEPT !.lookups[n] = [key |-> key, links |-> links, parent |-> parent,
                                         flags |-> transport_flags_from_domain(flags)]]>>

\* Nothing more is to be called.
Quiet(b) == [browser |-> b, calls |-> <<>>]

\* lookup_go: scan the caches, which lie in some order, then start the lookup.
lookup_go(b, n, order) ==
  [browser |-> b, calls |-> [i \in DOMAIN order |-> [lookup |-> n, rec |-> order[i]]]]

\* lookup_handle_cname.  A lookup that is found again would be started twice, which
\* lookup_start asserts against; but the browser's flags are never those of a lookup.
lookup_handle_cname(b, n, rec, flags, order) ==
  LET new == lookup_new(b, {rec.link}, flags, rec.to, n)
  IN IF \E m \in Lookups(b) : Finds(b, m, rec.link, flags, rec.to)
     THEN Quiet([b EXCEPT !.aborted = TRUE])
     ELSE IF new[1] = 0 THEN Quiet(b)
     ELSE lookup_go(new[2], new[1], order)

\* lookup_drop_cname
lookup_drop_cname(b, n, rec, flags) ==
  LET found == {m \in Lookups(b) : /\ b.lookups[m].parent = n
                                   /\ Finds(b, m, rec.link, flags, rec.to)}
  IN IF found = {} THEN b ELSE lookup_unref(b, CHOOSE m \in found : TRUE)

\* Mutant: a removed record is not reported.
lookup_multicast_callback_mute(b, n, event, rec, order) ==
  IF Ended(b) THEN Quiet(b)
  ELSE IF rec.to # "rr"
  THEN IF event = "NEW" THEN lookup_handle_cname(b, n, rec, "none", order) ELSE Quiet(b)
  ELSE IF event = "NEW" THEN Quiet(callback(b, event, rec)) ELSE Quiet(b)

\* lookup_multicast_callback.  Removed records are asserted to have the browser's own
\* key, and CNAME records are dropped with other flags than they were followed with.
lookup_multicast_callback(b, n, event, rec, order) ==
  IF Ended(b) THEN Quiet(b)
  ELSE IF rec.to # "rr"
  THEN IF event = "NEW" THEN lookup_handle_cname(b, n, rec, "none", order)
       ELSE Quiet(lookup_drop_cname(b, n, rec, "none"))
  ELSE IF event = "REMOVE" /\ b.lookups[n].key # Root THEN Quiet([b EXCEPT !.aborted = TRUE])
  ELSE Quiet(callback(b, event, rec))

\* scan_cache_callback is called for the records and the CNAME records of the name on the
\* interfaces of the lookup.
Scanned(b, n, rec) == rec.name = b.lookups[n].key /\ rec.link \in b.lookups[n].links

\* The next call is made; the calls it leads to come before the others.
MakeCall(s, order) ==
  LET c == Head(s.calls)
      made == lookup_multicast_callback(s.browser, c.lookup, "NEW", c.rec, order)
  IN CASE s.calls = <<>> -> s
       [] s.calls # <<>> /\ Scanned(s.browser, c.lookup, c.rec) -> [made EXCEPT !.calls = @ \o Tail(s.calls)]
       [] OTHER -> [s EXCEPT !.calls = Tail(@)]

\* All calls are made.  They end, because each lookup scans the caches once.
MakeCalls(s, order) ==
  FoldLeft(LAMBDA t, i : MakeCall(t, order), s,
           [i \in 1..(Len(s.calls) + MaxLookups * Len(order)) |-> i]).browser

-----------------------------------------------------------------------------
(* The browser.                                                            *)

\* defer_callback
defer_callback ==
  LET root == lookup_new([browser EXCEPT !.defer = FALSE], AskedLink, "none", Root, 0)
      Gone(order) == MakeCalls(lookup_go(root[2], root[1], order), order)
  IN
  /\ browser.defer /\ ~Ended(browser)
  /\ \E order \in SetToSeqs(browser.cached) :
       browser' = IF Ended(Gone(order)) THEN Gone(order)
                  ELSE callback(Gone(order), "CACHE_EXHAUSTED", NoLookup)

\* avahi_s_record_browser_restart, right after the callback for a removed record or at any
\* other time.  The client starts over and forgets what it was told.
avahi_s_record_browser_restart ==
  /\ ~Ended(browser)
  /\ browser' = [browser_cancel(browser) EXCEPT !.defer = TRUE, !.told = {}]

\* avahi_s_record_browser_free, outside of a callback
avahi_s_record_browser_free ==
  /\ ~Ended(browser)
  /\ browser' = Freed(browser)

\* The lookups that avahi_multicast_lookup_engine_notify tells of a record.  For CNAME
\* records the interface is not compared.
Notified(b, rec) ==
  {n \in Lookups(b) : /\ b.lookups[n].key = rec.name
                      /\ rec.to # "rr" \/ rec.link \in b.lookups[n].links}

\* avahi_multicast_lookup_engine_notify: the newest lookup comes first.
avahi_multicast_lookup_engine_notify(c, rec, event, order) ==
  FoldLeft(LAMBDA b, n : IF n \in Notified(c, rec) /\ b.lookups[n] # NoLookup
                         THEN MakeCalls(lookup_multicast_callback(b, n, event, rec, order), order)
                         ELSE b,
           c, [i \in LookupId |-> MaxLookups + 1 - i])

\* The caches change, and the lookups are notified.
CacheChange(b, rec, event) ==
  \E order \in SetToSeqs(b.cached) :
    browser' = avahi_multicast_lookup_engine_notify(b, rec, event, order)

\* A record enters a cache.
CacheNew(rec) ==
  /\ rec \notin browser.cached /\ Cardinality(browser.cached) < MaxCached
  /\ CacheChange([browser EXCEPT !.cached = @ \cup {rec}], rec, "NEW")

\* A record leaves a cache.
CacheRemove(rec) ==
  /\ rec \in browser.cached
  /\ CacheChange([browser EXCEPT !.cached = @ \ {rec}], rec, "REMOVE")

BrowserInit ==
  browser \in [cached : {{}}, lookups : {[n \in LookupId |-> NoLookup]}, defer : {TRUE},
               dead : {FALSE}, told : {{}},
               frees : {"never", "NEW", "REMOVE", "CACHE_EXHAUSTED"}, aborted : {FALSE}]

BrowserNext ==
  \/ defer_callback
  \/ avahi_s_record_browser_restart
  \/ avahi_s_record_browser_free
  \/ \E rec \in CacheRecord : CacheNew(rec) \/ CacheRemove(rec)

BrowserSpec == BrowserInit /\ [][BrowserNext]_browserVars

-----------------------------------------------------------------------------
BrowserTypeOK == browser \in BrowserType

Running == ~Ended(browser) /\ ~browser.defer

\* While the browser runs, the CNAME records of the name and of the names they lead to
\* are followed, on the interface they were found on, unless there are too many lookups.
CnamesAreFollowed ==
  Running => \A rec \in browser.cached, n \in LookupId :
    /\ rec.to # "rr" /\ browser.lookups[n].key = rec.name
    /\ rec.link \in browser.lookups[n].links /\ Lookups(browser) # LookupId
    => \E m \in Lookups(browser) : /\ browser.lookups[m].key = rec.to
                                   /\ browser.lookups[m].links = {rec.link}
                                   /\ browser.lookups[m].parent = n

\* The lookups of a browser that was freed or is to be started again are gone: none is
\* left to call a client that is not there, whatever callback the client freed it in.
\* While it runs, every lookup is reached from the one for the browser's key.
NoStrayLookups ==
  /\ browser.dead \/ browser.defer => Lookups(browser) = {}
  /\ \A n \in Lookups(browser) :
       IF browser.lookups[n].parent = 0 THEN browser.lookups[n].key = Root
       ELSE browser.lookups[n].parent \in Lookups(browser)

\* What the abstract browser sees of this one: the records of the key asked for.
OwnRecords(S) == {rec \in S : rec.name = Root /\ rec.to = "rr" /\ rec.link \in AskedLink}

View == INSTANCE BrowserView WITH
  Records <- OwnRecords(CacheRecord),
  records <- OwnRecords(browser.cached),
  view <- OwnRecords(browser.told),
  phase <- IF Ended(browser) THEN "gone" ELSE IF browser.defer THEN "idle" ELSE "running"

\* A record browser implements what BrowserView promises for the records of its own name:
\* its client is told of exactly the cached records while it runs, and of nothing after it
\* was freed, whatever lookups for other names browse.c adds and drops meanwhile.
ImplementsView == View!ViewSpec

\* Removed records have the key of the browser: the assertion in
\* lookup_multicast_callback holds.
AssertionsHold == ~browser.aborted

\* The lookups of a browser are those its CNAME records call for, in whatever callback the
\* client frees it and between whatever events it restarts it.
BrowserInv == BrowserTypeOK /\ CnamesAreFollowed /\ NoStrayLookups
=============================================================================
