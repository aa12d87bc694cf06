------------------------------- MODULE Cache -------------------------------
(***************************************************************************)
(* The record cache of one interface (avahi-core/cache.c), the hosts that  *)
(* own the records and the packets between them.                           *)
(*                                                                         *)
(* Time passes in units; Second of them are a second, and all records have *)
(* the same time to live, of which 3% are at least a unit.  A time event   *)
(* runs in the instant it is due, and the answer to a query arrives, or is *)
(* lost, in the instant of the query: the schedulers delay packets by      *)
(* fractions of a second, TTLs are in minutes.                             *)
(***************************************************************************)
EXTENDS Naturals, FiniteSets

CONSTANTS Record,      \* records, without their TTL
          Key,         \* resource record keys
          KeyOf,       \* the key of each record
          Unique,      \* keys whose records are sent with the cache-flush bit
          Subscribed,  \* keys some querier asks for
          Address,     \* addresses of the other hosts that send queries
          TTL,         \* time to live of a record, in units
          Second,      \* a second, in units
          MaxEntries,  \* n_cache_entries_max
          MaxLost      \* bound: answers for one record lost in a row

ASSUME CacheAssumption ==
  /\ IsFiniteSet(Record)
  /\ KeyOf \in [Record -> Key]
  /\ TTL \in Nat /\ Second \in Nat /\ MaxEntries \in Nat /\ MaxLost \in Nat
  /\ 0 < Second /\ 5 * Second <= TTL /\ 34 <= TTL

VARIABLES cache,    \* record -> its entry
          alive,    \* the records whose owners are there
          pending,  \* the records that owners are about to send
          lost,     \* record -> answers lost since the last one that arrived
          seen      \* the live records that reached the cache

vars == <<cache, alive, pending, lost, seen>>

OneSecondStates == {"POOF_FINAL", "GOODBYE_FINAL", "REPLACE_FINAL"}

States == {"VALID", "EXPIRY1", "EXPIRY2", "EXPIRY3", "EXPIRY_FINAL", "POOF"}
            \cup OneSecondStates

\* The age at which so much of the TTL is over
Stage(percent) == (TTL * percent) \div 100

\* When an entry for which nothing happens is gone, at the latest
EndOfLife == Stage(102)

MaxAge == EndOfLife + 1

\* age: time since e->timestamp; left: time until e->expiry
Entry == [state : States \cup {"none"}, age : 0..MaxAge, left : 0..EndOfLife,
          poof_num : 0..4, poof_age : 0..Second, poof_address : Address \cup {"none"}]

None == [state |-> "none", age |-> 0, left |-> 0,
         poof_num |-> 0, poof_age |-> 0, poof_address |-> "none"]

Cached == {r \in Record : cache[r].state # "none"}

RecordsOf(k) == {r \in Record : KeyOf[r] = k}

-----------------------------------------------------------------------------
(* Entries.                                                                *)

\* The ages for which next_expiry may set a time event: 2% jitter
Expiries(percent) == Stage(percent)..Stage(percent + 2)

\* next_expiry: the entry's time event at this age
next_expiry(e, at) == [e EXCEPT !.left = IF at > e.age THEN at - e.age ELSE 0]

expire_in_one_second(e, s) == [e EXCEPT !.state = s, !.left = Second]

\* The entry in its next state, whose time event is at the given percentage of the TTL
Later(e, s, percent) == {next_expiry([e EXCEPT !.state = s], at) : at \in Expiries(percent)}

\* Mutant: the entry is only asked for when it is about to go.
elapsed_late(e) ==
  CASE e.state \in {"VALID", "POOF"} -> Later(e, "EXPIRY3", 95)
    [] e.state = "EXPIRY3" -> Later(e, "EXPIRY_FINAL", 100)
    [] OTHER -> {None}

\* Mutant: an entry nobody answered for starts over.
elapsed_again(e) ==
  IF e.state = "EXPIRY_FINAL" THEN Later([e EXCEPT !.age = 0], "VALID", 80) ELSE elapsed_late(e)

\* elapse_func: what may become of the entry
elapsed(e) ==
  CASE e.state \in {"VALID", "POOF"} -> Later(e, "EXPIRY1", 85)
    [] e.state = "EXPIRY1" -> Later(e, "EXPIRY2", 90)
    [] e.state = "EXPIRY2" -> Later(e, "EXPIRY3", 95)
    [] e.state = "EXPIRY3" -> Later(e, "EXPIRY_FINAL", 100)
    [] OTHER -> {None}

\* avahi_cache_update, on the entry of the record that was received
refreshed(e, at) == next_expiry([e EXCEPT !.state = "VALID", !.age = 0], at)

\* start_poof_callback, for a query from address a
poofed(e, a) ==
  CASE e.state = "VALID" ->
         [e EXCEPT !.state = "POOF", !.poof_address = a, !.poof_age = 0, !.poof_num = 0]
    [] e.state = "POOF" /\ e.poof_age >= Second ->
         LET p == [e EXCEPT !.poof_address = a, !.poof_age = 0, !.poof_num = @ + 1]
         IN IF p.poof_num > 3 THEN expire_in_one_second(p, "POOF_FINAL") ELSE p
    [] OTHER -> e

\* Mutant: the entry's time to live starts again, without a new timestamp.
unpoofed_restarted(e, a, at) ==
  IF e.state \in {"POOF", "POOF_FINAL"} /\ e.poof_address = a
  THEN [e EXCEPT !.state = "VALID", !.left = at]
  ELSE e

\* avahi_cache_stop_poof, for a known answer in a query from address a
unpoofed(e, a, at) ==
  IF e.state \in {"POOF", "POOF_FINAL"} /\ e.poof_address = a
  THEN next_expiry([e EXCEPT !.state = "VALID"], at)
  ELSE e

\* An entry that is young enough to go into our queries as a known answer, so that
\* its owner does not answer (known_answer_walk_callback, avahi_cache_entry_half_ttl).
KnownAnswer(r) == r \in Cached /\ cache[r].age < TTL \div 2

-----------------------------------------------------------------------------
(* Packets.                                                                *)

\* The unique records of r's key that are older than a second are to go.
Flushed(r) ==
  [q \in Record |->
     IF KeyOf[r] \in Unique /\ KeyOf[q] = KeyOf[r] /\ q \in Cached /\ cache[q].age > Second
     THEN expire_in_one_second(cache[q], "REPLACE_FINAL")
     ELSE cache[q]]

\* Is there an entry to update, or room for a new one?
HasRoom(r) == r \in Cached \/ Cardinality(Cached) < MaxEntries

\* handle_response_packet with a record of its owner
avahi_cache_update(r) ==
  /\ r \in alive
  /\ IF HasRoom(r)
     THEN \E at \in Expiries(80) : cache' = [Flushed(r) EXCEPT ![r] = refreshed(@, at)]
     ELSE cache' = Flushed(r)
  /\ seen' = IF HasRoom(r) THEN seen \cup {r} ELSE seen
  /\ pending' = pending \ {r}
  /\ lost' = [lost EXCEPT ![r] = 0]
  /\ UNCHANGED alive

\* handle_response_packet with a goodbye: the owner leaves properly.
Goodbye(r) ==
  /\ r \in alive
  /\ cache' = IF r \in Cached
              THEN [cache EXCEPT ![r] = expire_in_one_second(@, "GOODBYE_FINAL")] ELSE cache
  /\ alive' = alive \ {r}
  /\ pending' = pending \ {r}
  /\ seen' = seen \ {r}
  /\ lost' = [lost EXCEPT ![r] = 0]

\* handle_query_packet: another host asks for k and lists what it knows.
handle_query_packet(k, a, known) ==
  /\ \E at \in [known -> Expiries(80)] :
       cache' = [r \in Record |->
                   IF r \in Cached /\ KeyOf[r] = k
                   THEN IF r \in known THEN unpoofed(poofed(cache[r], a), a, at[r]) ELSE poofed(cache[r], a)
                   ELSE cache[r]]
  /\ pending' = pending \cup ((alive \cap RecordsOf(k)) \ known)
  /\ UNCHANGED <<alive, lost, seen>>

\* elapse_func, for an entry whose time has come: it is removed, or asked for again.
elapse_func(r) ==
  /\ r \in Cached /\ cache[r].left = 0
  /\ \E e \in elapsed(cache[r]) :
       /\ cache' = [cache EXCEPT ![r] = e]
       /\ pending' = IF e # None /\ KeyOf[r] \in Subscribed
                     THEN pending \cup {q \in alive : KeyOf[q] = KeyOf[r] /\ ~KnownAnswer(q)}
                     ELSE pending
  /\ UNCHANGED <<alive, lost, seen>>

\* avahi_cache_flush: the interface is no longer relevant.
avahi_cache_flush ==
  /\ Cached # {}
  /\ cache' = [r \in Record |-> None]
  /\ seen' = {}
  /\ UNCHANGED <<alive, pending, lost>>

-----------------------------------------------------------------------------
(* The other hosts, the network and the clock.                             *)

\* r gets an owner; a unique record replaces the one its owner had before.
Appear(r) ==
  LET old == IF KeyOf[r] \in Unique THEN RecordsOf(KeyOf[r]) \ {r} ELSE {}
  IN /\ r \notin alive
     /\ alive' = (alive \ old) \cup {r}
     /\ pending' = pending \ old
     /\ seen' = seen \ old
     /\ lost' = [q \in Record |-> IF q \in old THEN 0 ELSE lost[q]]
     /\ UNCHANGED cache

\* The owner of r leaves without a word.
Vanish(r) ==
  /\ r \in alive
  /\ alive' = alive \ {r}
  /\ pending' = pending \ {r}
  /\ seen' = seen \ {r}
  /\ lost' = [lost EXCEPT ![r] = 0]
  /\ UNCHANGED cache

Lose(r) ==
  /\ r \in pending /\ lost[r] < MaxLost
  /\ pending' = pending \ {r}
  /\ lost' = [lost EXCEPT ![r] = @ + 1]
  /\ UNCHANGED <<cache, alive, seen>>

Older(e) ==
  IF e.state = "none" THEN e
  ELSE [e EXCEPT !.age = IF @ < MaxAge THEN @ + 1 ELSE @,
                 !.left = @ - 1,
                 !.poof_age = IF @ < Second THEN @ + 1 ELSE @]

Tick ==
  /\ pending = {} /\ \A r \in Cached : cache[r].left > 0
  /\ cache' = [r \in Record |-> Older(cache[r])]
  /\ UNCHANGED <<alive, pending, lost, seen>>

-----------------------------------------------------------------------------
\* avahi_cache_new
Init ==
  /\ cache = [r \in Record |-> None]
  /\ alive = {}
  /\ pending = {}
  /\ lost = [r \in Record |-> 0]
  /\ seen = {}

\* What happens to one record, or to all of them
RecordNext ==
  \/ \E r \in Record : \/ avahi_cache_update(r) \/ Goodbye(r) \/ elapse_func(r)
                       \/ Appear(r) \/ Vanish(r) \/ Lose(r)
  \/ avahi_cache_flush
  \/ Tick

QueryPacketNext ==
  \E k \in Key, a \in Address :
    \E known \in SUBSET RecordsOf(k) : handle_query_packet(k, a, known)

Next == RecordNext \/ QueryPacketNext

Spec == Init /\ [][Next]_vars

\* The event loop runs what is due, and answers arrive or are lost.
CacheDeadlines ==
  \A r \in Record : /\ WF_vars(elapse_func(r))
                    /\ WF_vars(r \in pending /\ (avahi_cache_update(r) \/ Lose(r)))

\* Time passes.
FairSpec == Spec /\ []<><<Tick>>_vars /\ CacheDeadlines

-----------------------------------------------------------------------------
TypeOK ==
  /\ cache \in [Record -> Entry]
  /\ alive \subseteq Record
  /\ pending \subseteq alive
  /\ lost \in [Record -> 0..MaxLost]
  /\ seen \subseteq alive

\* A record whose owner is there and whose key we ask for stays in the cache, although
\* MaxLost answers in a row are lost and other hosts' queries seem to go unanswered:
\* the refresh queries at 80, 85, 90 and 95% of the TTL come in time.
LiveRecordsStay == \A r \in seen : KeyOf[r] \in Subscribed => r \in Cached

\* Whatever sequence of refreshes, observed failures, known answers and timers an entry
\* goes through, its time event never lies beyond the end of its TTL and the jitter of 2%,
\* unless a goodbye or a flush gives it another second.
NoEntryOutlivesTTL ==
  \A r \in Cached : cache[r].state \notin {"GOODBYE_FINAL", "REPLACE_FINAL"} =>
                      cache[r].age + cache[r].left <= EndOfLife

\* The cache never holds more than n_cache_entries_max entries.
WithinLimit == Cardinality(Cached) <= MaxEntries

\* An outdated unique record is forgotten once its key is quiet: no packet about the key
\* arrives any more.  Until then every flush puts the removal off by another second.
OutdatedRecordsLeave ==
  \A r \in Record :
    <>[](r \notin alive) /\ <>[][\A q \in RecordsOf(KeyOf[r]) : ~avahi_cache_update(q)]_vars
      => <>[](r \notin Cached)
=============================================================================
