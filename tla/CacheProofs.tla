---------------------------- MODULE CacheProofs ----------------------------
(***************************************************************************)
(* Proofs about the record cache and about the record browsers that scan   *)
(* the caches.                                                             *)
(*                                                                         *)
(* The cache: for any finite set of records, any TTL that the units        *)
(* resolve, any limit, any number of lost packets and any jitter of the    *)
(* time events.  That no entry outlives its TTL and the jitter is not      *)
(* inductive: passive observation of failure gives an entry another second *)
(* and a known answer takes it back to VALID, so one has to know how old   *)
(* an entry can be in these states.  EntryInv says it; it is a condition   *)
(* on each entry by itself.                                                *)
(*                                                                         *)
(* That live records stay relates an entry to the answers that were lost   *)
(* and those under way: every question asked since the entry was refreshed *)
(* has used one of them up (InTime), and there are more questions than     *)
(* answers may be lost in a row.                                           *)
(*                                                                         *)
(* A record browser: for any names, interfaces and number of lookups.      *)
(* While it runs, everything cached for one of its lookups is known        *)
(* (BrowserIInv): its client was told of it or, if it is a CNAME record,   *)
(* it is followed, as far as there is room.  In between that is not so:    *)
(* callbacks of a scan start other scans, so what holds there is that what *)
(* is not known is to be called yet (Covered).  The calls come to an end   *)
(* because each new lookup takes one of the free places (Room): with the   *)
(* calls to come, the calls that they can lead to become fewer (Left).     *)
(***************************************************************************)
EXTENDS Cache, RecordBrowser, FiniteSetTheorems, TLAPS

\* The stages of expiry lie in their order, none beyond the end of life.
LEMMA Stages ==
  /\ \A p \in {80, 82, 85, 87, 90, 92, 95, 97, 100, 102} : Stage(p) \in Nat /\ Stage(p) <= EndOfLife
  /\ Stage(80) <= Stage(82) /\ Stage(82) + Second <= EndOfLife
  /\ Stage(102) = EndOfLife
  /\ EndOfLife \in Nat /\ Second \in Nat /\ 0 < Second
BY CacheAssumption DEF Stage, EndOfLife

Percents == {80, 85, 90, 95, 100}

LEMMA ExpiriesLieInLife ==
  ASSUME NEW p \in Percents, NEW at \in Expiries(p)
  PROVE  /\ at \in 0..EndOfLife
         /\ p = 80 => at <= Stage(82)
<1>1. Stage(p) \in Nat /\ Stage(p + 2) \in Nat /\ Stage(p + 2) <= EndOfLife
  BY Stages DEF Percents
<1>2. at \in Stage(p)..Stage(p + 2)
  BY DEF Expiries
<1> QED
  BY <1>1, <1>2, Stages

EntryInv(e) ==
  /\ e \in Entry
  /\ e.state \in {"VALID", "POOF"} => e.age <= Stage(82) + Second
  /\ e.state = "VALID" => e.age + e.left <= Stage(82) \/ e.left = 0
  /\ e.state = "POOF" => e.age + e.left <= Stage(82) \/ (e.left = 0 /\ e.poof_age = 0)
  /\ e.state = "POOF" => e.poof_num <= 3
  /\ e.state = "POOF_FINAL" => e.age + e.left <= Stage(82) + Second
  /\ e.state \in {"EXPIRY1", "EXPIRY2", "EXPIRY3", "EXPIRY_FINAL"} => e.age + e.left <= EndOfLife

IInv ==
  /\ \A r \in Record : EntryInv(cache[r])
  /\ TypeOK
  /\ WithinLimit

-----------------------------------------------------------------------------
(* Entries.                                                                *)

\* next_expiry leaves everything but the time event alone.
LEMMA NextExpiryOK ==
  ASSUME NEW e \in Entry, NEW at \in 0..EndOfLife
  PROVE  LET f == next_expiry(e, at) IN
         /\ f \in Entry
         /\ f.state = e.state /\ f.age = e.age /\ f.poof_age = e.poof_age
         /\ f.left = 0 \/ f.age + f.left = at
<1> DEFINE l == IF at > e.age THEN at - e.age ELSE 0
<1>1. next_expiry(e, at) = [e EXCEPT !.left = l]
  BY DEF next_expiry
<1>2. e.age \in Nat
  BY DEF Entry
<1>3. l \in 0..EndOfLife /\ (l = 0 \/ e.age + l = at)
  BY <1>2, Stages
<1> HIDE DEF l
<1>4. [e EXCEPT !.left = l] \in Entry
  BY <1>3 DEF Entry
<1> QED
  BY <1>1, <1>3, <1>4 DEF Entry

\* No entry at all is fine.
LEMMA NoneOK == EntryInv(None) /\ None.state = "none"
BY Stages DEF EntryInv, None, Entry, MaxAge, States

\* A goodbye, or a flush.
LEMMA OneSecondOK ==
  ASSUME NEW e \in Entry, NEW s \in {"GOODBYE_FINAL", "REPLACE_FINAL"}
  PROVE  EntryInv(expire_in_one_second(e, s)) /\ expire_in_one_second(e, s).state = s
<1>1. Second \in 0..EndOfLife /\ s \in States
  BY Stages DEF States, OneSecondStates
<1>2. [e EXCEPT !.state = s, !.left = Second] \in Entry
  BY <1>1 DEF Entry
<1>3. expire_in_one_second(e, s).state = s
  BY DEF expire_in_one_second, Entry
<1> QED
  BY <1>2, <1>3 DEF EntryInv, expire_in_one_second

\* The record was received.
LEMMA RefreshedOK ==
  ASSUME NEW e \in Entry, NEW at \in Expiries(80)
  PROVE  EntryInv(refreshed(e, at)) /\ refreshed(e, at).state = "VALID"
<1> DEFINE f == [e EXCEPT !.state = "VALID", !.age = 0]
<1>1. f \in Entry /\ f.state = "VALID" /\ f.age = 0
  <2>1. 0 \in 0..MaxAge /\ "VALID" \in States
    BY Stages DEF MaxAge, States
  <2> QED
    BY <2>1 DEF Entry
<1>2. refreshed(e, at) = next_expiry(f, at)
  BY DEF refreshed
<1>3. at \in 0..EndOfLife /\ at <= Stage(82)
  BY ExpiriesLieInLife DEF Percents
<1> HIDE DEF f
<1>4. PICK g \in Entry : /\ g = refreshed(e, at) /\ g.state = "VALID" /\ g.age = 0
                         /\ g.left = 0 \/ g.age + g.left = at
  BY <1>1, <1>2, <1>3, NextExpiryOK
<1>5. Stage(82) \in Nat
  BY Stages
<1> QED
  BY <1>3, <1>4, <1>5, Stages DEF EntryInv

\* The entry goes to one of the states in which it is asked for.
LEMMA LaterOK ==
  ASSUME NEW e \in Entry, e.age <= EndOfLife, NEW p \in Percents,
         NEW s \in {"EXPIRY1", "EXPIRY2", "EXPIRY3", "EXPIRY_FINAL"}, NEW g \in Later(e, s, p)
  PROVE  EntryInv(g)
<1>1. PICK at \in Expiries(p) : g = next_expiry([e EXCEPT !.state = s], at)
  BY DEF Later
<1> DEFINE f == [e EXCEPT !.state = s]
<1>2. f \in Entry /\ f.state = s /\ f.age = e.age
  BY DEF Entry, States
<1>3. at \in 0..EndOfLife /\ e.age \in Nat
  BY ExpiriesLieInLife DEF Entry
<1>4. g = next_expiry(f, at)
  BY <1>1
<1> HIDE DEF f
<1>5. /\ g \in Entry /\ g.state = s /\ g.age = e.age
      /\ g.left = 0 \/ g.age + g.left = at
  BY <1>2, <1>3, <1>4, NextExpiryOK
<1> QED
  BY <1>3, <1>5 DEF EntryInv

\* The entry's time has come.
LEMMA ElapsedOK ==
  ASSUME NEW e, EntryInv(e), e.state # "none", e.left = 0, NEW g \in elapsed(e)
  PROVE  EntryInv(g)
<1>1. e \in Entry /\ e.age \in Nat
  BY DEF EntryInv, Entry
<1>2. CASE e.state \in {"VALID", "POOF", "EXPIRY1", "EXPIRY2", "EXPIRY3"}
  <2>1. e.age <= EndOfLife
    BY <1>1, <1>2, Stages DEF EntryInv
  <2>2. \E p \in Percents, s \in {"EXPIRY1", "EXPIRY2", "EXPIRY3", "EXPIRY_FINAL"} : g \in Later(e, s, p)
    BY <1>2 DEF elapsed, Percents
  <2> QED
    BY <1>1, <2>1, <2>2, LaterOK
<1>3. CASE e.state \notin {"VALID", "POOF", "EXPIRY1", "EXPIRY2", "EXPIRY3"}
  BY <1>3, NoneOK DEF elapsed
<1> QED
  BY <1>2, <1>3

\* Another host asks for the record.
LEMMA PoofedOK ==
  ASSUME NEW e, EntryInv(e), NEW a \in Address
  PROVE  EntryInv(poofed(e, a)) /\ (poofed(e, a).state = "none" <=> e.state = "none")
<1>0. e \in Entry /\ e.age \in Nat /\ e.left \in Nat /\ e.poof_num \in Nat /\ e.poof_age \in Nat
  BY Stages DEF EntryInv, Entry
<1>1. CASE e.state = "VALID"
  <2> DEFINE f == [e EXCEPT !.state = "POOF", !.poof_address = a, !.poof_age = 0, !.poof_num = 0]
  <2>1. 0 \in 0..Second /\ 0 \in 0..4 /\ "POOF" \in States \cup {"none"}
    BY Stages DEF States
  <2>2. f \in Entry
    <3> DEFINE g == [e EXCEPT !.state = "POOF", !.poof_address = a]
    <3>1. g \in Entry
      BY <1>0, <2>1 DEF Entry
    <3>2. f = [g EXCEPT !.poof_age = 0, !.poof_num = 0]
      OBVIOUS
    <3> HIDE DEF f, g
    <3> QED
      BY <2>1, <3>1, <3>2 DEF Entry
  <2>4. /\ f.state = "POOF" /\ f.poof_age = 0 /\ f.poof_num = 0
        /\ f.age = e.age /\ f.left = e.left
    BY <1>0 DEF Entry
  <2>3. poofed(e, a) = f
    BY <1>1 DEF poofed
  <2> HIDE DEF f
  <2> QED
    BY <1>0, <1>1, <2>2, <2>3, <2>4, Stages DEF EntryInv
<1>2. CASE e.state = "POOF" /\ e.poof_age >= Second
  <2> DEFINE p == [e EXCEPT !.poof_address = a, !.poof_age = 0, !.poof_num = @ + 1]
  <2>1. 0 \in 0..Second /\ e.poof_num + 1 \in 0..4 /\ e.age + e.left <= Stage(82)
    BY <1>0, <1>2, Stages DEF EntryInv
  <2>2. /\ p \in Entry /\ p.state = "POOF" /\ p.poof_age = 0 /\ p.poof_num = e.poof_num + 1
        /\ p.age = e.age /\ p.left = e.left
    BY <1>0, <1>2, <2>1 DEF Entry
  <2>3. poofed(e, a) = IF p.poof_num > 3 THEN expire_in_one_second(p, "POOF_FINAL") ELSE p
    BY <1>2 DEF poofed
  <2> HIDE DEF p
  <2>4. CASE p.poof_num > 3
    <3> DEFINE f == [p EXCEPT !.state = "POOF_FINAL", !.left = Second]
    <3>1. Second \in 0..EndOfLife /\ "POOF_FINAL" \in States
      BY Stages DEF States, OneSecondStates
    <3>2. f \in Entry /\ f.state = "POOF_FINAL" /\ f.age = e.age /\ f.left = Second
      BY <2>2, <3>1 DEF Entry
    <3>3. poofed(e, a) = f
      BY <2>3, <2>4 DEF expire_in_one_second
    <3> HIDE DEF f
    <3> QED
      BY <1>0, <1>2, <2>1, <3>2, <3>3, Stages DEF EntryInv
  <2>5. CASE ~(p.poof_num > 3)
    BY <1>0, <1>2, <2>1, <2>2, <2>3, <2>5, Stages DEF EntryInv
  <2> QED
    BY <2>4, <2>5
<1>3. CASE e.state # "VALID" /\ ~(e.state = "POOF" /\ e.poof_age >= Second)
  BY <1>3 DEF poofed
<1> QED
  BY <1>1, <1>2, <1>3

\* Another host knows the record.
LEMMA UnpoofedOK ==
  ASSUME NEW e, EntryInv(e), NEW a, NEW at \in Expiries(80)
  PROVE  EntryInv(unpoofed(e, a, at)) /\ (unpoofed(e, a, at).state = "none" <=> e.state = "none")
<1>0. e \in Entry /\ e.age \in Nat /\ e.left \in Nat
  BY Stages DEF EntryInv, Entry
<1>1. CASE e.state \in {"POOF", "POOF_FINAL"} /\ e.poof_address = a
  <2> DEFINE f == [e EXCEPT !.state = "VALID"]
  <2>1. f \in Entry /\ f.state = "VALID" /\ f.age = e.age
    BY <1>0 DEF Entry, States
  <2>2. unpoofed(e, a, at) = next_expiry(f, at)
    BY <1>1 DEF unpoofed
  <2>3. e.age <= Stage(82) + Second
    BY <1>0, <1>1, Stages DEF EntryInv
  <2>4. at \in 0..EndOfLife /\ at <= Stage(82)
    BY ExpiriesLieInLife DEF Percents
  <2> HIDE DEF f
  <2>5. PICK g \in Entry : /\ g = unpoofed(e, a, at) /\ g.state = "VALID" /\ g.age = e.age
                           /\ g.left = 0 \/ g.age + g.left = at
    BY <2>1, <2>2, <2>4, NextExpiryOK
  <2> QED
    BY <1>0, <1>1, <2>3, <2>4, <2>5, Stages DEF EntryInv
<1>2. CASE ~(e.state \in {"POOF", "POOF_FINAL"} /\ e.poof_address = a)
  BY <1>2 DEF unpoofed
<1> QED
  BY <1>1, <1>2

\* Time passes.
LEMMA OlderOK ==
  ASSUME NEW e, EntryInv(e), e.state # "none" => e.left > 0
  PROVE  EntryInv(Older(e)) /\ (Older(e).state = "none" <=> e.state = "none")
<1>0. /\ e \in Entry /\ e.age \in 0..MaxAge /\ e.left \in 0..EndOfLife /\ e.poof_age \in 0..Second
      /\ MaxAge \in Nat
  BY Stages DEF EntryInv, Entry, MaxAge
<1>1. CASE e.state = "none"
  BY <1>1 DEF Older
<1>2. CASE e.state # "none"
  <2> DEFINE g == IF e.age < MaxAge THEN e.age + 1 ELSE e.age
             l == e.left - 1
             q == IF e.poof_age < Second THEN e.poof_age + 1 ELSE e.poof_age
  <2>1. /\ g \in 0..MaxAge /\ g <= e.age + 1
        /\ l \in 0..EndOfLife /\ l + 1 = e.left
        /\ q \in 0..Second
    BY <1>0, <1>2, Stages
  <2>2. Older(e) = [e EXCEPT !.age = g, !.left = l, !.poof_age = q]
    BY <1>2 DEF Older
  <2> HIDE DEF g, l, q
  <2>3. /\ Older(e) \in Entry /\ Older(e).state = e.state /\ Older(e).age = g
        /\ Older(e).left = l /\ Older(e).poof_num = e.poof_num
    BY <1>0, <2>1, <2>2 DEF Entry
  <2>4. g + l <= e.age + e.left
    BY <1>0, <2>1, Stages
  <2>5. g \in Nat /\ l \in Nat /\ e.age \in Nat /\ e.left \in Nat /\ e.left # 0
    BY <1>0, <2>1, Stages
  <2> HIDE DEF Stage
  <2> QED
    BY <1>2, <2>3, <2>4, <2>5, Stages DEF EntryInv
<1> QED
  BY <1>1, <1>2

-----------------------------------------------------------------------------
(* The cache.                                                              *)

CachedIn(c) == {r \in Record : c[r].state # "none"}

\* Sets of cached records can be counted.
LEMMA CachedFinite ==
  ASSUME NEW S \in SUBSET Record
  PROVE  IsFiniteSet(S) /\ Cardinality(S) \in Nat
BY CacheAssumption, FS_Subset, FS_CardinalityType

\* The invariant, put together from what a step makes of the cache.
LEMMA Assemble ==
  ASSUME IInv,
         cache' = [r \in Record |-> cache'[r]],
         \A r \in Record : EntryInv(cache'[r]),
         CachedIn(cache') \in SUBSET Cached,
         alive' \subseteq Record, pending' \subseteq alive', seen' \subseteq alive',
         lost' \in [Record -> 0..MaxLost]
  PROVE  IInv'
<1>1. cache' \in [Record -> Entry]
  BY DEF EntryInv
<1>2. TypeOK'
  BY <1>1 DEF TypeOK
<1>3. Cached' = CachedIn(cache')
  BY DEF Cached, CachedIn
<1>4. Cached \in SUBSET Record /\ CachedIn(cache') \in SUBSET Record
  BY DEF Cached, CachedIn
<1>5. Cardinality(CachedIn(cache')) <= Cardinality(Cached)
  BY <1>4, CachedFinite, FS_Subset
<1>6. WithinLimit'
  BY <1>3, <1>4, <1>5, CachedFinite, CacheAssumption DEF IInv, WithinLimit
<1>7. \A r \in Record : EntryInv(cache[r])'
  BY DEF EntryInv, Stage, EndOfLife, Entry, MaxAge, States, OneSecondStates
<1> QED
  BY <1>2, <1>6, <1>7 DEF IInv

\* A record is received.
LEMMA UpdateOK ==
  ASSUME IInv, NEW r \in Record, avahi_cache_update(r)
  PROVE  IInv'
<1>0. TypeOK /\ WithinLimit /\ \A q \in Record : EntryInv(cache[q])
  BY DEF IInv
<1> DEFINE c == Flushed(r)
<1>1. c = [q \in Record |-> c[q]]
  BY DEF Flushed
<1>2. \A q \in Record : EntryInv(c[q]) /\ (c[q].state = "none" <=> cache[q].state = "none")
  <2> SUFFICES ASSUME NEW q \in Record
               PROVE  EntryInv(c[q]) /\ (c[q].state = "none" <=> cache[q].state = "none")
    OBVIOUS
  <2>1. cache[q] \in Entry
    BY <1>0 DEF EntryInv
  <2>2. \/ c[q] = cache[q]
        \/ q \in Cached /\ c[q] = expire_in_one_second(cache[q], "REPLACE_FINAL")
    BY DEF Flushed
  <2> QED
    BY <1>0, <2>1, <2>2, OneSecondOK DEF Cached
<1>3. /\ alive' \subseteq Record /\ pending' \subseteq alive' /\ seen' \subseteq alive'
      /\ lost' \in [Record -> 0..MaxLost]
  BY <1>0, CacheAssumption DEF avahi_cache_update, TypeOK
<1>4. IF HasRoom(r) THEN \E at \in Expiries(80) : cache' = [c EXCEPT ![r] = refreshed(c[r], at)]
                    ELSE cache' = c
  BY DEF avahi_cache_update
<1> HIDE DEF c
<1>5. CASE ~HasRoom(r)
  <2>1. CachedIn(cache') \in SUBSET Cached
    BY <1>2, <1>4, <1>5 DEF CachedIn, Cached
  <2> QED
    BY <1>1, <1>2, <1>3, <1>4, <1>5, <2>1, Assemble
<1>6. CASE HasRoom(r)
  <2>0. PICK at \in Expiries(80) : cache' = [c EXCEPT ![r] = refreshed(c[r], at)]
    BY <1>4, <1>6
  <2>1. c[r] \in Entry
    BY <1>2 DEF EntryInv
  <2>2. EntryInv(refreshed(c[r], at)) /\ refreshed(c[r], at).state = "VALID"
    BY <2>1, RefreshedOK
  <2>3. cache' = [q \in Record |-> IF q = r THEN refreshed(c[r], at) ELSE c[q]]
    BY <1>1, <2>0
  <2>4. cache' = [q \in Record |-> cache'[q]] /\ \A q \in Record : EntryInv(cache'[q])
    BY <1>2, <2>2, <2>3
  <2>5. CachedIn(cache') = Cached \cup {r}
    BY <1>2, <2>2, <2>3 DEF CachedIn, Cached
  <2>6. CASE r \in Cached
    <3>1. CachedIn(cache') \in SUBSET Cached
      BY <2>5, <2>6
    <3> QED
      BY <1>3, <2>4, <3>1, Assemble
  <2>7. CASE r \notin Cached
    <3>1. Cached \in SUBSET Record /\ IsFiniteSet(Cached) /\ Cardinality(Cached) \in Nat
      BY CachedFinite DEF Cached
    <3>2. Cardinality(Cached \cup {r}) = Cardinality(Cached) + 1
      BY <2>7, <3>1, FS_AddElement
    <3>3. Cardinality(Cached) < MaxEntries
      BY <1>6, <2>7 DEF HasRoom
    <3>4. Cached' = CachedIn(cache')
      BY DEF Cached, CachedIn
    <3>5. WithinLimit'
      BY <2>5, <3>1, <3>2, <3>3, <3>4, CacheAssumption DEF WithinLimit
    <3>6. cache' \in [Record -> Entry]
      BY <2>4 DEF EntryInv
    <3>7. TypeOK'
      BY <1>3, <3>6 DEF TypeOK
    <3>8. \A q \in Record : EntryInv(cache[q])'
      BY <2>4 DEF EntryInv, Stage, EndOfLife, Entry, MaxAge, States, OneSecondStates
    <3> QED
      BY <3>5, <3>7, <3>8 DEF IInv
  <2> QED
    BY <2>6, <2>7
<1> QED
  BY <1>5, <1>6

\* The other packets, the timers and the clock only change entries or take them out.
LEMMA StepIInv == IInv /\ [Next]_vars => IInv'
<1> SUFFICES ASSUME IInv, [Next]_vars PROVE IInv'
  OBVIOUS
<1>0. TypeOK /\ \A q \in Record : EntryInv(cache[q])
  BY DEF IInv
<1>00. cache = [q \in Record |-> cache[q]] /\ CachedIn(cache) \in SUBSET Cached
  BY <1>0 DEF TypeOK, CachedIn, Cached
<1>1. ASSUME NEW r \in Record, avahi_cache_update(r) PROVE IInv'
  BY <1>1, UpdateOK
<1>2. ASSUME NEW r \in Record, Goodbye(r) PROVE IInv'
  <2>1. /\ alive' \subseteq Record /\ pending' \subseteq alive' /\ seen' \subseteq alive'
        /\ lost' \in [Record -> 0..MaxLost]
    BY <1>0, <1>2, CacheAssumption DEF Goodbye, TypeOK
  <2>2. CASE r \in Cached
    <3> DEFINE e == expire_in_one_second(cache[r], "GOODBYE_FINAL")
    <3>1. EntryInv(e)
      BY <1>0, OneSecondOK DEF EntryInv
    <3>2. cache' = [cache EXCEPT ![r] = e]
      BY <1>2, <2>2 DEF Goodbye
    <3> HIDE DEF e
    <3>3. cache' = [q \in Record |-> IF q = r THEN e ELSE cache[q]]
      BY <1>00, <3>2
    <3>4. CachedIn(cache') \in SUBSET Cached
      BY <2>2, <3>3 DEF CachedIn, Cached
    <3>5. cache' = [q \in Record |-> cache'[q]] /\ \A q \in Record : EntryInv(cache'[q])
      BY <1>0, <3>1, <3>3
    <3> QED
      BY <2>1, <3>4, <3>5, Assemble
  <2>3. CASE r \notin Cached
    <3>1. cache' = cache
      BY <1>2, <2>3 DEF Goodbye
    <3> QED
      BY <1>0, <1>00, <2>1, <3>1, Assemble
  <2> QED
    BY <2>2, <2>3
<1>3. ASSUME NEW r \in Record, elapse_func(r) PROVE IInv'
  <2>2. PICK e \in elapsed(cache[r]) : cache' = [cache EXCEPT ![r] = e] /\ r \in Cached
    BY <1>3 DEF elapse_func
  <2>1. EntryInv(e)
    BY <1>0, <1>3, ElapsedOK DEF elapse_func, Cached
  <2>3. /\ alive' \subseteq Record /\ pending' \subseteq alive' /\ seen' \subseteq alive'
        /\ lost' \in [Record -> 0..MaxLost]
    BY <1>0, <1>3 DEF elapse_func, TypeOK
  <2>4. cache' = [q \in Record |-> IF q = r THEN e ELSE cache[q]]
    BY <1>00, <2>2
  <2>5. CachedIn(cache') \in SUBSET Cached
    BY <2>2, <2>4 DEF CachedIn, Cached
  <2>6. cache' = [q \in Record |-> cache'[q]] /\ \A q \in Record : EntryInv(cache'[q])
    BY <1>0, <2>1, <2>4
  <2> QED
    BY <2>3, <2>5, <2>6, Assemble
<1>4. ASSUME NEW k \in Key, NEW a \in Address, NEW known \in SUBSET RecordsOf(k),
             handle_query_packet(k, a, known)
      PROVE  IInv'
  <2>1. PICK at \in [known -> Expiries(80)] :
          cache' = [r \in Record |->
                     IF r \in Cached /\ KeyOf[r] = k
                     THEN IF r \in known THEN unpoofed(poofed(cache[r], a), a, at[r])
                                         ELSE poofed(cache[r], a)
                     ELSE cache[r]]
    BY <1>4 DEF handle_query_packet
  <2>2. \A r \in Record : EntryInv(poofed(cache[r], a))
                          /\ (poofed(cache[r], a).state = "none" <=> cache[r].state = "none")
    BY <1>0, PoofedOK
  <2>3. \A r \in Record : r \in known =>
          /\ EntryInv(unpoofed(poofed(cache[r], a), a, at[r]))
          /\ unpoofed(poofed(cache[r], a), a, at[r]).state = "none" <=> cache[r].state = "none"
    BY <2>2, UnpoofedOK
  <2>4. \A r \in Record :
          EntryInv(cache'[r]) /\ (cache'[r].state = "none" <=> cache[r].state = "none")
    BY <1>0, <2>1, <2>2, <2>3
  <2>5. CachedIn(cache') \in SUBSET Cached
    BY <2>4 DEF CachedIn, Cached
  <2>6. cache' = [r \in Record |-> cache'[r]]
    BY <2>1
  <2>7. /\ alive' \subseteq Record /\ pending' \subseteq alive' /\ seen' \subseteq alive'
        /\ lost' \in [Record -> 0..MaxLost]
    BY <1>0, <1>4 DEF handle_query_packet, TypeOK
  <2> QED
    BY <2>4, <2>5, <2>6, <2>7, Assemble
<1>5. ASSUME avahi_cache_flush PROVE IInv'
  <2>1. cache' = [r \in Record |-> None]
    BY <1>5 DEF avahi_cache_flush
  <2>2. \A r \in Record : EntryInv(cache'[r]) /\ cache'[r].state = "none"
    BY <2>1, NoneOK
  <2>3. CachedIn(cache') \in SUBSET Cached
    BY <2>2 DEF CachedIn
  <2>4. /\ alive' \subseteq Record /\ pending' \subseteq alive' /\ seen' \subseteq alive'
        /\ lost' \in [Record -> 0..MaxLost]
    BY <1>0, <1>5 DEF avahi_cache_flush, TypeOK
  <2>5. cache' = [r \in Record |-> cache'[r]]
    BY <2>1
  <2> QED
    BY <2>2, <2>3, <2>4, <2>5, Assemble
<1>6. ASSUME NEW r \in Record, Appear(r) \/ Vanish(r) \/ Lose(r) PROVE IInv'
  <2>1. cache' = cache
    BY <1>6 DEF Appear, Vanish, Lose
  <2>2. /\ alive' \subseteq Record /\ pending' \subseteq alive' /\ seen' \subseteq alive'
        /\ lost' \in [Record -> 0..MaxLost]
    <3>1. CASE Appear(r)
      BY <1>0, <3>1, CacheAssumption DEF Appear, TypeOK, RecordsOf
    <3>2. CASE Vanish(r)
      BY <1>0, <3>2, CacheAssumption DEF Vanish, TypeOK
    <3>3. CASE Lose(r)
      BY <1>0, <3>3, CacheAssumption DEF Lose, TypeOK
    <3> QED
      BY <1>6, <3>1, <3>2, <3>3
  <2> QED
    BY <1>0, <1>00, <2>1, <2>2, Assemble
<1>7. ASSUME Tick PROVE IInv'
  <2>1. cache' = [r \in Record |-> Older(cache[r])]
    BY <1>7 DEF Tick
  <2>2. \A r \in Record :
          EntryInv(Older(cache[r])) /\ (Older(cache[r]).state = "none" <=> cache[r].state = "none")
    BY <1>0, <1>7, OlderOK DEF Tick, Cached
  <2>3. CachedIn(cache') \in SUBSET Cached
    BY <2>1, <2>2 DEF CachedIn, Cached
  <2>4. cache' = [r \in Record |-> cache'[r]] /\ \A r \in Record : EntryInv(cache'[r])
    BY <2>1, <2>2
  <2>5. /\ alive' \subseteq Record /\ pending' \subseteq alive' /\ seen' \subseteq alive'
        /\ lost' \in [Record -> 0..MaxLost]
    BY <1>0, <1>7 DEF Tick, TypeOK
  <2> QED
    BY <2>3, <2>4, <2>5, Assemble
<1>8. ASSUME UNCHANGED vars PROVE IInv'
  BY <1>0, <1>00, <1>8, Assemble DEF vars, TypeOK
<1> QED
  BY <1>1, <1>2, <1>3, <1>4, <1>5, <1>6, <1>7, <1>8 DEF Next, RecordNext, QueryPacketNext

\* The invariant holds of an empty cache.
LEMMA InitIInv == Init => IInv
<1> SUFFICES ASSUME Init PROVE IInv
  OBVIOUS
<1>1. \A r \in Record : EntryInv(cache[r]) /\ cache[r].state = "none"
  BY NoneOK DEF Init
<1>2. TypeOK
  BY <1>1, CacheAssumption DEF Init, TypeOK, EntryInv
<1>3. Cached = {}
  BY <1>1 DEF Cached
<1>4. WithinLimit
  BY <1>3, FS_EmptySet, CacheAssumption DEF WithinLimit
<1> QED
  BY <1>1, <1>2, <1>4 DEF IInv

\* EntryInv bounds the time event of every entry.
LEMMA IInvLifetime == IInv => NoEntryOutlivesTTL
<1> SUFFICES ASSUME IInv, NEW r \in Cached,
                    cache[r].state \notin {"GOODBYE_FINAL", "REPLACE_FINAL"}
             PROVE  cache[r].age + cache[r].left <= EndOfLife
  BY DEF NoEntryOutlivesTTL
<1> DEFINE e == cache[r]
<1>1. EntryInv(e) /\ e.state # "none"
  BY DEF IInv, Cached
<1> HIDE DEF e
<1>2. e.age \in Nat /\ e.left \in Nat /\ e.state \in States
  BY <1>1, Stages DEF EntryInv, Entry
<1>3. e.state \notin {"GOODBYE_FINAL", "REPLACE_FINAL"}
  BY DEF e
<1>4. e.age + e.left <= EndOfLife
  BY <1>1, <1>2, <1>3, Stages DEF EntryInv, States, OneSecondStates
<1> QED
  BY <1>4 DEF e

\* The cache, its entries and the packets under way have their types.
THEOREM CacheTypes == Spec => []TypeOK
<1>1. IInv => TypeOK
  BY DEF IInv
<1> QED
  BY <1>1, InitIInv, StepIInv, PTL DEF Spec

\* No entry outlives its TTL and the jitter of 2%, whatever refreshes, observed failures,
\* known answers and timers come in which order and whatever the jitter of each is, unless
\* a goodbye or a flush gives it another second.
THEOREM EntriesKeepTheirTTL == Spec => []NoEntryOutlivesTTL
BY InitIInv, StepIInv, IInvLifetime, PTL DEF Spec

\* The cache never holds more than n_cache_entries_max entries.
THEOREM CacheKeepsLimit == Spec => []WithinLimit
<1>1. IInv => WithinLimit
  BY DEF IInv
<1> QED
  BY <1>1, InitIInv, StepIInv, PTL DEF Spec

-----------------------------------------------------------------------------
(* Records that are asked for.                                             *)

Alive == {"VALID", "POOF", "EXPIRY1", "EXPIRY2", "EXPIRY3", "EXPIRY_FINAL"}

\* How many questions about an entry nobody answered since it was last received
Asked(e) ==
  CASE e.state = "POOF" -> e.poof_num + 1
    [] e.state = "EXPIRY1" -> 1 [] e.state = "EXPIRY2" -> 2
    [] e.state = "EXPIRY3" -> 3 [] e.state = "EXPIRY_FINAL" -> 4
    [] OTHER -> 0

\* The part of its TTL at which its time event is due
Due(e) ==
  CASE e.state = "EXPIRY1" -> 85 [] e.state = "EXPIRY2" -> 90
    [] e.state = "EXPIRY3" -> 95 [] e.state = "EXPIRY_FINAL" -> 100
    [] OTHER -> 80

\* An entry is in time: every question was answered by a packet that was lost (l of them) or
\* is under way (p), and while it is under way no further question is due.
InTime(e, l, p) ==
  /\ e.state \in Alive
  /\ e.age + e.left \in Expiries(Due(e))
  /\ Asked(e) <= l + p
  /\ Asked(e) > l => IF e.state = "POOF" THEN e.poof_age < Second ELSE e.left > 0

Awaited(r) == IF r \in pending THEN 1 ELSE 0

\* Owners of unique records are alone, and the live records somebody asks for are in time.
LiveInv ==
  /\ \A q, r \in alive : KeyOf[q] = KeyOf[r] /\ KeyOf[q] \in Unique => q = r
  /\ \A r \in seen : KeyOf[r] \in Subscribed => InTime(cache[r], lost[r], Awaited(r))

\* Also the latest time event of a stage comes before the earliest of the next one.
LEMMA StagesRise ==
  /\ Stage(82) < Stage(85) /\ Stage(87) < Stage(90) /\ Stage(92) < Stage(95) /\ Stage(97) < Stage(100)
  /\ Stage(80) >= TTL \div 2 /\ TTL \div 2 \in Nat
  /\ Stage(80) <= Stage(85) /\ Stage(85) <= Stage(90) /\ Stage(90) <= Stage(95)
  /\ Second \in Nat /\ 0 < Second
BY CacheAssumption DEF Stage

\* When the time event at a percentage is due
LEMMA ExpiryIsAt ==
  ASSUME NEW p \in Percents, NEW at
  PROVE  at \in Expiries(p) <=> at \in Nat /\ Stage(p) <= at /\ at <= Stage(p + 2)
<1>1. Stage(p) \in Nat /\ Stage(p + 2) \in Nat
  BY Stages DEF Percents
<1> QED
  BY <1>1 DEF Expiries

\* A time event that is set for a stage is due in that stage.
LEMMA NextStage ==
  ASSUME NEW e \in Entry, NEW p \in Percents, e.age <= Stage(p + 2), NEW at \in Expiries(p),
         NEW s \in States, NEW f, f = next_expiry([e EXCEPT !.state = s], at)
  PROVE  /\ f \in Entry /\ f.state = s /\ f.age = e.age /\ f.age + f.left \in Expiries(p)
         /\ f.poof_num = e.poof_num /\ f.poof_age = e.poof_age
         /\ e.age < Stage(p) => f.left > 0
<1>1. /\ Stage(p) \in Nat /\ Stage(p + 2) \in Nat /\ e.age \in Nat
      /\ at \in 0..EndOfLife /\ Stage(p) <= at /\ at <= Stage(p + 2)
  BY Stages, ExpiryIsAt, ExpiriesLieInLife DEF Entry, Percents
<1>2. PICK g : g = [e EXCEPT !.state = s]
  OBVIOUS
<1>3. /\ g \in Entry /\ g.state = s /\ g.age = e.age
      /\ g.poof_num = e.poof_num /\ g.poof_age = e.poof_age
  BY <1>2 DEF Entry
<1>4. PICK l \in 0..EndOfLife :
        /\ l = (IF at > g.age THEN at - g.age ELSE 0)
        /\ e.age + l \in Nat /\ Stage(p) <= e.age + l /\ e.age + l <= Stage(p + 2)
        /\ e.age < Stage(p) => l > 0
  BY <1>1, <1>3, Stages
<1>5. f = [g EXCEPT !.left = l]
  BY <1>2, <1>4 DEF next_expiry
<1>6. e.age + l \in Expiries(p)
  BY <1>4, ExpiryIsAt
<1> QED
  BY <1>3, <1>4, <1>5, <1>6 DEF Entry

\* The next question is due in its stage, and not at once.
LEMMA LaterStage ==
  ASSUME NEW e \in Entry, NEW p \in Percents, e.age < Stage(p), NEW s \in States,
         NEW f \in Later(e, s, p)
  PROVE  f.state = s /\ f.age + f.left \in Expiries(p) /\ f.left > 0
<1>1. PICK at \in Expiries(p) : f = next_expiry([e EXCEPT !.state = s], at)
  BY DEF Later
<1>2. e.age <= Stage(p + 2)
  BY <1>1, Stages, ExpiryIsAt DEF Entry, Percents
<1> QED
  BY <1>1, <1>2, NextStage

\* Its time has come: somebody asks again.
LEMMA InTimeElapsed ==
  ASSUME NEW e \in Entry, NEW l \in 0..3, NEW p \in 0..1, InTime(e, l, p), e.left = 0,
         NEW f \in elapsed(e)
  PROVE  InTime(f, l, 1) /\ f.state # "none" /\ e.age >= TTL \div 2
<1>0. e.age \in Nat /\ e.poof_num \in Nat /\ e.age \in Expiries(Due(e)) /\ e.state \in Alive
  BY StagesRise DEF Entry, InTime
<1>6. \A n \in {80, 82, 85, 87, 90, 92, 95, 97, 100, 102} : Stage(n) \in Nat
  BY Stages
<1>1. CASE e.state \in {"VALID", "POOF"}
  <2>1. e.age \in Expiries(80) /\ "EXPIRY1" \in States /\ f \in Later(e, "EXPIRY1", 85)
    BY <1>0, <1>1 DEF Due, States, elapsed
  <2>2. Stage(80) <= e.age /\ e.age <= Stage(82)
    BY <2>1, ExpiryIsAt DEF Percents
  <2>3. f.state = "EXPIRY1" /\ f.age + f.left \in Expiries(85) /\ f.left > 0
    BY <1>0, <1>6, <2>1, <2>2, StagesRise, LaterStage DEF Percents
  <2> QED
    BY <1>0, <1>6, <2>2, <2>3, StagesRise DEF InTime, Alive, Asked, Due
<1>2. CASE e.state = "EXPIRY1"
  <2>1. /\ e.age \in Expiries(85) /\ "EXPIRY2" \in States /\ f \in Later(e, "EXPIRY2", 90)
        /\ Asked(e) = 1 /\ 1 <= l
    BY <1>0, <1>2 DEF Due, States, elapsed, Asked, InTime
  <2>2. Stage(85) <= e.age /\ e.age <= Stage(87)
    BY <2>1, ExpiryIsAt DEF Percents
  <2>3. f.state = "EXPIRY2" /\ f.age + f.left \in Expiries(90) /\ f.left > 0
    BY <1>0, <1>6, <2>1, <2>2, StagesRise, LaterStage DEF Percents
  <2> QED
    BY <1>0, <1>6, <2>1, <2>2, <2>3, StagesRise DEF InTime, Alive, Asked, Due
<1>3. CASE e.state = "EXPIRY2"
  <2>1. /\ e.age \in Expiries(90) /\ "EXPIRY3" \in States /\ f \in Later(e, "EXPIRY3", 95)
        /\ Asked(e) = 2 /\ 2 <= l
    BY <1>0, <1>3 DEF Due, States, elapsed, Asked, InTime
  <2>2. Stage(90) <= e.age /\ e.age <= Stage(92)
    BY <2>1, ExpiryIsAt DEF Percents
  <2>3. f.state = "EXPIRY3" /\ f.age + f.left \in Expiries(95) /\ f.left > 0
    BY <1>0, <1>6, <2>1, <2>2, StagesRise, LaterStage DEF Percents
  <2> QED
    BY <1>0, <1>6, <2>1, <2>2, <2>3, StagesRise DEF InTime, Alive, Asked, Due
<1>4. CASE e.state = "EXPIRY3"
  <2>1. /\ e.age \in Expiries(95) /\ "EXPIRY_FINAL" \in States /\ f \in Later(e, "EXPIRY_FINAL", 100)
        /\ Asked(e) = 3 /\ 3 <= l
    BY <1>0, <1>4 DEF Due, States, elapsed, Asked, InTime
  <2>2. Stage(95) <= e.age /\ e.age <= Stage(97)
    BY <2>1, ExpiryIsAt DEF Percents
  <2>3. f.state = "EXPIRY_FINAL" /\ f.age + f.left \in Expiries(100) /\ f.left > 0
    BY <1>0, <1>6, <2>1, <2>2, StagesRise, LaterStage DEF Percents
  <2> QED
    BY <1>0, <1>6, <2>1, <2>2, <2>3, StagesRise DEF InTime, Alive, Asked, Due
<1>5. e.state # "EXPIRY_FINAL"
  BY DEF InTime, Asked
<1> QED
  BY <1>0, <1>1, <1>2, <1>3, <1>4, <1>5 DEF Alive

\* Another host asks.
LEMMA InTimePoofed ==
  ASSUME NEW e \in Entry, NEW l \in 0..3, NEW p \in 0..1, InTime(e, l, p), NEW a \in Address
  PROVE  /\ InTime(poofed(e, a), l, 1) /\ poofed(e, a) \in Entry /\ poofed(e, a).age = e.age
         /\ poofed(e, a).state = "POOF" <=> e.state \in {"VALID", "POOF"}
         /\ poofed(e, a) = e \/ poofed(e, a).poof_address = a
<1>0. /\ e.age \in Nat /\ e.left \in Nat /\ e.poof_num \in Nat /\ e.poof_age \in Nat
      /\ e.state \in Alive
  BY Stages DEF Entry, InTime
<1>1. CASE e.state = "VALID"
  <2>1. PICK f : f = [e EXCEPT !.state = "POOF", !.poof_address = a, !.poof_age = 0, !.poof_num = 0]
    OBVIOUS
  <2>2. 0 \in 0..Second /\ 0 \in 0..4 /\ "POOF" \in States \cup {"none"}
    BY StagesRise DEF States
  <2>3. /\ f.state = "POOF" /\ f.poof_age = 0 /\ f.poof_num = 0 /\ f.poof_address = a
        /\ f.age = e.age /\ f.left = e.left /\ f \in Entry
    BY <2>1, <2>2 DEF Entry
  <2>4. poofed(e, a) = f
    BY <1>1, <2>1 DEF poofed
  <2> QED
    BY <1>0, <1>1, <2>3, <2>4, StagesRise DEF InTime, Alive, Asked, Due
<1>2. CASE e.state = "POOF" /\ e.poof_age >= Second
  <2>0. Asked(e) = e.poof_num + 1 /\ Second \in Nat /\ 0 < Second
    BY <1>2, StagesRise DEF Asked
  <2>7. e.poof_num + 1 <= l
    BY <1>0, <1>2, <2>0 DEF InTime
  <2>1. e.poof_num + 1 <= l /\ e.poof_num + 1 \in 0..4 /\ 0 \in 0..Second
    BY <1>0, <2>0, <2>7
  <2>2. PICK n \in 0..3 : n = e.poof_num + 1
    BY <1>0, <2>1
  <2>3. PICK f : f = [e EXCEPT !.poof_address = a, !.poof_age = 0, !.poof_num = n]
    OBVIOUS
  <2>4. /\ f.state = "POOF" /\ f.poof_age = 0 /\ f.poof_num = n /\ f.poof_address = a
        /\ f.age = e.age /\ f.left = e.left /\ f \in Entry
    BY <1>2, <2>1, <2>2, <2>3 DEF Entry
  <2>5. ~(f.poof_num > 3)
    BY <2>4
  <2>6. poofed(e, a) = f
    BY <1>2, <2>2, <2>3, <2>5 DEF poofed
  <2> QED
    BY <1>0, <1>2, <2>1, <2>2, <2>4, <2>6, StagesRise DEF InTime, Alive, Asked, Due
<1>3. CASE e.state # "VALID" /\ ~(e.state = "POOF" /\ e.poof_age >= Second)
  <2>1. poofed(e, a) = e
    BY <1>3 DEF poofed
  <2> QED
    BY <1>0, <1>3, <2>1 DEF InTime, Asked
<1> QED
  BY <1>1, <1>2, <1>3

\* ... and knows the record.
LEMMA InTimeKnown ==
  ASSUME NEW e \in Entry, NEW l \in 0..3, NEW p \in 0..1, InTime(e, l, p), NEW a \in Address,
         NEW at \in Expiries(80)
  PROVE  InTime(unpoofed(poofed(e, a), a, at), l, p)
<1>1. PICK f \in Entry : /\ f = poofed(e, a) /\ InTime(f, l, 1)
                         /\ f.state = "POOF" <=> e.state \in {"VALID", "POOF"}
                         /\ f = e \/ f.poof_address = a
  BY InTimePoofed
<1>2. CASE f.state \in {"POOF", "POOF_FINAL"} /\ f.poof_address = a
  <2>1. f.state = "POOF" /\ f.age \in Nat /\ f.left \in Nat /\ "VALID" \in States
    BY <1>1, <1>2 DEF InTime, Alive, Entry, States
  <2>2. f.age <= Stage(82) /\ Stage(82) \in Nat
    <3>1. f.age + f.left \in Expiries(80)
      BY <1>1, <2>1 DEF InTime, Due
    <3>2. f.age + f.left <= Stage(82)
      BY <3>1, ExpiryIsAt DEF Percents
    <3> QED
      BY <2>1, <3>2, Stages
  <2>3. PICK g : g = next_expiry([f EXCEPT !.state = "VALID"], at)
    OBVIOUS
  <2>4. g.state = "VALID" /\ g.age + g.left \in Expiries(80)
    BY <2>1, <2>2, <2>3, NextStage DEF Percents
  <2>5. unpoofed(f, a, at) = g
    BY <1>2, <2>3 DEF unpoofed
  <2> QED
    BY <1>1, <2>4, <2>5 DEF InTime, Alive, Asked, Due
<1>3. CASE ~(f.state \in {"POOF", "POOF_FINAL"} /\ f.poof_address = a)
  <2>1. unpoofed(f, a, at) = f
    BY <1>3 DEF unpoofed
  <2>2. f = e
    <3>1. CASE f.state = "POOF"
      BY <1>1, <1>3, <3>1
    <3>2. CASE f.state # "POOF"
      BY <1>1, <3>2 DEF poofed
    <3> QED
      BY <3>1, <3>2
  <2> QED
    BY <1>1, <2>1, <2>2
<1> QED
  BY <1>2, <1>3

LEMMA InTimeRefreshed ==
  ASSUME NEW e \in Entry, NEW p \in 0..1, NEW at \in Expiries(80)
  PROVE  InTime(refreshed(e, at), 0, p)
<1>1. PICK d : d = [e EXCEPT !.age = 0]
  OBVIOUS
<1>2. 0 \in 0..MaxAge /\ "VALID" \in States
  BY Stages DEF MaxAge, States
<1>3. d \in Entry /\ d.age = 0
  BY <1>1, <1>2 DEF Entry
<1>4. PICK f : f = next_expiry([d EXCEPT !.state = "VALID"], at)
  OBVIOUS
<1>5. f.state = "VALID" /\ f.age + f.left \in Expiries(80)
  BY <1>2, <1>3, <1>4, Stages, NextStage DEF Percents
<1>6. refreshed(e, at) = f
  <2>1. [e EXCEPT !.state = "VALID", !.age = 0] = [d EXCEPT !.state = "VALID"]
    BY <1>1, <1>3 DEF Entry
  <2> QED
    BY <1>4, <2>1 DEF refreshed
<1> QED
  BY <1>5, <1>6 DEF InTime, Alive, Asked, Due

LEMMA InTimeOlder ==
  ASSUME NEW e \in Entry, NEW l \in 0..3, InTime(e, l, 0), e.left > 0
  PROVE  InTime(Older(e), l, 0)
<1>0. /\ e.age \in Nat /\ e.left \in Nat /\ e.poof_num \in Nat /\ e.state \in Alive
      /\ Due(e) \in Percents /\ e.age + e.left \in Expiries(Due(e)) /\ Asked(e) <= l
      /\ e.poof_age \in 0..Second
  BY Stages DEF Entry, InTime, Due, Percents
<1>9. e.age + e.left <= EndOfLife
  BY <1>0, Stages, ExpiriesLieInLife
<1>1. e.age < MaxAge /\ e.state # "none"
  BY <1>0, <1>9, Stages DEF MaxAge, Alive
<1>2. PICK g \in 0..MaxAge : g = e.age + 1
  BY <1>0, <1>1, Stages DEF MaxAge
<1>3. PICK h \in 0..EndOfLife : h = e.left - 1
  BY <1>0, <1>9, Stages
<1>4. PICK q \in 0..Second : q = (IF e.poof_age < Second THEN e.poof_age + 1 ELSE e.poof_age)
  BY <1>0, Stages
<1>5. PICK f : f = [e EXCEPT !.age = g, !.left = h, !.poof_age = q]
  OBVIOUS
<1>6. f.state = e.state /\ f.poof_num = e.poof_num /\ f.age = g /\ f.left = h
  BY <1>5 DEF Entry
<1>7. Older(e) = f
  BY <1>1, <1>2, <1>3, <1>4, <1>5 DEF Older
<1>8. Due(f) = Due(e) /\ Asked(f) = Asked(e) /\ g + h = e.age + e.left /\ Asked(e) \in Nat
  BY <1>0, <1>2, <1>3, <1>6 DEF Due, Asked
<1> QED
  BY <1>0, <1>6, <1>7, <1>8 DEF InTime

LEMMA LiveStart == Init => LiveInv
BY DEF Init, LiveInv

\* Answers under way and lost are counted.
LEMMA LiveCounts ==
  ASSUME TypeOK, MaxLost <= 3
  PROVE  \A r \in Record : cache[r] \in Entry /\ lost[r] \in 0..3 /\ Awaited(r) \in 0..1
BY CacheAssumption DEF TypeOK, Awaited

\* An entry that is in time stays so while an answer is awaited.
LEMMA StaysInTime ==
  ASSUME NEW e, NEW l \in 0..3, NEW p \in 0..1, NEW q \in 0..1, p <= q, InTime(e, l, p),
         Asked(e) \in Nat
  PROVE  InTime(e, l, q)
BY DEF InTime

LEMMA LiveUpdate ==
  ASSUME TypeOK, LiveInv, MaxLost <= 3, NEW q \in Record, avahi_cache_update(q)
  PROVE  LiveInv'
<1>1. alive' = alive
  BY DEF avahi_cache_update
<1>2. ASSUME NEW r \in seen', KeyOf[r] \in Subscribed
      PROVE  InTime(cache'[r], lost'[r], Awaited(r)')
  <2>0. /\ r \in Record /\ r \in alive /\ cache[r] \in Entry /\ lost[r] \in 0..3
        /\ Awaited(r)' \in 0..1 /\ lost \in [Record -> 0..MaxLost]
    BY <1>1, LiveCounts DEF TypeOK, avahi_cache_update, Awaited
  <2> DEFINE c == Flushed(q)
  <2>1. IF HasRoom(q) THEN \E at \in Expiries(80) : cache' = [c EXCEPT ![q] = refreshed(c[q], at)]
                      ELSE cache' = c
    BY DEF avahi_cache_update
  <2>2. c \in [Record -> Entry]
    <3> SUFFICES ASSUME NEW x \in Record PROVE c[x] \in Entry
      BY DEF Flushed
    <3>1. cache[x] \in Entry
      BY DEF TypeOK
    <3>2. c[x] = cache[x] \/ c[x] = expire_in_one_second(cache[x], "REPLACE_FINAL")
      BY DEF Flushed
    <3> QED
      BY <3>1, <3>2, OneSecondOK DEF EntryInv
  <2>3. r # q => c[r] = cache[r]
    BY <2>0 DEF Flushed, LiveInv, avahi_cache_update
  <2> HIDE DEF c
  <2>4. CASE r = q
    <3>1. HasRoom(q)
      <4>1. CASE r \in seen
        <5>1. cache[r].state # "none"
          BY <1>2, <4>1 DEF LiveInv, InTime, Alive
        <5> QED
          BY <2>0, <2>4, <5>1 DEF HasRoom, Cached
      <4>2. CASE r \notin seen
        BY <4>2 DEF avahi_cache_update
      <4> QED
        BY <4>1, <4>2
    <3>2. PICK at \in Expiries(80) :
            cache'[r] = refreshed(c[r], at) /\ lost'[r] = 0 /\ c[r] \in Entry
      BY <2>0, <2>1, <2>2, <2>4, <3>1 DEF avahi_cache_update
    <3> QED
      BY <2>0, <3>2, InTimeRefreshed
  <2>5. CASE r # q
    <3>1. r \in seen /\ lost'[r] = lost[r] /\ Awaited(r)' = Awaited(r)
      BY <2>0, <2>5 DEF avahi_cache_update, Awaited
    <3>2. cache'[r] = cache[r]
      BY <2>0, <2>1, <2>2, <2>3, <2>5
    <3> QED
      BY <1>2, <3>1, <3>2 DEF LiveInv
  <2> QED
    BY <2>4, <2>5
<1>3. \A r \in seen' : KeyOf[r] \in Subscribed => InTime(cache[r], lost[r], Awaited(r))'
  BY <1>2 DEF InTime, Asked, Due, Alive, Expiries, Stage
<1> QED
  BY <1>1, <1>3 DEF LiveInv

LEMMA LiveElapse ==
  ASSUME TypeOK, LiveInv, MaxLost <= 3, NEW q \in Record, elapse_func(q)
  PROVE  LiveInv'
<1>1. UNCHANGED <<alive, lost, seen>>
  BY DEF elapse_func
<1>2. ASSUME NEW r \in seen', KeyOf[r] \in Subscribed
      PROVE  InTime(cache'[r], lost'[r], Awaited(r)')
  <2>0. /\ r \in Record /\ r \in alive /\ r \in seen /\ cache[r] \in Entry /\ lost[r] \in 0..3
        /\ Awaited(r) \in 0..1 /\ Awaited(r)' \in 0..1 /\ InTime(cache[r], lost[r], Awaited(r))
        /\ lost'[r] = lost[r]
    BY <1>1, <1>2, LiveCounts DEF TypeOK, Awaited, LiveInv
  <2>1. PICK f \in elapsed(cache[q]) :
          /\ cache' = [cache EXCEPT ![q] = f] /\ cache \in [Record -> Entry]
          /\ pending' = IF f # None /\ KeyOf[q] \in Subscribed
                        THEN pending \cup {x \in alive : KeyOf[x] = KeyOf[q] /\ ~KnownAnswer(x)}
                        ELSE pending
    BY DEF elapse_func, TypeOK
  <2>2. CASE r = q
    <3>1. /\ InTime(f, lost[r], 1) /\ f.state # "none"
          /\ cache[r].age >= TTL \div 2
      BY <2>0, <2>2, InTimeElapsed DEF elapse_func
    <3>2. ~KnownAnswer(r)
      <4>1. PICK a \in Nat : a = cache[r].age
        BY <2>0, StagesRise DEF Entry
      <4>2. TTL \div 2 \in Nat
        BY StagesRise
      <4> QED
        BY <3>1, <4>1, <4>2 DEF KnownAnswer
    <3>3. f # None
      BY <3>1 DEF None
    <3>4. r \in pending'
      BY <1>2, <2>0, <2>1, <2>2, <3>2, <3>3
    <3> QED
      BY <2>0, <2>1, <2>2, <3>1, <3>4 DEF Awaited
  <2>3. CASE r # q
    <3>1. cache'[r] = cache[r] /\ Awaited(r) <= Awaited(r)'
      BY <2>0, <2>1, <2>3 DEF Awaited
    <3>2. Asked(cache[r]) \in Nat
      BY <2>0 DEF Asked, Entry
    <3> QED
      BY <2>0, <3>1, <3>2, StaysInTime
  <2> QED
    BY <2>2, <2>3
<1>3. \A r \in seen' : KeyOf[r] \in Subscribed => InTime(cache[r], lost[r], Awaited(r))'
  BY <1>2 DEF InTime, Asked, Due, Alive, Expiries, Stage
<1> QED
  BY <1>1, <1>3 DEF LiveInv

LEMMA LiveQuery ==
  ASSUME TypeOK, LiveInv, MaxLost <= 3, NEW k \in Key, NEW a \in Address,
         NEW known \in SUBSET RecordsOf(k), handle_query_packet(k, a, known)
  PROVE  LiveInv'
<1>1. UNCHANGED <<alive, lost, seen>>
  BY DEF handle_query_packet
<1>2. ASSUME NEW r \in seen', KeyOf[r] \in Subscribed
      PROVE  InTime(cache'[r], lost'[r], Awaited(r)')
  <2>0. /\ r \in Record /\ r \in alive /\ r \in seen /\ cache[r] \in Entry /\ lost[r] \in 0..3
        /\ Awaited(r) \in 0..1 /\ Awaited(r)' \in 0..1 /\ InTime(cache[r], lost[r], Awaited(r))
        /\ lost'[r] = lost[r]
    BY <1>1, <1>2, LiveCounts DEF TypeOK, Awaited, LiveInv
  <2>1. r \in Cached
    BY <2>0 DEF Cached, InTime, Alive
  <2>2. PICK at \in [known -> Expiries(80)] :
          cache'[r] = IF KeyOf[r] = k
                      THEN IF r \in known THEN unpoofed(poofed(cache[r], a), a, at[r]) ELSE poofed(cache[r], a)
                      ELSE cache[r]
    BY <2>0, <2>1 DEF handle_query_packet
  <2>3. Awaited(r) <= Awaited(r)'
    BY DEF Awaited, handle_query_packet
  <2>4. CASE KeyOf[r] = k /\ r \notin known
    <3>1. r \in pending'
      BY <2>0, <2>4 DEF handle_query_packet, RecordsOf
    <3>2. Awaited(r)' = 1 /\ cache'[r] = poofed(cache[r], a)
      BY <2>2, <2>4, <3>1 DEF Awaited
    <3> QED
      BY <2>0, <3>2, InTimePoofed
  <2>5. CASE r \in known
    <3>1. KeyOf[r] = k
      BY <2>5 DEF RecordsOf
    <3>2. cache'[r] = unpoofed(poofed(cache[r], a), a, at[r]) /\ Awaited(r)' = Awaited(r)
      BY <2>2, <2>5, <3>1 DEF Awaited, handle_query_packet
    <3>3. at[r] \in Expiries(80)
      BY <2>5
    <3> QED
      BY <2>0, <3>2, <3>3, InTimeKnown
  <2>6. CASE KeyOf[r] # k
    <3>1. Asked(cache[r]) \in Nat
      BY <2>0 DEF Asked, Entry
    <3> QED
      BY <2>0, <2>2, <2>3, <2>6, <3>1, StaysInTime
  <2> QED
    BY <2>4, <2>5, <2>6
<1>3. \A r \in seen' : KeyOf[r] \in Subscribed => InTime(cache[r], lost[r], Awaited(r))'
  BY <1>2 DEF InTime, Asked, Due, Alive, Expiries, Stage
<1> QED
  BY <1>1, <1>3 DEF LiveInv

LEMMA LiveTick ==
  ASSUME TypeOK, LiveInv, MaxLost <= 3, Tick
  PROVE  LiveInv'
<1>1. UNCHANGED <<alive, lost, seen, pending>> /\ pending = {}
  BY DEF Tick
<1>2. ASSUME NEW r \in seen', KeyOf[r] \in Subscribed
      PROVE  InTime(cache'[r], lost'[r], Awaited(r)')
  <2>0. /\ r \in Record /\ r \in seen /\ cache[r] \in Entry /\ lost[r] \in 0..3
        /\ Awaited(r) = 0 /\ Awaited(r)' = 0 /\ InTime(cache[r], lost[r], 0)
        /\ lost'[r] = lost[r] /\ cache'[r] = Older(cache[r])
    <3>1. r \in Record /\ r \in seen /\ Awaited(r) = 0 /\ Awaited(r)' = 0
      BY <1>1 DEF TypeOK, Awaited
    <3> QED
      BY <1>1, <1>2, <3>1, LiveCounts DEF LiveInv, Tick
  <2>1. cache[r].left > 0
    <3>1. r \in Cached
      BY <2>0 DEF Cached, InTime, Alive
    <3> QED
      BY <3>1 DEF Tick
  <2> QED
    BY <2>0, <2>1, InTimeOlder
<1>3. \A r \in seen' : KeyOf[r] \in Subscribed => InTime(cache[r], lost[r], Awaited(r))'
  BY <1>2 DEF InTime, Asked, Due, Alive, Expiries, Stage
<1> QED
  BY <1>1, <1>3 DEF LiveInv

\* The owners and the network: packets are lost, owners come and go.
LEMMA LiveOthers ==
  ASSUME TypeOK, LiveInv, MaxLost <= 3, NEW q \in Record,
         Goodbye(q) \/ Appear(q) \/ Vanish(q) \/ Lose(q)
  PROVE  LiveInv'
<1>1. \A x, y \in alive' : KeyOf[x] = KeyOf[y] /\ KeyOf[x] \in Unique => x = y
  <2>1. CASE Appear(q)
    BY <2>1 DEF Appear, LiveInv, TypeOK, RecordsOf
  <2>2. CASE Goodbye(q) \/ Vanish(q) \/ Lose(q)
    BY <2>2 DEF Goodbye, Vanish, Lose, LiveInv
  <2> QED
    BY <2>1, <2>2
<1>2. ASSUME NEW r \in seen', KeyOf[r] \in Subscribed
      PROVE  InTime(cache'[r], lost'[r], Awaited(r)')
  <2>0. /\ r \in Record /\ r \in alive /\ r \in seen /\ cache[r] \in Entry /\ lost[r] \in 0..3
        /\ Awaited(r) \in 0..1 /\ InTime(cache[r], lost[r], Awaited(r))
    <3>1. r \in seen
      BY DEF Goodbye, Appear, Vanish, Lose
    <3> QED
      BY <1>2, <3>1, LiveCounts DEF TypeOK, LiveInv
  <2>1. CASE ~(Lose(q) /\ r = q)
    <3>1. cache'[r] = cache[r]
      BY <2>0, <2>1 DEF Goodbye, Appear, Vanish, Lose, TypeOK
    <3>2. lost'[r] = lost[r]
      BY <2>0, <2>1 DEF Goodbye, Appear, Vanish, Lose, TypeOK
    <3>3. Awaited(r)' = Awaited(r)
      BY <2>0, <2>1 DEF Goodbye, Appear, Vanish, Lose, TypeOK, Awaited
    <3> QED
      BY <2>0, <3>1, <3>2, <3>3
  <2>2. CASE Lose(q) /\ r = q
    <3>1. /\ cache'[r] = cache[r] /\ lost'[r] = lost[r] + 1
          /\ Awaited(r)' = 0 /\ Awaited(r) = 1
      BY <2>0, <2>2 DEF Lose, TypeOK, Awaited
    <3>2. Asked(cache[r]) \in Nat /\ Asked(cache[r]) <= lost[r] + 1
      BY <2>0, <3>1 DEF InTime, Asked, Entry
    <3> QED
      BY <2>0, <3>1, <3>2 DEF InTime
  <2> QED
    BY <2>1, <2>2
<1>3. \A r \in seen' : KeyOf[r] \in Subscribed => InTime(cache[r], lost[r], Awaited(r))'
  BY <1>2 DEF InTime, Asked, Due, Alive, Expiries, Stage
<1> QED
  BY <1>1, <1>3 DEF LiveInv

LEMMA LiveStep ==
  ASSUME TypeOK, LiveInv, MaxLost <= 3, [Next]_vars
  PROVE  LiveInv'
<1>1. CASE avahi_cache_flush
  BY <1>1 DEF avahi_cache_flush, LiveInv
<1>2. CASE UNCHANGED vars
  BY <1>2 DEF vars, LiveInv, InTime, Awaited, Asked, Due, Alive, Expiries, Stage
<1> QED
  BY <1>1, <1>2, LiveUpdate, LiveElapse, LiveQuery, LiveTick, LiveOthers DEF Next, RecordNext, QueryPacketNext

\* A record whose owner is there and whose key is asked for stays in the cache, although up to
\* three answers in a row are lost and other hosts' questions seem to go unanswered: an entry
\* is asked for four times before it leaves, and observed to fail no sooner.
THEOREM LiveRecordsAreKept == MaxLost <= 3 /\ Spec => []LiveRecordsStay
<1> SUFFICES ASSUME MaxLost <= 3 PROVE Spec => []LiveRecordsStay
  OBVIOUS
<1>1. TypeOK /\ LiveInv => LiveRecordsStay
  BY DEF LiveInv, LiveRecordsStay, InTime, Alive, Cached, TypeOK
<1>2. TypeOK /\ LiveInv /\ [Next]_vars => LiveInv'
  BY LiveStep
<1> QED
  BY <1>1, <1>2, LiveStart, CacheTypes, PTL DEF Spec

-----------------------------------------------------------------------------
(* The record browser.                                                     *)

\* The calls of a scan, one in each round
CallRound(order, s, i) == MakeCall(s, order)

\* The lookups told of a change, one in each round
NotifyRound(p, b, n) ==
  IF n \in Notified(p.start, p.rec) /\ b.lookups[n] # NoLookup
  THEN MakeCalls(lookup_multicast_callback(b, n, p.event, p.rec, p.order), p.order)
  ELSE b

Calling == INSTANCE FoldProofs WITH Op <- CallRound
Notifying == INSTANCE FoldProofs WITH Op <- NotifyRound

\* The lookup for the key of the browser
HasRoot(b) ==
  \E n \in LookupId :
    b.lookups[n] = [key |-> Root, links |-> AskedLink, flags |-> "multicast", parent |-> 0]

\* The client was told of rec, or the CNAME record rec is followed, as far as there is room.
Known(b, n, rec) ==
  IF rec.to = "rr" THEN rec \in b.told
  ELSE \/ Lookups(b) = LookupId
       \/ \E m \in Lookups(b) : /\ b.lookups[m].key = rec.to /\ b.lookups[m].links = {rec.link}
                                /\ b.lookups[m].parent = n

\* Every lookup is reached from the one for the browser's key.
Rooted(b) ==
  /\ b.dead \/ b.defer => Lookups(b) = {}
  /\ \A n \in Lookups(b) : IF b.lookups[n].parent = 0 THEN b.lookups[n].key = Root
                           ELSE b.lookups[n].parent \in Lookups(b)

\* What a browser that runs knows
InView(b) ==
  /\ HasRoot(b)
  /\ OwnRecords(b.told) \subseteq b.cached
  /\ \A n \in Lookups(b), rec \in b.cached : Scanned(b, n, rec) => Known(b, n, rec)

BrowserOK(b) ==
  /\ b \in BrowserType /\ IsFiniteSet(b.cached)
  /\ Rooted(b)
  /\ ~Ended(b) => IF b.defer THEN b.told = {} ELSE InView(b)

BrowserIInv == BrowserOK(browser)

LEMMA NoLookupIsNone ==
  ASSUME NEW b \in BrowserType, NEW n \in LookupId
  PROVE  /\ b.lookups[n] \in LookupType
         /\ n \in Lookups(b) <=> b.lookups[n].flags = "multicast"
         /\ n \in Lookups(b) => /\ b.lookups[n].key \in Name /\ b.lookups[n].links \subseteq BrowseLink
                                /\ b.lookups[n].parent \in 0..MaxLookups
         /\ n \notin Lookups(b) => b.lookups[n] = NoLookup /\ b.lookups[n].links = {}
<1>1. b.lookups[n] \in LookupType
  BY DEF BrowserType
<1>2. b.lookups[n].flags = "multicast" => b.lookups[n] # NoLookup
  BY DEF NoLookup
<1>3. b.lookups[n] # NoLookup => /\ b.lookups[n].flags = "multicast" /\ b.lookups[n].key \in Name
                                 /\ b.lookups[n].links \subseteq BrowseLink
                                 /\ b.lookups[n].parent \in 0..MaxLookups
  BY <1>1 DEF LookupType
<1>4. n \in Lookups(b) <=> b.lookups[n] # NoLookup
  BY DEF Lookups
<1>5. NoLookup.links = {}
  BY DEF NoLookup
<1> QED
  BY <1>1, <1>2, <1>3, <1>4, <1>5

\* Lookups have flags, and the browser has none: no lookup is ever found again or dropped.
LEMMA NoneIsFound ==
  ASSUME NEW b \in BrowserType, NEW m \in Lookups(b), NEW link, NEW key
  PROVE  ~Finds(b, m, link, "none", key)
<1>1. m \in LookupId
  BY DEF Lookups
<1> QED
  BY <1>1, NoLookupIsNone DEF Finds

LEMMA NoneIsDropped ==
  ASSUME NEW b \in BrowserType, NEW n, NEW rec
  PROVE  lookup_drop_cname(b, n, rec, "none") = b
BY NoneIsFound, Zenon DEF lookup_drop_cname

LEMMA IdsAreFinite ==
  ASSUME NEW b \in BrowserType
  PROVE  /\ MaxLookups \in Nat /\ Lookups(b) \subseteq LookupId /\ IsFiniteSet(LookupId \ Lookups(b))
         /\ Cardinality(LookupId \ Lookups(b)) \in 0..MaxLookups
<1>1. MaxLookups \in Nat
  BY BrowserAssumption
<1>2. IsFiniteSet(LookupId) /\ Cardinality(LookupId) = MaxLookups
  BY <1>1, FS_Interval DEF LookupId
<1>3. LookupId \ Lookups(b) \in SUBSET LookupId
  OBVIOUS
<1>4. /\ IsFiniteSet(LookupId \ Lookups(b))
      /\ Cardinality(LookupId \ Lookups(b)) <= Cardinality(LookupId)
  BY <1>2, <1>3, FS_Subset
<1>5. Cardinality(LookupId \ Lookups(b)) \in Nat
  BY <1>4, FS_CardinalityType
<1>6. Lookups(b) \subseteq LookupId
  BY DEF Lookups
<1> QED
  BY <1>1, <1>2, <1>4, <1>5, <1>6

\* The new lookup n takes a free place.
AddsLookup(new, b, links, key, parent) ==
  \E n \in LookupId \ Lookups(b), c \in BrowserType :
    /\ new = <<n, c>> /\ n # 0
    /\ c = [b EXCEPT !.lookups = c.lookups]
    /\ c.lookups[n] = [key |-> key, links |-> links, flags |-> "multicast", parent |-> parent]
    /\ \A m \in LookupId \ {n} : c.lookups[m] = b.lookups[m]
    /\ Lookups(c) = Lookups(b) \cup {n}

LEMMA NewLookup ==
  ASSUME NEW b \in BrowserType, NEW links \in SUBSET BrowseLink, NEW key \in Name, NEW parent \in 0..MaxLookups,
         LookupId \ Lookups(b) # {},
         NEW new, new = lookup_new(b, links, "none", key, parent)
  PROVE  AddsLookup(new, b, links, key, parent)
<1> DEFINE free == LookupId \ Lookups(b)
           n == CHOOSE m \in free : \A k \in free : m <= k
           l == [key |-> key, links |-> links, parent |-> parent, flags |-> "multicast"]
           c == [b EXCEPT !.lookups[n] = l]
<1>1. \A m \in LookupId : m \in Nat /\ m # 0
  BY BrowserAssumption DEF LookupId
<1>2. \E m \in free : \A k \in free : m <= k
  <2>1. free \in SUBSET Nat /\ free # {}
    BY <1>1
  <2>2. PICK m \in free : \A k \in free : ~(k < m)
    BY <2>1, Calling!LeastNat
  <2>3. m \in Nat /\ \A k \in free : k \in Nat
    BY <2>1
  <2> QED
    BY <2>2, <2>3
<1>3. n \in free
  BY <1>2
<1> HIDE DEF n
<1>4. new = <<n, c>>
  BY <1>3 DEF lookup_new, transport_flags_from_domain, n
<1>5. l \in LookupType /\ l # NoLookup
  BY DEF LookupType, NoLookup
<1>6. c \in BrowserType
  BY <1>3, <1>5 DEF BrowserType
<1>7. /\ c.lookups[n] = l /\ \A m \in LookupId \ {n} : c.lookups[m] = b.lookups[m]
      /\ c = [b EXCEPT !.lookups = c.lookups]
  BY <1>3 DEF BrowserType
<1>8. Lookups(c) = Lookups(b) \cup {n}
  BY <1>3, <1>5, <1>7 DEF Lookups
<1> HIDE DEF c
<1> QED
  BY <1>1, <1>3, <1>4, <1>6, <1>7, <1>8 DEF AddsLookup

\* The client hears an event, and may free the browser.
LEMMA ClientCalled ==
  ASSUME NEW b \in BrowserType, ~Ended(b), NEW event \in {"NEW", "REMOVE", "CACHE_EXHAUSTED"}, NEW rec,
         event # "CACHE_EXHAUSTED" => rec \in CacheRecord,
         NEW c, c = callback(b, event, rec)
  PROVE  /\ c \in BrowserType /\ c.cached = b.cached /\ c.frees = b.frees /\ c.aborted = b.aborted
         /\ c.told = CASE event = "NEW" -> b.told \cup {rec}
                       [] event = "REMOVE" -> b.told \ {rec}
                       [] OTHER -> b.told
         /\ IF b.frees = event THEN c.dead /\ ~c.defer /\ Lookups(c) = {}
            ELSE ~Ended(c) /\ c.defer = b.defer /\ c.lookups = b.lookups
<1> DEFINE t == CASE event = "NEW" -> b.told \cup {rec}
                  [] event = "REMOVE" -> b.told \ {rec}
                  [] OTHER -> b.told
           d == [b EXCEPT !.told = t]
<1>1. t \in SUBSET CacheRecord
  BY DEF BrowserType
<1> HIDE DEF t
<1>2. /\ d \in BrowserType /\ d.told = t /\ d.cached = b.cached /\ d.frees = b.frees /\ d.aborted = b.aborted
      /\ d.dead = b.dead /\ d.defer = b.defer /\ d.lookups = b.lookups
  BY <1>1 DEF BrowserType
<1>3. c = IF b.frees = event THEN Freed(d) ELSE d
  BY DEF callback, t
<1> HIDE DEF d
<1>4. CASE b.frees = event
  <2>1. c = [[d EXCEPT !.lookups = [n \in LookupId |-> NoLookup], !.defer = FALSE] EXCEPT !.dead = TRUE]
    BY <1>3, <1>4 DEF Freed, browser_cancel
  <2>2. [n \in LookupId |-> NoLookup] \in [LookupId -> LookupType]
    BY DEF LookupType
  <2>3. /\ c \in BrowserType /\ c.told = t /\ c.cached = d.cached /\ c.frees = d.frees /\ c.aborted = d.aborted
        /\ c.dead /\ ~c.defer /\ c.lookups = [n \in LookupId |-> NoLookup]
    BY <1>2, <2>1, <2>2 DEF BrowserType
  <2>4. Lookups(c) = {}
    BY <2>3 DEF Lookups
  <2> QED
    BY <1>2, <1>4, <2>3, <2>4 DEF t
<1>5. CASE b.frees # event
  BY <1>2, <1>3, <1>5 DEF Ended, t
<1> QED
  BY <1>4, <1>5
-----------------------------------------------------------------------------
(* A scan.                                                                 *)

CallType == [lookup : LookupId, rec : CacheRecord]

\* The caches, in some order
Listed(order, S) == order \in Seq(S) /\ \A rec \in S : \E i \in DOMAIN order : order[i] = rec

\* What callbacks for new records make of the browser c
Grown(b, c) ==
  /\ b \in BrowserType /\ b.cached = c.cached /\ b.frees = c.frees /\ b.aborted = c.aborted /\ ~b.defer
  /\ Rooted(b)
  /\ c.told \subseteq b.told /\ b.told \subseteq c.told \cup c.cached
  /\ ~Ended(b) => \A n \in Lookups(c) : n \in Lookups(b) /\ b.lookups[n] = c.lookups[n]

\* What is cached for a lookup is known, or excused by X, or is to be called.
Covered(b, calls, X) ==
  ~Ended(b) =>
    \A n \in Lookups(b), rec \in b.cached : Scanned(b, n, rec) =>
      \/ Known(b, n, rec) \/ <<n, rec>> \in X
      \/ \E i \in DOMAIN calls : calls[i] = [lookup |-> n, rec |-> rec]

\* How many more calls there can be, where l records are cached
Room(b, l) == IF Ended(b) THEN 0 ELSE Cardinality(LookupId \ Lookups(b)) * l

CallsOf(s, c) == s.calls \in Seq(CallType) /\ \A i \in DOMAIN s.calls : s.calls[i].rec \in c.cached

\* A scan that began with c
Going(s, c, X) ==
  /\ s = [browser |-> s.browser, calls |-> s.calls]
  /\ Grown(s.browser, c) /\ CallsOf(s, c) /\ Covered(s.browser, s.calls, X)

\* What one callback for a new record does
CalledOnce(s, b, c, n, rec, l) ==
  /\ s = [browser |-> s.browser, calls |-> s.calls]
  /\ Grown(s.browser, c) /\ CallsOf(s, c)
  /\ Len(s.calls) + Room(s.browser, l) <= Room(b, l)
  /\ ~Ended(s.browser) =>
       /\ Known(s.browser, n, rec)
       /\ \A m \in Lookups(b) : /\ s.browser.lookups[m] = b.lookups[m]
                                /\ \A r : Known(b, m, r) => Known(s.browser, m, r)
       /\ \A m \in Lookups(s.browser) \ Lookups(b), r \in c.cached :
            \E i \in DOMAIN s.calls : s.calls[i] = [lookup |-> m, rec |-> r]

LEMMA NoCalls ==
  ASSUME NEW s, NEW c, s.calls = <<>>
  PROVE  CallsOf(s, c)
<1>1. <<>> \in Seq(CallType) /\ DOMAIN <<>> = {}
  OBVIOUS
<1>2. DOMAIN s.calls = {}
  BY <1>1
<1> QED
  BY <1>1, <1>2, Zenon DEF CallsOf

LEMMA RoomIsNat ==
  ASSUME NEW b \in BrowserType, NEW l \in Nat
  PROVE  Room(b, l) \in Nat
<1>1. Cardinality(LookupId \ Lookups(b)) \in Nat
  BY IdsAreFinite
<1>2. \A k \in Nat : k * l \in Nat
  OBVIOUS
<1> QED
  BY <1>1, <1>2 DEF Room

LEMMA ClientIsTold ==
  ASSUME NEW c, NEW b, Grown(b, c), ~Ended(b), NEW n \in Lookups(b), NEW rec \in c.cached, rec.to = "rr",
         NEW l \in Nat, NEW s, s = Quiet(callback(b, "NEW", rec))
  PROVE  CalledOnce(s, b, c, n, rec, l)
<1>1. b \in BrowserType /\ c.cached = b.cached /\ rec \in CacheRecord
  BY DEF Grown, BrowserType
<1>2. PICK d : d = callback(b, "NEW", rec)
  OBVIOUS
<1>3. /\ d \in BrowserType /\ d.cached = b.cached /\ d.frees = b.frees /\ d.aborted = b.aborted
      /\ d.told = b.told \cup {rec}
      /\ IF b.frees = "NEW" THEN d.dead /\ ~d.defer /\ Lookups(d) = {}
         ELSE ~Ended(d) /\ d.defer = b.defer /\ d.lookups = b.lookups
  BY <1>1, <1>2, ClientCalled
<1>4. s = [browser |-> d, calls |-> <<>>] /\ <<>> \in Seq(CallType) /\ Len(<<>>) = 0 /\ DOMAIN <<>> = {}
  BY <1>2 DEF Quiet
<1>5. CallsOf(s, c)
  <2>1. s.calls = <<>>
    BY <1>4
  <2> QED
    BY <2>1, NoCalls
<1>6. CASE b.frees = "NEW"
  <2>1. Ended(d) /\ Rooted(d)
    BY <1>3, <1>6 DEF Ended, Rooted
  <2>2. Grown(d, c)
    BY <1>3, <1>6, <2>1 DEF Grown
  <2>3. Room(d, l) = 0 /\ Room(b, l) \in Nat
    BY <1>1, <2>1, RoomIsNat DEF Room
  <2> QED
    BY <1>4, <1>5, <2>1, <2>2, <2>3 DEF CalledOnce
<1>7. CASE b.frees # "NEW"
  <2>1. ~Ended(d) /\ d.lookups = b.lookups /\ Lookups(d) = Lookups(b) /\ d.defer = b.defer
    BY <1>3, <1>7 DEF Lookups
  <2>2. Rooted(d)
    BY <2>1 DEF Rooted, Ended, Grown
  <2>3. Grown(d, c)
    BY <1>3, <2>1, <2>2 DEF Grown
  <2>4. Room(d, l) = Room(b, l) /\ Room(b, l) \in Nat
    BY <1>1, <2>1, RoomIsNat DEF Room
  <2>5. \A m, r : Known(b, m, r) => Known(d, m, r)
    BY <1>3, <2>1 DEF Known
  <2>6. Known(d, n, rec)
    BY <1>3 DEF Known
  <2> QED
    BY <1>4, <1>5, <2>1, <2>3, <2>4, <2>5, <2>6 DEF CalledOnce
<1> QED
  BY <1>6, <1>7

LEMMA CnameIsFollowed ==
  ASSUME NEW c, NEW b, Grown(b, c), ~Ended(b), NEW n \in Lookups(b), NEW rec \in c.cached, rec.to # "rr",
         NEW order, Listed(order, c.cached),
         NEW s, s = lookup_handle_cname(b, n, rec, "none", order)
  PROVE  CalledOnce(s, b, c, n, rec, Len(order))
<1> DEFINE l == Len(order)
<1>1. b \in BrowserType /\ c.cached = b.cached /\ rec \in CacheRecord /\ c.cached \subseteq CacheRecord
  BY DEF Grown, BrowserType
<1>2. /\ rec.to \in Name /\ {rec.link} \in SUBSET BrowseLink /\ n \in 0..MaxLookups /\ n # 0 /\ n \in LookupId
      /\ l \in Nat /\ DOMAIN order = 1..l /\ \A i \in 1..l : order[i] \in c.cached
  BY <1>1, BrowserAssumption DEF CacheRecord, Lookups, LookupId, Listed
<1>3. ~\E m \in Lookups(b) : Finds(b, m, rec.link, "none", rec.to)
  BY <1>1, NoneIsFound
<1>4. PICK new : new = lookup_new(b, {rec.link}, "none", rec.to, n)
  OBVIOUS
<1>5. s = IF new[1] = 0 THEN Quiet(b) ELSE lookup_go(new[2], new[1], order)
  BY <1>3, <1>4, Zenon DEF lookup_handle_cname
<1>6. Room(b, l) \in Nat
  BY <1>1, <1>2, RoomIsNat
<1>7. CASE LookupId \ Lookups(b) = {}
  <2>1. new[1] = 0
    BY <1>4, <1>7 DEF lookup_new
  <2>2. s = [browser |-> b, calls |-> <<>>] /\ <<>> \in Seq(CallType) /\ Len(<<>>) = 0 /\ DOMAIN <<>> = {}
    BY <1>5, <2>1 DEF Quiet
  <2>3. Lookups(b) = LookupId
    BY <1>7 DEF Lookups
  <2>4. Known(b, n, rec)
    BY <2>3 DEF Known
  <2>5. CallsOf(s, c)
    <3>1. s.calls = <<>>
      BY <2>2
    <3> QED
      BY <3>1, NoCalls
  <2> QED
    BY <1>6, <2>2, <2>4, <2>5 DEF CalledOnce
<1>8. CASE LookupId \ Lookups(b) # {}
  <2>1. PICK m \in LookupId \ Lookups(b), d \in BrowserType :
           /\ new = <<m, d>> /\ m # 0
           /\ d = [b EXCEPT !.lookups = d.lookups]
           /\ d.lookups[m] = [key |-> rec.to, links |-> {rec.link}, flags |-> "multicast", parent |-> n]
           /\ \A k \in LookupId \ {m} : d.lookups[k] = b.lookups[k]
           /\ Lookups(d) = Lookups(b) \cup {m}
    <3>1. PICK links \in SUBSET BrowseLink, key \in Name, parent \in 0..MaxLookups :
             links = {rec.link} /\ key = rec.to /\ parent = n
      BY <1>2
    <3>2. new = lookup_new(b, links, "none", key, parent)
      BY <1>4, <3>1
    <3> HIDE DEF l
    <3>3. AddsLookup(new, b, links, key, parent)
      BY <1>1, <1>8, <3>2, NewLookup
    <3> QED
      BY <3>1, <3>3 DEF AddsLookup
  <2>2. /\ d.cached = b.cached /\ d.frees = b.frees /\ d.aborted = b.aborted /\ d.defer = b.defer
        /\ d.dead = b.dead /\ d.told = b.told
    BY <1>1, <2>1 DEF BrowserType
  <2>3. s.browser = d /\ s = [browser |-> s.browser, calls |-> s.calls]
        /\ s.calls = [i \in 1..l |-> [lookup |-> m, rec |-> order[i]]]
    BY <1>2, <1>5, <2>1 DEF lookup_go
  <2>4. \A k \in Lookups(b) : k \in LookupId \ {m} /\ d.lookups[k] = b.lookups[k] /\ k \in Lookups(d)
    BY <2>1 DEF Lookups
  <2>5. Rooted(d)
    <3>1. ~b.dead /\ ~b.defer /\ Rooted(b)
      BY DEF Ended, Grown
    <3>2. \A k \in Lookups(d) : k = m \/ k \in Lookups(b)
      BY <2>1
    <3> QED
      BY <1>2, <2>1, <2>2, <2>4, <3>1, <3>2 DEF Rooted
  <2>6. Grown(d, c)
    BY <2>2, <2>4, <2>5 DEF Grown, Ended
  <2>7. CallsOf(s, c)
    <3>1. \A i \in 1..l : [lookup |-> m, rec |-> order[i]] \in CallType
      BY <1>1, <1>2, <2>1 DEF CallType
    <3>2. s.calls \in Seq(CallType) /\ DOMAIN s.calls = 1..l
      BY <1>2, <2>3, <3>1
    <3> QED
      BY <1>2, <2>3, <3>2 DEF CallsOf
  <2>8. Len(s.calls) = l
    BY <1>2, <2>3
  <2>9. Len(s.calls) + Room(d, l) <= Room(b, l)
    <3> DEFINE F == LookupId \ Lookups(b)
               G == LookupId \ Lookups(d)
    <3>1. G = F \ {m} /\ m \in F
      BY <2>1
    <3>2. IsFiniteSet(F) /\ Cardinality(F) \in Nat /\ Cardinality(G) \in Nat
      BY <1>1, <2>1, IdsAreFinite
    <3> HIDE DEF F, G
    <3>3. Cardinality(G) = Cardinality(F) - 1
      BY <3>1, <3>2, FS_RemoveElement
    <3>4. PICK f \in Nat, g \in Nat : f = Cardinality(F) /\ g = Cardinality(G) /\ f = g + 1
      BY <3>2, <3>3
    <3>5. f * l = g * l + l
      BY <1>2, <3>4
    <3>6. Room(b, l) = f * l /\ Room(d, l) = g * l
      BY <2>2, <3>4 DEF Room, Ended, F, G
    <3>7. g * l \in Nat
      BY <1>2, <3>4
    <3>8. PICK p \in Nat, q \in Nat : p = l /\ q = g * l
      BY <1>2, <3>7
    <3>9. Room(b, l) = q + p /\ Room(d, l) = q /\ Len(s.calls) = p
      BY <2>8, <3>5, <3>6, <3>8
    <3> QED
      BY <3>9
  <2>10. Known(d, n, rec)
    <3>1. m \in Lookups(d) /\ d.lookups[m].key = rec.to /\ d.lookups[m].links = {rec.link} /\ d.lookups[m].parent = n
      BY <2>1
    <3> QED
      BY <3>1 DEF Known
  <2>11. ASSUME NEW k \in Lookups(b), NEW r, Known(b, k, r) PROVE Known(d, k, r)
    <3>1. Lookups(b) # LookupId
      BY <1>8
    <3> QED
      BY <2>2, <2>4, <2>11, <3>1 DEF Known
  <2>12. \A k \in Lookups(d) \ Lookups(b), r \in c.cached :
           \E i \in DOMAIN s.calls : s.calls[i] = [lookup |-> k, rec |-> r]
    <3> TAKE k \in Lookups(d) \ Lookups(b), r \in c.cached
    <3>1. k = m
      BY <2>1
    <3>2. PICK i \in 1..l : order[i] = r
      BY <1>2 DEF Listed
    <3> QED
      BY <2>3, <3>1, <3>2
  <2> HIDE DEF l
  <2>13. CalledOnce(s, b, c, n, rec, l)
    BY <2>3, <2>4, <2>6, <2>7, <2>9, <2>10, <2>11, <2>12 DEF CalledOnce
  <2> QED
    BY <2>13 DEF l
<1> QED
  BY <1>7, <1>8

LEMMA CallbackForNew ==
  ASSUME NEW c, NEW b, Grown(b, c), ~Ended(b), NEW n \in Lookups(b), NEW rec \in c.cached,
         NEW order, Listed(order, c.cached),
         NEW s, s = lookup_multicast_callback(b, n, "NEW", rec, order)
  PROVE  CalledOnce(s, b, c, n, rec, Len(order))
<1>1. Len(order) \in Nat
  BY DEF Listed
<1>2. CASE rec.to = "rr"
  <2>1. s = Quiet(callback(b, "NEW", rec))
    BY <1>2 DEF lookup_multicast_callback
  <2> QED
    BY <1>1, <1>2, <2>1, ClientIsTold
<1>3. CASE rec.to # "rr"
  <2>1. s = lookup_handle_cname(b, n, rec, "none", order)
    BY <1>3, Zenon DEF lookup_multicast_callback
  <2> QED
    BY <1>3, <2>1, CnameIsFollowed
<1> QED
  BY <1>2, <1>3

\* The calls that a call leads to come before the others.
Joins(t, a, q) ==
  /\ Len(t) = Len(a) + Len(q) - 1
  /\ \A i \in DOMAIN a : \E j \in DOMAIN t : t[j] = a[i]
  /\ \A i \in DOMAIN q : i = 1 \/ \E j \in DOMAIN t : t[j] = q[i]
  /\ \A j \in DOMAIN t : \/ \E i \in DOMAIN a : t[j] = a[i]
                        \/ \E i \in DOMAIN q : t[j] = q[i]

LEMMA CallsJoined ==
  ASSUME NEW S, NEW a \in Seq(S), NEW q \in Seq(S), q # <<>>
  PROVE  a \o Tail(q) \in Seq(S) /\ Joins(a \o Tail(q), a, q)
<1> DEFINE t == a \o Tail(q)
           l == Len(a)
           m == Len(q)
<1>1. l \in Nat /\ m \in Nat \ {0} /\ DOMAIN a = 1..l /\ DOMAIN q = 1..m
  OBVIOUS
<1>2. /\ Tail(q) \in Seq(S) /\ Len(Tail(q)) = m - 1
      /\ \A i \in 1..(m - 1) : Tail(q)[i] = q[i + 1]
  OBVIOUS
<1>3. PICK u \in Seq(S) : u = Tail(q)
  BY <1>2
<1>4. /\ t \in Seq(S) /\ Len(t) = l + m - 1 /\ DOMAIN t = 1..(l + m - 1)
      /\ \A i \in 1..l : t[i] = a[i]
      /\ \A i \in (l + 1)..(l + m - 1) : t[i] = u[i - l]
  BY <1>1, <1>2, <1>3
<1>5. \A i \in 1..(m - 1) : u[i] = q[i + 1]
  BY <1>2, <1>3
<1> HIDE DEF l, m, t
<1>6. \A i \in 1..l : i \in DOMAIN t
  BY <1>1, <1>4
<1>7. \A i \in 1..m : i = 1 \/ \E j \in DOMAIN t : t[j] = q[i]
  <2> SUFFICES ASSUME NEW i \in 1..m, i # 1 PROVE \E j \in DOMAIN t : t[j] = q[i]
    OBVIOUS
  <2>1. PICK j \in (l + 1)..(l + m - 1) : j = l + i - 1
    BY <1>1
  <2>2. j - l \in 1..(m - 1) /\ (j - l) + 1 = i /\ j \in 1..(l + m - 1)
    BY <1>1, <2>1
  <2>3. t[j] = q[i]
    BY <1>4, <1>5, <2>2
  <2> QED
    BY <1>4, <2>2, <2>3
<1>8. \A j \in DOMAIN t : \/ \E i \in 1..l : t[j] = a[i]
                        \/ \E i \in 1..m : t[j] = q[i]
  <2> TAKE j \in DOMAIN t
  <2>1. CASE j \in 1..l
    BY <1>4, <2>1
  <2>2. CASE j \in (l + 1)..(l + m - 1)
    <3>1. j - l \in 1..(m - 1) /\ (j - l) + 1 \in 1..m
      BY <1>1, <2>2
    <3>2. t[j] = q[(j - l) + 1]
      BY <1>4, <1>5, <2>2, <3>1
    <3> QED
      BY <3>1, <3>2
  <2> QED
    BY <1>1, <1>4, <2>1, <2>2
<1> QED
  BY <1>1, <1>4, <1>6, <1>7, <1>8 DEF l, m, t, Joins

\* The calls that are left, and those that they can lead to
Left(s, l) == Len(s.calls) + Room(s.browser, l)

LEMMA LeftIsNat ==
  ASSUME NEW s, NEW c, NEW X, Going(s, c, X), NEW l \in Nat
  PROVE  /\ Left(s, l) \in Nat /\ Len(s.calls) \in Nat /\ Room(s.browser, l) \in Nat
         /\ s.calls # <<>> => Left(s, l) >= 1
<1>1. Len(s.calls) \in Nat /\ (s.calls # <<>> => Len(s.calls) >= 1)
  BY DEF Going, CallsOf
<1>2. Room(s.browser, l) \in Nat
  BY RoomIsNat DEF Going, Grown
<1> QED
  BY <1>1, <1>2 DEF Left

LEMMA GoesOn ==
  ASSUME NEW c, NEW X, NEW d, NEW u, Grown(d, c), u \in Seq(CallType),
         \A i \in DOMAIN u : u[i].rec \in c.cached, Covered(d, u, X),
         NEW t, t = [browser |-> d, calls |-> u]
  PROVE  Going(t, c, X)
<1>1. t.browser = d /\ t.calls = u /\ t = [browser |-> t.browser, calls |-> t.calls]
  OBVIOUS
<1>2. CallsOf(t, c)
  BY <1>1 DEF CallsOf
<1> QED
  BY <1>1, <1>2, Zenon DEF Going

LEMMA OneCall ==
  ASSUME NEW c, NEW s, NEW X, Going(s, c, X), NEW order, Listed(order, c.cached),
         NEW t, t = MakeCall(s, order)
  PROVE  /\ Going(t, c, X)
         /\ IF s.calls = <<>> THEN t = s ELSE Left(t, Len(order)) <= Left(s, Len(order)) - 1
<1> DEFINE l == Len(order)
           b == s.browser
           q == s.calls
           h == Head(q)
<1>1. CASE q = <<>>
  <2>1. t = s
    BY <1>1 DEF MakeCall
  <2> QED
    BY <1>1, <2>1
<1>2. CASE q # <<>>
  <2>1. /\ s = [browser |-> b, calls |-> q] /\ Grown(b, c) /\ q \in Seq(CallType)
        /\ \A i \in DOMAIN q : q[i].rec \in c.cached
        /\ Covered(b, q, X) /\ b \in BrowserType /\ b.cached = c.cached /\ l \in Nat
    BY DEF Going, CallsOf, Grown, Listed
  <2>2. /\ h = q[1] /\ 1 \in DOMAIN q /\ h \in CallType /\ h.rec \in c.cached
        /\ Len(q) \in Nat /\ Room(b, l) \in Nat
    <3>1. h = q[1] /\ 1 \in DOMAIN q /\ h \in CallType /\ Len(q) \in Nat
      BY <1>2, <2>1
    <3> QED
      BY <2>1, <3>1, RoomIsNat
  <2>3. h.lookup \in LookupId /\ h = [lookup |-> h.lookup, rec |-> h.rec]
    BY <2>2 DEF CallType
  <2>4. PICK made : made = lookup_multicast_callback(b, h.lookup, "NEW", h.rec, order)
    OBVIOUS
  <2>5. t = IF Scanned(b, h.lookup, h.rec) THEN [made EXCEPT !.calls = @ \o Tail(q)]
            ELSE [s EXCEPT !.calls = Tail(q)]
    BY <1>2, <2>4 DEF MakeCall
  <2>6. /\ Tail(q) \in Seq(CallType) /\ Len(Tail(q)) = Len(q) - 1
        /\ \A i \in DOMAIN q : i = 1 \/ \E j \in DOMAIN Tail(q) : Tail(q)[j] = q[i]
        /\ \A j \in DOMAIN Tail(q) : Tail(q)[j].rec \in c.cached
    <3>1. /\ Tail(q) \in Seq(CallType) /\ Len(Tail(q)) = Len(q) - 1
          /\ \A i \in 1..(Len(q) - 1) : Tail(q)[i] = q[i + 1]
          /\ DOMAIN Tail(q) = 1..(Len(q) - 1) /\ DOMAIN q = 1..Len(q) /\ Len(q) >= 1
      BY <1>2, <2>1
    <3>2. \A i \in 2..Len(q) : (i - 1) \in 1..(Len(q) - 1) /\ (i - 1) + 1 = i
      BY <2>2
    <3>3. \A i \in 1..Len(q) : i = 1 \/ i \in 2..Len(q)
      BY <2>2
    <3>4. \A i \in 1..(Len(q) - 1) : i + 1 \in 1..Len(q)
      BY <2>2
    <3>5. \A i \in 2..Len(q) : Tail(q)[i - 1] = q[i]
      BY <3>1, <3>2
    <3> QED
      BY <2>1, <3>1, <3>2, <3>3, <3>4, <3>5
  <2> HIDE DEF b, q, h, l
  <2>7. CASE ~Scanned(b, h.lookup, h.rec)
    <3>1. t = [browser |-> b, calls |-> Tail(q)]
      BY <2>1, <2>5, <2>7
    <3>2. Covered(b, Tail(q), X)
      <4> SUFFICES ASSUME ~Ended(b), NEW n \in Lookups(b), NEW rec \in b.cached, Scanned(b, n, rec)
                   PROVE  \/ Known(b, n, rec) \/ <<n, rec>> \in X
                          \/ \E i \in DOMAIN Tail(q) : Tail(q)[i] = [lookup |-> n, rec |-> rec]
        BY DEF Covered
      <4>1. CASE Known(b, n, rec) \/ <<n, rec>> \in X
        BY <4>1
      <4>2. ASSUME NEW i \in DOMAIN q, q[i] = [lookup |-> n, rec |-> rec]
            PROVE  \E j \in DOMAIN Tail(q) : Tail(q)[j] = [lookup |-> n, rec |-> rec]
        <5>1. i # 1
          BY <2>2, <2>7, <4>2
        <5> QED
          BY <2>6, <4>2, <5>1
      <4> QED
        BY <2>1, <4>1, <4>2 DEF Covered
    <3>3. Going(t, c, X)
      BY <2>1, <2>6, <3>1, <3>2, GoesOn
    <3>4. Left(t, l) = Len(q) - 1 + Room(b, l) /\ Left(s, l) = Len(q) + Room(b, l)
      BY <2>1, <2>6, <3>1 DEF Left, q, b
    <3> QED
      BY <1>2, <2>2, <3>3, <3>4 DEF l, q
  <2>8. CASE Scanned(b, h.lookup, h.rec) /\ Ended(b)
    <3>1. made = [browser |-> b, calls |-> <<>>]
      BY <2>4, <2>8 DEF lookup_multicast_callback, Quiet
    <3>2. t = [browser |-> b, calls |-> <<>> \o Tail(q)]
      BY <2>5, <2>8, <3>1
    <3>3. t = [browser |-> b, calls |-> Tail(q)]
      BY <2>6, <3>2
    <3>4. Going(t, c, X)
      <4>1. Covered(b, Tail(q), X)
        BY <2>8 DEF Covered
      <4> QED
        BY <2>1, <2>6, <3>3, <4>1, GoesOn
    <3>5. Left(t, l) = Len(q) - 1 + Room(b, l) /\ Left(s, l) = Len(q) + Room(b, l)
      BY <2>1, <2>6, <3>3 DEF Left, q, b
    <3> QED
      BY <1>2, <2>2, <3>4, <3>5 DEF l, q
  <2>9. CASE Scanned(b, h.lookup, h.rec) /\ ~Ended(b)
    <3> DEFINE n == h.lookup
               rec == h.rec
               d == made.browser
    <3>1. n \in Lookups(b)
      BY <2>1, <2>3, <2>9, NoLookupIsNone DEF Scanned
    <3>2. CalledOnce(made, b, c, n, rec, l)
      BY <2>1, <2>2, <2>4, <2>9, <3>1, CallbackForNew DEF l
    <3> HIDE DEF n, rec, d
    <3>3. /\ made = [browser |-> d, calls |-> made.calls] /\ Grown(d, c)
          /\ made.calls \in Seq(CallType) /\ \A i \in DOMAIN made.calls : made.calls[i].rec \in c.cached
          /\ Len(made.calls) + Room(d, l) <= Room(b, l)
      BY <3>2 DEF CalledOnce, CallsOf, d
    <3>4. PICK u : u = made.calls \o Tail(q)
      OBVIOUS
    <3>5. t = [browser |-> d, calls |-> u]
      <4>1. t = [made EXCEPT !.calls = u]
        BY <2>5, <2>9, <3>4, Zenon
      <4> QED
        BY <3>3, <4>1
    <3>6. /\ u \in Seq(CallType) /\ Len(u) = Len(made.calls) + Len(q) - 1
          /\ \A i \in DOMAIN made.calls : \E j \in DOMAIN u : u[j] = made.calls[i]
          /\ \A i \in DOMAIN q : i = 1 \/ \E j \in DOMAIN u : u[j] = q[i]
          /\ \A j \in DOMAIN u : \/ \E i \in DOMAIN made.calls : u[j] = made.calls[i]
                                \/ \E i \in DOMAIN q : u[j] = q[i]
      <4>1. PICK a \in Seq(CallType) : a = made.calls
        BY <3>3
      <4>2. PICK r \in Seq(CallType) : r = q /\ r # <<>>
        BY <1>2, <2>1 DEF q
      <4>3. u = a \o Tail(r)
        BY <3>4, <4>1, <4>2
      <4>4. u \in Seq(CallType) /\ Joins(u, a, r)
        BY <4>1, <4>2, <4>3, CallsJoined
      <4> QED
        BY <4>1, <4>2, <4>4 DEF Joins
    <3>7. CallsOf(t, c)
      BY <2>1, <3>3, <3>5, <3>6 DEF CallsOf
    <3>8. Covered(d, u, X)
      <4> SUFFICES ASSUME ~Ended(d), NEW m \in Lookups(d), NEW r \in d.cached, Scanned(d, m, r)
                   PROVE  \/ Known(d, m, r) \/ <<m, r>> \in X
                          \/ \E i \in DOMAIN u : u[i] = [lookup |-> m, rec |-> r]
        BY DEF Covered
      <4>1. /\ Known(d, n, rec)
            /\ \A k \in Lookups(b) : /\ d.lookups[k] = b.lookups[k]
                                     /\ \A x : Known(b, k, x) => Known(d, k, x)
            /\ \A k \in Lookups(d) \ Lookups(b), x \in c.cached :
                 \E i \in DOMAIN made.calls : made.calls[i] = [lookup |-> k, rec |-> x]
        BY <3>2 DEF CalledOnce, d
      <4>2. r \in c.cached /\ r \in b.cached
        BY <2>1, <3>3 DEF Grown
      <4>3. CASE m \notin Lookups(b)
        <5>1. PICK i \in DOMAIN made.calls : made.calls[i] = [lookup |-> m, rec |-> r]
          BY <4>1, <4>2, <4>3
        <5> QED
          BY <3>6, <5>1
      <4>4. CASE m \in Lookups(b)
        <5>1. Scanned(b, m, r)
          BY <4>1, <4>4 DEF Scanned
        <5>2. \/ Known(b, m, r) \/ <<m, r>> \in X
              \/ \E i \in DOMAIN q : q[i] = [lookup |-> m, rec |-> r]
          BY <2>1, <2>9, <4>2, <4>4, <5>1 DEF Covered
        <5>3. CASE Known(b, m, r) \/ <<m, r>> \in X
          BY <4>1, <4>4, <5>3
        <5>4. ASSUME NEW i \in DOMAIN q, q[i] = [lookup |-> m, rec |-> r]
              PROVE  \/ Known(d, m, r) \/ \E j \in DOMAIN u : u[j] = [lookup |-> m, rec |-> r]
          <6>1. CASE i = 1
            <7>1. m = n /\ r = rec
              BY <2>2, <5>4, <6>1 DEF n, rec
            <7> QED
              BY <4>1, <7>1
          <6>2. CASE i # 1
            BY <3>6, <5>4, <6>2
          <6> QED
            BY <6>1, <6>2
        <5> QED
          BY <5>2, <5>3, <5>4
      <4> QED
        BY <4>3, <4>4
    <3>9. Going(t, c, X)
      <4>1. u \in Seq(CallType) /\ \A i \in DOMAIN u : u[i].rec \in c.cached
        BY <3>5, <3>7 DEF CallsOf
      <4> QED
        BY <3>3, <3>5, <3>8, <4>1, GoesOn
    <3>10. Left(t, l) = Len(made.calls) + Len(q) - 1 + Room(d, l) /\ Left(s, l) = Len(q) + Room(b, l)
      BY <2>1, <3>5, <3>6 DEF Left, q, b
    <3>11. Room(d, l) \in Nat /\ Len(made.calls) \in Nat
      BY <2>1, <3>3, RoomIsNat DEF Grown
    <3> QED
      BY <1>2, <2>2, <3>3, <3>9, <3>10, <3>11 DEF l, q
  <2> QED
    BY <2>7, <2>8, <2>9
<1> QED
  BY <1>1, <1>2

\* The caches lie in some order: all that is cached is in it.
LEMMA CachesAreListed ==
  ASSUME NEW S, IsFiniteSet(S), NEW order \in SetToSeqs(S)
  PROVE  Listed(order, S)
<1>1. Cardinality(S) \in Nat
  BY FS_CardinalityType
<1> DEFINE D == 1..Cardinality(S)
<1>2. order \in [D -> S] /\ \A i, j \in D : i # j => order[i] # order[j]
  BY DEF SetToSeqs
<1>3. IsFiniteSet(D) /\ Cardinality(D) = Cardinality(S)
  BY <1>1, FS_Interval
<1>4. order \in Seq(S)
  BY <1>1, <1>2
<1> HIDE DEF D
<1>5. order \in Injection(D, S)
  BY <1>2 DEF Injection, IsInjective
<1>6. order \in Surjection(D, S)
  BY <1>3, <1>5, FS_Injection
<1>7. \A rec \in S : \E i \in DOMAIN order : order[i] = rec
  BY <1>2, <1>6 DEF Surjection
<1> QED
  BY <1>4, <1>7 DEF Listed

LEMMA ProductGrows ==
  ASSUME NEW j \in Nat, NEW k \in 0..j, NEW l \in Nat
  PROVE  k * l <= j * l /\ j * l \in Nat
<1>1. PICK d \in Nat : j = k + d
  <2>1. j - k \in Nat /\ j = k + (j - k)
    OBVIOUS
  <2> QED
    BY <2>1
<1>2. j * l = k * l + d * l /\ d * l \in Nat /\ k * l \in Nat
  BY <1>1
<1>3. PICK x \in Nat, y \in Nat : x = k * l /\ y = d * l
  BY <1>2
<1>4. j * l = x + y /\ k * l = x
  BY <1>2, <1>3
<1> QED
  BY <1>4

\* The rounds in which the calls are made
RoundsOf(s, order) == [i \in 1..(Len(s.calls) + MaxLookups * Len(order)) |-> i]

LEMMA RoundsAreEnough ==
  ASSUME NEW s, NEW c, NEW X, Going(s, c, X), NEW order, Listed(order, c.cached),
         NEW r, r = Len(s.calls) + MaxLookups * Len(order)
  PROVE  /\ r \in Nat /\ DOMAIN RoundsOf(s, order) = 1..r
         /\ Left(s, Len(order)) <= r
<1>1. PICK l \in Nat : l = Len(order)
  BY DEF Listed
<1>2. Len(s.calls) \in Nat /\ Room(s.browser, l) \in Nat /\ s.browser \in BrowserType /\ MaxLookups \in Nat
  BY <1>1, LeftIsNat, BrowserAssumption DEF Going, Grown
<1>3. Room(s.browser, l) <= MaxLookups * l /\ MaxLookups * l \in Nat
  <2>1. PICK k \in 0..MaxLookups : k = Cardinality(LookupId \ Lookups(s.browser))
    BY <1>2, IdsAreFinite
  <2>2. k * l <= MaxLookups * l /\ MaxLookups * l \in Nat
    BY <1>2, <2>1, ProductGrows
  <2>3. Room(s.browser, l) = 0 \/ Room(s.browser, l) = k * l
    BY <2>1 DEF Room
  <2> QED
    BY <1>2, <2>2, <2>3
<1>4. PICK m \in Nat, a \in Nat, y \in Nat : m = MaxLookups * l /\ a = Len(s.calls) /\ y = Room(s.browser, l)
  BY <1>2, <1>3
<1>5. r = a + m /\ y <= m
  BY <1>1, <1>3, <1>4
<1>6. r \in Nat /\ a + y <= r
  BY <1>5
<1>7. DOMAIN RoundsOf(s, order) = 1..r
  BY DEF RoundsOf
<1>8. Left(s, Len(order)) = a + y
  BY <1>1, <1>4 DEF Left
<1> QED
  BY <1>6, <1>7, <1>8

\* All calls are made, and what is cached for a lookup is known then.
LEMMA AllCalls ==
  ASSUME NEW c, NEW s, NEW X, Going(s, c, X), NEW order, Listed(order, c.cached)
  PROVE  /\ Grown(MakeCalls(s, order), c)
         /\ Covered(MakeCalls(s, order), <<>>, X)
<1> DEFINE r == Len(s.calls) + MaxLookups * Len(order)
           rounds == RoundsOf(s, order)
           Progress == [browser : BrowserType, calls : Seq(CallType)]
           Reached(t, k) == Going(t, c, X) /\ (t.calls = <<>> \/ Left(t, Len(order)) + k <= r)
           G == [k \in 0..r |-> {t \in Progress : Reached(t, k)}]
<1>1. r \in Nat /\ DOMAIN rounds = 1..r /\ Left(s, Len(order)) <= r /\ Left(s, Len(order)) \in Nat
      /\ Len(order) \in Nat
  <2>1. Len(order) \in Nat
    BY DEF Listed
  <2>2. PICK n : n = r
    OBVIOUS
  <2>3. n \in Nat /\ DOMAIN rounds = 1..n /\ Left(s, Len(order)) <= n
    BY <2>2, RoundsAreEnough
  <2>4. Left(s, Len(order)) \in Nat
    BY <2>1, LeftIsNat
  <2> QED
    BY <2>1, <2>2, <2>3, <2>4
<1> HIDE DEF r, rounds
<1>2. ASSUME NEW t, Going(t, c, X) PROVE t \in Progress
  BY <1>2 DEF Going, Grown, CallsOf
<1>3. s \in G[0]
  BY <1>1, <1>2
<1>4. ASSUME NEW k \in 1..r, NEW t \in G[k - 1]
      PROVE  CallRound(order, t, rounds[k]) \in G[k]
  <2>1. k \in 0..r /\ k - 1 \in 0..r
    BY <1>1
  <2>2. Going(t, c, X) /\ (t.calls = <<>> \/ Left(t, Len(order)) + (k - 1) <= r)
    BY <1>4, <2>1
  <2>3. PICK u : u = MakeCall(t, order)
    OBVIOUS
  <2>4. /\ Going(u, c, X)
        /\ IF t.calls = <<>> THEN u = t ELSE Left(u, Len(order)) <= Left(t, Len(order)) - 1
    BY <2>2, <2>3, OneCall
  <2>5. u.calls = <<>> \/ Left(u, Len(order)) + k <= r
    <3>1. CASE t.calls = <<>>
      BY <2>4, <3>1
    <3>2. CASE t.calls # <<>>
      <4>1. Left(u, Len(order)) \in Nat /\ Left(t, Len(order)) \in Nat
        BY <1>1, <2>2, <2>4, LeftIsNat
      <4> QED
        BY <1>1, <2>1, <2>2, <2>4, <3>2, <4>1
    <3> QED
      BY <3>1, <3>2
  <2>6. u \in G[k]
    BY <1>2, <2>1, <2>4, <2>5
  <2> QED
    BY <2>3, <2>6 DEF CallRound
<1> HIDE DEF G
<1>5. Calling!Folded(order, s, rounds) \in G[r]
  BY <1>1, <1>3, <1>4, Calling!FoldKeepsEach
<1>6. PICK e : e \in G[r] /\ MakeCalls(s, order) = e.browser
  <2>1. MakeCalls(s, order) = Calling!Folded(order, s, rounds).browser
    BY DEF MakeCalls, CallRound, rounds, RoundsOf, FoldLeft, MapThenFoldSet, Max,
           Calling!Folded, Calling!FoldLeft, Calling!MapThenFoldSet, Calling!Max
  <2> QED
    BY <1>5, <2>1
<1>7. Going(e, c, X) /\ (e.calls = <<>> \/ Left(e, Len(order)) + r <= r)
  BY <1>1, <1>6 DEF G
<1>8. e.calls = <<>>
  <2> SUFFICES ASSUME e.calls # <<>> PROVE FALSE
    OBVIOUS
  <2>1. Left(e, Len(order)) \in Nat /\ Left(e, Len(order)) >= 1
    BY <1>1, <1>7, LeftIsNat
  <2> QED
    BY <1>1, <1>7, <2>1
<1>9. Grown(e.browser, c) /\ Covered(e.browser, <<>>, X)
  BY <1>7, <1>8 DEF Going
<1> QED
  BY <1>6, <1>9

LEMMA NothingToCall ==
  ASSUME NEW b, NEW order, Len(order) \in Nat
  PROVE  MakeCalls(Quiet(b), order) = b
<1> DEFINE s == Quiet(b)
           r == Len(s.calls) + MaxLookups * Len(order)
           rounds == RoundsOf(s, order)
<1>1. s.calls = <<>> /\ s.browser = b
  BY DEF Quiet
<1>2. r \in Nat
  <2>1. Len(s.calls) = 0
    BY <1>1
  <2>2. MaxLookups * Len(order) \in Nat
    BY BrowserAssumption
  <2> QED
    BY <2>1, <2>2
<1>3. DOMAIN rounds = 1..r
  BY DEF RoundsOf
<1> HIDE DEF r, rounds, s
<1>4. \A i \in 1..r : \A t \in {s} : CallRound(order, t, rounds[i]) \in {s}
  BY <1>1 DEF CallRound, MakeCall
<1>5. Calling!Folded(order, s, rounds) \in {s}
  BY <1>2, <1>3, <1>4, Calling!FoldKeeps
<1>6. MakeCalls(s, order) = Calling!Folded(order, s, rounds).browser
  BY DEF MakeCalls, CallRound, rounds, RoundsOf, FoldLeft, MapThenFoldSet, Max,
         Calling!Folded, Calling!FoldLeft, Calling!MapThenFoldSet, Calling!Max
<1> QED
  BY <1>1, <1>5, <1>6 DEF s

-----------------------------------------------------------------------------
(* The browser's events.                                                   *)

\* A scan is over: the browser knows what is cached.
LEMMA Settled ==
  ASSUME NEW c, NEW b, Grown(b, c), Covered(b, <<>>, {}),
         IsFiniteSet(c.cached), HasRoot(c), c \in BrowserType, OwnRecords(c.told) \subseteq c.cached
  PROVE  BrowserOK(b) /\ ~b.defer
<1>1. b \in BrowserType /\ IsFiniteSet(b.cached) /\ Rooted(b) /\ ~b.defer /\ b.cached = c.cached
  BY DEF Grown
<1>2. ASSUME ~Ended(b) PROVE InView(b)
  <2>1. PICK n \in LookupId :
          c.lookups[n] = [key |-> Root, links |-> AskedLink, flags |-> "multicast", parent |-> 0]
    BY DEF HasRoot
  <2>2. n \in Lookups(c)
    BY <2>1, NoLookupIsNone
  <2>3. HasRoot(b)
    BY <1>2, <2>1, <2>2 DEF HasRoot, Grown
  <2>4. OwnRecords(b.told) \subseteq b.cached
    BY DEF OwnRecords, Grown
  <2>5. \A m \in Lookups(b), rec \in b.cached : Scanned(b, m, rec) => Known(b, m, rec)
    <3>1. DOMAIN <<>> = {}
      OBVIOUS
    <3> QED
      BY <1>2, <3>1, Zenon DEF Covered
  <2> QED
    BY <2>3, <2>4, <2>5 DEF InView
<1> QED
  BY <1>1, <1>2 DEF BrowserOK

\* While the browser runs, its client was told of exactly the cached records of its name.
LEMMA ViewIsExact ==
  ASSUME NEW b, BrowserOK(b), ~Ended(b), ~b.defer
  PROVE  OwnRecords(b.told) = OwnRecords(b.cached)
<1>1. InView(b) /\ b \in BrowserType
  BY DEF BrowserOK
<1>2. PICK n \in LookupId :
        b.lookups[n] = [key |-> Root, links |-> AskedLink, flags |-> "multicast", parent |-> 0]
  BY <1>1 DEF InView, HasRoot
<1>3. n \in Lookups(b)
  BY <1>1, <1>2, NoLookupIsNone
<1>4. \A rec \in OwnRecords(b.cached) : rec \in b.told
  <2> TAKE rec \in OwnRecords(b.cached)
  <2>1. rec \in b.cached /\ rec.to = "rr" /\ Scanned(b, n, rec)
    BY <1>2 DEF OwnRecords, Scanned
  <2> QED
    BY <1>1, <1>3, <2>1 DEF InView, Known
<1> QED
  BY <1>1, <1>4 DEF OwnRecords, InView

\* What an event makes of the browser b, when its lookups are kept
Becomes(b, c) ==
  /\ BrowserOK(c) /\ ~c.defer
  /\ c.told \subseteq b.told \cup c.cached

\* The browser begins: its key is looked up in the caches.
LEMMA FirstScan ==
  ASSUME BrowserOK(browser), defer_callback
  PROVE  Becomes(browser, browser') /\ browser'.cached = browser.cached
<1> DEFINE b == [browser EXCEPT !.defer = FALSE]
           root == lookup_new(b, AskedLink, "none", Root, 0)
<1>1. /\ browser \in BrowserType /\ ~Ended(browser) /\ browser.defer /\ browser.told = {}
      /\ Lookups(browser) = {} /\ IsFiniteSet(browser.cached)
  BY DEF defer_callback, BrowserOK, Rooted
<1>2. PICK order \in SetToSeqs(browser.cached) :
        LET d == MakeCalls(lookup_go(root[2], root[1], order), order)
        IN browser' = IF Ended(d) THEN d ELSE callback(d, "CACHE_EXHAUSTED", NoLookup)
  BY DEF defer_callback
<1>3. /\ b \in BrowserType /\ b.told = {} /\ b.cached = browser.cached /\ b.lookups = browser.lookups
      /\ ~b.defer /\ ~b.dead /\ ~b.aborted /\ b.frees = browser.frees
  BY <1>1 DEF BrowserType, Ended
<1>4. Lookups(b) = {}
  BY <1>1, <1>3 DEF Lookups
<1> HIDE DEF b
<1>5. PICK n \in LookupId, c \in BrowserType :
        /\ root = <<n, c>> /\ n # 0
        /\ c = [b EXCEPT !.lookups = c.lookups]
        /\ c.lookups[n] = [key |-> Root, links |-> AskedLink, flags |-> "multicast", parent |-> 0]
        /\ Lookups(c) = {n}
  <2>1. LookupId \ Lookups(b) # {}
    BY <1>4, BrowserAssumption DEF LookupId
  <2>2. AskedLink \in SUBSET BrowseLink /\ Root \in Name /\ 0 \in 0..MaxLookups
    BY BrowserAssumption
  <2>3. PICK new : new = root
    OBVIOUS
  <2>4. AddsLookup(new, b, AskedLink, Root, 0)
    BY <1>3, <2>1, <2>2, <2>3, NewLookup
  <2> QED
    BY <1>4, <2>3, <2>4 DEF AddsLookup
<1>6. /\ c.cached = b.cached /\ c.told = {} /\ ~c.defer /\ ~c.dead /\ ~c.aborted
  BY <1>3, <1>5 DEF BrowserType
<1>7. Listed(order, c.cached) /\ IsFiniteSet(c.cached)
  BY <1>1, <1>3, <1>6, CachesAreListed
<1>8. PICK s : s = lookup_go(c, n, order)
  OBVIOUS
<1>9. Going(s, c, {})
  <2>1. Grown(c, c)
    BY <1>5, <1>6 DEF Grown, Rooted
  <2>2. /\ order \in Seq(c.cached) /\ \A rec \in c.cached : \E i \in DOMAIN order : order[i] = rec
        /\ c.cached \subseteq CacheRecord
    BY <1>7 DEF Listed, BrowserType
  <2>3. PICK u : u = [i \in DOMAIN order |-> [lookup |-> n, rec |-> order[i]]]
    OBVIOUS
  <2>4. s = [browser |-> c, calls |-> u]
    BY <1>8, <2>3 DEF lookup_go
  <2>5. \A i \in DOMAIN order : order[i] \in c.cached /\ [lookup |-> n, rec |-> order[i]] \in CallType
    BY <2>2 DEF CallType
  <2>6. u \in Seq(CallType) /\ \A i \in DOMAIN u : u[i].rec \in c.cached
    <3>1. DOMAIN order = 1..Len(order) /\ Len(order) \in Nat
      BY <2>2
    <3> QED
      BY <2>3, <2>5, <3>1
  <2>7. Covered(c, u, {})
    <3>1. \A rec \in c.cached : \E i \in DOMAIN u : u[i] = [lookup |-> n, rec |-> rec]
      BY <2>2, <2>3
    <3> QED
      BY <1>5, <3>1 DEF Covered
  <2> QED
    BY <2>1, <2>4, <2>6, <2>7, GoesOn
<1>10. PICK d : d = MakeCalls(s, order)
  OBVIOUS
<1>11. Grown(d, c) /\ Covered(d, <<>>, {})
  BY <1>7, <1>9, <1>10, AllCalls
<1>12. BrowserOK(d) /\ ~d.defer /\ d.told \subseteq d.cached /\ d.cached = browser.cached
  <2>1. HasRoot(c) /\ OwnRecords(c.told) \subseteq c.cached
    BY <1>5, <1>6 DEF HasRoot, OwnRecords
  <2>2. BrowserOK(d) /\ ~d.defer
    BY <1>7, <1>11, <2>1, Settled
  <2> QED
    BY <1>3, <1>6, <1>11, <2>2 DEF Grown
<1>13. browser' = IF Ended(d) THEN d ELSE callback(d, "CACHE_EXHAUSTED", NoLookup)
  <2>1. root[2] = c /\ root[1] = n
    BY <1>5
  <2> HIDE DEF root
  <2>2. d = MakeCalls(lookup_go(root[2], root[1], order), order)
    BY <1>8, <1>10, <2>1
  <2> QED
    BY <1>2, <2>2
<1>14. CASE Ended(d)
  BY <1>12, <1>13, <1>14 DEF Becomes
<1>15. CASE ~Ended(d)
  <2>1. PICK e : e = callback(d, "CACHE_EXHAUSTED", NoLookup)
    OBVIOUS
  <2>2. /\ e \in BrowserType /\ e.cached = d.cached /\ e.told = d.told
        /\ IF d.frees = "CACHE_EXHAUSTED" THEN e.dead /\ ~e.defer /\ Lookups(e) = {}
           ELSE ~Ended(e) /\ e.defer = d.defer /\ e.lookups = d.lookups
    BY <1>12, <1>15, <2>1, ClientCalled DEF BrowserOK
  <2>3. CASE d.frees = "CACHE_EXHAUSTED"
    <3>1. Ended(e) /\ Rooted(e)
      BY <2>2, <2>3 DEF Ended, Rooted
    <3>2. BrowserOK(e)
      BY <1>12, <2>2, <3>1 DEF BrowserOK
    <3> QED
      BY <1>12, <1>13, <1>15, <2>1, <2>2, <2>3, <3>2 DEF Becomes
  <2>4. CASE d.frees # "CACHE_EXHAUSTED"
    <3>1. ~Ended(e) /\ ~e.defer /\ e.lookups = d.lookups /\ Lookups(e) = Lookups(d) /\ Rooted(d) /\ InView(d)
      BY <1>12, <1>15, <2>2, <2>4 DEF Lookups, BrowserOK
    <3>2. Rooted(e)
      BY <3>1 DEF Rooted, Ended
    <3>3. InView(e)
      BY <2>2, <3>1 DEF InView, HasRoot, Known, Scanned
    <3>4. BrowserOK(e)
      BY <1>12, <2>2, <3>1, <3>2, <3>3 DEF BrowserOK
    <3> QED
      BY <1>12, <1>13, <1>15, <2>1, <2>2, <3>1, <3>4 DEF Becomes
  <2> QED
    BY <2>3, <2>4
<1> QED
  BY <1>14, <1>15

-----------------------------------------------------------------------------
(* A change of the caches.                                                 *)

\* What the lookups are told, and in which caches
Tidings(b, rec, event, order) == [start |-> b, rec |-> rec, event |-> event, order |-> order]

\* The newest lookup comes first.
NewestFirst == [i \in LookupId |-> MaxLookups + 1 - i]

LEMMA NotifyIsALoop ==
  ASSUME NEW b, NEW rec, NEW event, NEW order
  PROVE  /\ avahi_multicast_lookup_engine_notify(b, rec, event, order)
              = Notifying!Folded(Tidings(b, rec, event, order), b, NewestFirst)
         /\ MaxLookups \in Nat /\ DOMAIN NewestFirst = 1..MaxLookups
         /\ \A k \in 1..MaxLookups : NewestFirst[k] \in LookupId /\ NewestFirst[k] = MaxLookups + 1 - k
<1> DEFINE p == Tidings(b, rec, event, order)
<1>1. p.start = b /\ p.rec = rec /\ p.event = event /\ p.order = order
  BY DEF Tidings
<1> HIDE DEF p
<1>2. avahi_multicast_lookup_engine_notify(p.start, p.rec, p.event, p.order)
        = Notifying!Folded(p, p.start, NewestFirst)
  BY DEF avahi_multicast_lookup_engine_notify, NewestFirst, NotifyRound, FoldLeft, MapThenFoldSet, Max,
         Notifying!Folded, Notifying!FoldLeft, Notifying!MapThenFoldSet, Notifying!Max
<1>3. avahi_multicast_lookup_engine_notify(b, rec, event, order) = Notifying!Folded(p, b, NewestFirst)
  BY <1>1, <1>2
<1>4. MaxLookups \in Nat
  BY BrowserAssumption
<1>5. DOMAIN NewestFirst = 1..MaxLookups
  BY DEF NewestFirst, LookupId
<1>6. \A k \in 1..MaxLookups : NewestFirst[k] \in LookupId /\ NewestFirst[k] = MaxLookups + 1 - k
  BY <1>4 DEF NewestFirst, LookupId
<1> QED
  BY <1>3, <1>4, <1>5, <1>6 DEF p

\* A browser that is gone, or has not begun, hears of nothing.
LEMMA NobodyListens ==
  ASSUME NEW b \in BrowserType, Ended(b) \/ Lookups(b) = {}, NEW rec, NEW event, NEW order, Len(order) \in Nat
  PROVE  avahi_multicast_lookup_engine_notify(b, rec, event, order) = b
<1> DEFINE p == Tidings(b, rec, event, order)
<1>1. p.start = b /\ p.rec = rec /\ p.event = event /\ p.order = order
  BY DEF Tidings
<1> HIDE DEF p
<1>2. ASSUME NEW n PROVE NotifyRound(p, b, n) = b
  <2>1. CASE n \in Notified(b, rec) /\ Ended(b)
    <3>1. lookup_multicast_callback(b, n, event, rec, order) = Quiet(b)
      BY <2>1 DEF lookup_multicast_callback
    <3>2. MakeCalls(lookup_multicast_callback(b, n, event, rec, order), order) = b
      BY <3>1, NothingToCall
    <3> QED
      BY <1>1, <3>2 DEF NotifyRound
  <2>2. CASE n \notin Notified(b, rec)
    BY <1>1, <2>2 DEF NotifyRound
  <2>3. Ended(b) \/ Notified(b, rec) = {}
    BY DEF Notified
  <2> QED
    BY <2>1, <2>2, <2>3
<1>3. \A s \in {b} : \A i \in 1..MaxLookups : NotifyRound(p, s, NewestFirst[i]) \in {b}
  BY <1>2
<1>4. Notifying!Folded(p, b, NewestFirst) \in {b}
  BY <1>3, NotifyIsALoop, Notifying!FoldKeeps
<1> QED
  BY <1>4, NotifyIsALoop DEF p

\* The lookups that were not told of rec yet, after k rounds
Untold(c, rec, k) == {<<n, rec>> : n \in Notified(c, rec) \cap 1..(MaxLookups - k)}

\* A lookup is told of a new record, and what follows from it is done.
LEMMA RoundForNew ==
  ASSUME NEW c \in BrowserType, NEW rec \in c.cached, NEW order, Listed(order, c.cached),
         NEW k \in 1..MaxLookups, NEW n, n = MaxLookups + 1 - k,
         NEW b, Grown(b, c), Covered(b, <<>>, Untold(c, rec, k - 1)),
         NEW d, d = NotifyRound(Tidings(c, rec, "NEW", order), b, n)
  PROVE  Grown(d, c) /\ Covered(d, <<>>, Untold(c, rec, k))
<1> DEFINE X == Untold(c, rec, k)
           s == lookup_multicast_callback(b, n, "NEW", rec, order)
<1>1. MaxLookups \in Nat /\ n \in LookupId /\ Len(order) \in Nat /\ b \in BrowserType /\ b.cached = c.cached
  BY BrowserAssumption DEF LookupId, Listed, Grown
<1>2. \A m, r : <<m, r>> \in Untold(c, rec, k - 1) => (m = n /\ r = rec /\ n \in Notified(c, rec)) \/ <<m, r>> \in X
  <2> SUFFICES ASSUME NEW m \in Notified(c, rec) \cap 1..(MaxLookups - (k - 1)), m # n
               PROVE  m \in 1..(MaxLookups - k)
    BY DEF Untold
  <2> QED
    BY <1>1
<1> HIDE DEF X
<1>3. d = IF n \in Notified(c, rec) /\ b.lookups[n] # NoLookup THEN MakeCalls(s, order) ELSE b
  BY DEF NotifyRound, Tidings
<1>4. ~Ended(b) => \A m \in Lookups(b), r \in b.cached : Scanned(b, m, r) =>
        Known(b, m, r) \/ <<m, r>> \in X \/ (m = n /\ r = rec /\ n \in Notified(c, rec))
  <2>1. DOMAIN <<>> = {}
    OBVIOUS
  <2> QED
    BY <1>2, <2>1, Zenon DEF Covered
<1>5. CASE ~(n \in Notified(c, rec) /\ b.lookups[n] # NoLookup)
  <2>1. d = b
    BY <1>3, <1>5
  <2>2. \A m \in Lookups(b) : ~(m = n /\ n \in Notified(c, rec))
    BY <1>5 DEF Lookups
  <2>3. Covered(b, <<>>, X)
    BY <1>4, <2>2 DEF Covered
  <2> QED
    BY <2>1, <2>3 DEF X
<1>6. CASE Ended(b)
  <2>1. s = Quiet(b)
    BY <1>6 DEF lookup_multicast_callback
  <2> HIDE DEF s
  <2>2. d = b
    BY <1>1, <1>3, <2>1, NothingToCall
  <2>3. Covered(b, <<>>, X)
    BY <1>6 DEF Covered
  <2> QED
    BY <2>2, <2>3 DEF X
<1>7. CASE n \in Notified(c, rec) /\ b.lookups[n] # NoLookup /\ ~Ended(b)
  <2>1. n \in Lookups(b)
    BY <1>1, <1>7 DEF Lookups
  <2>2. CalledOnce(s, b, c, n, rec, Len(order))
    BY <1>7, <2>1, CallbackForNew
  <2> HIDE DEF s
  <2>3. /\ s = [browser |-> s.browser, calls |-> s.calls] /\ Grown(s.browser, c)
        /\ s.calls \in Seq(CallType) /\ \A i \in DOMAIN s.calls : s.calls[i].rec \in c.cached
    BY <2>2 DEF CalledOnce, CallsOf
  <2>4. Covered(s.browser, s.calls, X)
    <3> SUFFICES ASSUME ~Ended(s.browser), NEW m \in Lookups(s.browser), NEW r \in s.browser.cached,
                        Scanned(s.browser, m, r)
                 PROVE  \/ Known(s.browser, m, r) \/ <<m, r>> \in X
                        \/ \E i \in DOMAIN s.calls : s.calls[i] = [lookup |-> m, rec |-> r]
      BY DEF Covered
    <3>1. /\ Known(s.browser, n, rec)
          /\ \A j \in Lookups(b) : /\ s.browser.lookups[j] = b.lookups[j]
                                   /\ \A x : Known(b, j, x) => Known(s.browser, j, x)
          /\ \A j \in Lookups(s.browser) \ Lookups(b), x \in c.cached :
               \E i \in DOMAIN s.calls : s.calls[i] = [lookup |-> j, rec |-> x]
      BY <2>2 DEF CalledOnce
    <3>2. r \in c.cached /\ r \in b.cached
      BY <1>1, <2>3 DEF Grown
    <3>3. CASE m \notin Lookups(b)
      BY <3>1, <3>2, <3>3
    <3>4. CASE m \in Lookups(b)
      <4>1. Scanned(b, m, r)
        BY <3>1, <3>4 DEF Scanned
      <4>2. Known(b, m, r) \/ <<m, r>> \in X \/ (m = n /\ r = rec)
        BY <1>4, <1>7, <3>2, <3>4, <4>1
      <4> QED
        BY <3>1, <3>4, <4>2
    <3> QED
      BY <3>3, <3>4
  <2>5. Going(s, c, X)
    BY <2>3, <2>4, GoesOn
  <2>6. Grown(d, c) /\ Covered(d, <<>>, X)
    BY <1>3, <1>7, <2>5, AllCalls
  <2> QED
    BY <2>6 DEF X
<1> QED
  BY <1>5, <1>6, <1>7

\* The browser b heard of a change that left the caches as in c.
Hears(b, c, d) ==
  /\ Becomes(b, d) /\ d.cached = c.cached
  /\ ~Ended(d) => \A n \in Lookups(b) : d.lookups[n] = b.lookups[n]

\* A record enters a cache: the client hears of it, and CNAME records are followed.
LEMMA HearsOfNew ==
  ASSUME NEW b, BrowserOK(b), ~Ended(b), ~b.defer, NEW rec \in CacheRecord,
         NEW c, c = [b EXCEPT !.cached = @ \cup {rec}],
         NEW order \in SetToSeqs(c.cached),
         NEW d, d = avahi_multicast_lookup_engine_notify(c, rec, "NEW", order)
  PROVE  Hears(b, c, d)
<1>1. b \in BrowserType /\ IsFiniteSet(b.cached) /\ InView(b) /\ Rooted(b)
  BY DEF BrowserOK
<1>2. /\ c \in BrowserType /\ c.cached = b.cached \cup {rec} /\ c.told = b.told /\ c.lookups = b.lookups
      /\ ~c.defer /\ ~c.dead /\ ~c.aborted
  BY <1>1 DEF BrowserType, Ended
<1>3. IsFiniteSet(c.cached) /\ Lookups(c) = Lookups(b)
  BY <1>1, <1>2, FS_AddElement DEF Lookups
<1>4. Listed(order, c.cached) /\ rec \in c.cached
  BY <1>2, <1>3, CachesAreListed
<1> DEFINE p == Tidings(c, rec, "NEW", order)
           Good(e, k) == Grown(e, c) /\ Covered(e, <<>>, Untold(c, rec, k))
           G == [k \in 0..MaxLookups |-> {e \in BrowserType : Good(e, k)}]
<1>5. MaxLookups \in Nat /\ d = Notifying!Folded(p, c, NewestFirst)
  BY NotifyIsALoop
<1>6. c \in G[0]
  <2>1. Grown(c, c)
    BY <1>1, <1>2, <1>3 DEF Grown, Rooted
  <2>2. Covered(c, <<>>, Untold(c, rec, 0))
    <3> SUFFICES ASSUME NEW n \in Lookups(c), NEW r \in c.cached, Scanned(c, n, r)
                 PROVE  Known(c, n, r) \/ <<n, r>> \in Untold(c, rec, 0)
      BY DEF Covered
    <3>1. CASE r = rec
      <4>1. n \in Notified(c, rec)
        BY <3>1 DEF Notified, Scanned
      <4>2. n \in 1..(MaxLookups - 0)
        BY <1>5 DEF Lookups, LookupId
      <4> QED
        BY <3>1, <4>1, <4>2 DEF Untold
    <3>2. CASE r \in b.cached
      <4>1. Known(b, n, r)
        BY <1>1, <1>2, <1>3, <3>2 DEF InView, Scanned
      <4> QED
        BY <1>2, <1>3, <4>1 DEF Known
    <3> QED
      BY <1>2, <3>1, <3>2
  <2> QED
    BY <1>2, <1>5, <2>1, <2>2
<1>7. ASSUME NEW k \in 1..MaxLookups, NEW e \in G[k - 1]
      PROVE  NotifyRound(p, e, NewestFirst[k]) \in G[k]
  <2>1. k \in 0..MaxLookups /\ k - 1 \in 0..MaxLookups
    BY <1>5
  <2>2. Good(e, k - 1)
    BY <1>7, <2>1
  <2>3. PICK f : f = NotifyRound(p, e, NewestFirst[k])
    OBVIOUS
  <2>4. NewestFirst[k] = MaxLookups + 1 - k
    BY NotifyIsALoop
  <2>5. Good(f, k)
    BY <1>2, <1>4, <2>2, <2>3, <2>4, RoundForNew
  <2>6. f \in BrowserType
    BY <2>5 DEF Grown
  <2> QED
    BY <2>1, <2>3, <2>5, <2>6
<1> HIDE DEF G, p
<1>8. Notifying!Folded(p, c, NewestFirst) \in G[MaxLookups]
  BY <1>5, <1>6, <1>7, NotifyIsALoop, Notifying!FoldKeepsEach
<1>9. Good(d, MaxLookups)
  BY <1>5, <1>8 DEF G
<1>10. Untold(c, rec, MaxLookups) = {}
  <2>1. 1..(MaxLookups - MaxLookups) = {}
    BY <1>5
  <2> QED
    BY <2>1 DEF Untold
<1>11. Grown(d, c) /\ Covered(d, <<>>, {})
  BY <1>9, <1>10
<1>12. HasRoot(c) /\ OwnRecords(c.told) \subseteq c.cached
  BY <1>1, <1>2 DEF InView, HasRoot
<1>13. BrowserOK(d) /\ ~d.defer
  BY <1>2, <1>3, <1>11, <1>12, Settled
<1>14. /\ d.told \subseteq b.told \cup d.cached /\ d.cached = c.cached
       /\ ~Ended(d) => \A n \in Lookups(b) : d.lookups[n] = b.lookups[n]
  BY <1>2, <1>3, <1>11 DEF Grown
<1> QED
  BY <1>13, <1>14 DEF Becomes, Hears

\* What the lookups make of the browser c when a record leaves the caches
Shrunk(e, c, rec) ==
  /\ e \in BrowserType /\ e.cached = c.cached /\ ~e.defer /\ Rooted(e)
  /\ c.told \ {rec} \subseteq e.told /\ e.told \subseteq c.told
  /\ ~Ended(e) => e.lookups = c.lookups

\* What one lookup, told that rec is gone, makes of e
ShrunkBy(n, f, e, c, rec) ==
  /\ Shrunk(f, c, rec)
  /\ rec \notin e.told => rec \notin f.told
  /\ n \in Notified(c, rec) /\ rec.to = "rr" /\ ~Ended(f) => rec \notin f.told

LEMMA RoundForGone ==
  ASSUME NEW c \in BrowserType, NEW rec \in CacheRecord, rec \notin c.cached, NEW order, Len(order) \in Nat,
         NEW n \in LookupId, NEW e, Shrunk(e, c, rec),
         NEW f, f = NotifyRound(Tidings(c, rec, "REMOVE", order), e, n)
  PROVE  ShrunkBy(n, f, e, c, rec)
<1> USE DEF ShrunkBy
<1> DEFINE s == lookup_multicast_callback(e, n, "REMOVE", rec, order)
<1>1. f = IF n \in Notified(c, rec) /\ e.lookups[n] # NoLookup THEN MakeCalls(s, order) ELSE e
  BY DEF NotifyRound, Tidings
<1>2. e \in BrowserType
  BY DEF Shrunk
<1>3. ASSUME NEW g, s = Quiet(g) PROVE MakeCalls(s, order) = g
  BY <1>3, NothingToCall
<1>4. CASE ~(n \in Notified(c, rec) /\ e.lookups[n] # NoLookup)
  <2>1. f = e
    BY <1>1, <1>4
  <2>2. n \in Notified(c, rec) => n \in Lookups(c)
    BY DEF Notified
  <2>3. n \in Notified(c, rec) => Ended(e)
    BY <1>4, <2>2 DEF Shrunk, Lookups
  <2> QED
    BY <2>1, <2>3
<1>5. CASE Ended(e)
  <2>1. s = Quiet(e)
    BY <1>5 DEF lookup_multicast_callback
  <2> HIDE DEF s
  <2>2. f = e
    BY <1>1, <1>3, <2>1
  <2> QED
    BY <1>5, <2>2
<1>6. CASE n \in Notified(c, rec) /\ e.lookups[n] # NoLookup /\ ~Ended(e)
  <2>0. f = MakeCalls(s, order)
    BY <1>1, <1>6
  <2>1. CASE rec.to # "rr"
    <3>1. s = Quiet(lookup_drop_cname(e, n, rec, "none"))
      BY <1>6, <2>1 DEF lookup_multicast_callback
    <3>2. s = Quiet(e)
      BY <1>2, <3>1, NoneIsDropped
    <3> HIDE DEF s
    <3>3. f = e
      BY <1>3, <2>0, <3>2
    <3> QED
      BY <2>1, <3>3
  <2>2. CASE rec.to = "rr" /\ e.lookups[n].key # Root
    <3>1. PICK g : g = [e EXCEPT !.aborted = TRUE]
      OBVIOUS
    <3>2. s = Quiet(g)
      BY <1>6, <2>2, <3>1 DEF lookup_multicast_callback
    <3> HIDE DEF s
    <3>3. f = g
      BY <1>3, <2>0, <3>2
    <3>4. /\ g \in BrowserType /\ g.cached = e.cached /\ g.told = e.told /\ g.lookups = e.lookups /\ g.aborted
          /\ g.defer = e.defer /\ g.dead = e.dead
      BY <1>2, <3>1 DEF BrowserType
    <3>5. Ended(g) /\ Lookups(g) = Lookups(e)
      BY <3>4 DEF Ended, Lookups
    <3>6. Rooted(g)
      BY <3>4, <3>5 DEF Shrunk, Rooted
    <3> QED
      BY <3>3, <3>4, <3>5, <3>6 DEF Shrunk
  <2>3. CASE rec.to = "rr" /\ e.lookups[n].key = Root
    <3>1. PICK g : g = callback(e, "REMOVE", rec)
      OBVIOUS
    <3>2. s = Quiet(g)
      BY <1>6, <2>3, <3>1 DEF lookup_multicast_callback
    <3> HIDE DEF s
    <3>3. f = g
      BY <1>3, <2>0, <3>2
    <3>4. /\ g \in BrowserType /\ g.cached = e.cached /\ g.told = e.told \ {rec}
          /\ IF e.frees = "REMOVE" THEN g.dead /\ ~g.defer /\ Lookups(g) = {}
             ELSE ~Ended(g) /\ g.defer = e.defer /\ g.lookups = e.lookups
      BY <1>2, <1>6, <3>1, ClientCalled
    <3>5. Rooted(g) /\ ~g.defer /\ (~Ended(g) => g.lookups = e.lookups)
      <4>1. CASE e.frees = "REMOVE"
        BY <3>4, <4>1 DEF Rooted, Ended
      <4>2. CASE e.frees # "REMOVE"
        <5>1. Lookups(g) = Lookups(e) /\ g.lookups = e.lookups /\ ~g.defer /\ ~g.dead
          BY <3>4, <4>2 DEF Lookups, Shrunk, Ended
        <5> QED
          BY <5>1 DEF Rooted, Shrunk
      <4> QED
        BY <4>1, <4>2
    <3>6. Shrunk(g, c, rec)
      BY <1>6, <3>4, <3>5 DEF Shrunk
    <3> QED
      BY <3>3, <3>4, <3>6
  <2> QED
    BY <2>1, <2>2, <2>3
<1> QED
  BY <1>4, <1>5, <1>6

\* A record leaves a cache: the client hears that a record of its name is gone.
LEMMA HearsOfGone ==
  ASSUME NEW b, BrowserOK(b), ~Ended(b), ~b.defer, NEW rec \in CacheRecord,
         NEW c, c = [b EXCEPT !.cached = @ \ {rec}],
         NEW order \in SetToSeqs(c.cached),
         NEW d, d = avahi_multicast_lookup_engine_notify(c, rec, "REMOVE", order)
  PROVE  Hears(b, c, d)
<1>1. b \in BrowserType /\ IsFiniteSet(b.cached) /\ InView(b) /\ Rooted(b)
  BY DEF BrowserOK
<1>2. /\ c \in BrowserType /\ c.cached = b.cached \ {rec} /\ c.told = b.told /\ c.lookups = b.lookups
      /\ ~c.defer /\ ~c.dead /\ ~c.aborted
  BY <1>1 DEF BrowserType, Ended
<1>3. /\ IsFiniteSet(c.cached) /\ Lookups(c) = Lookups(b) /\ rec \notin c.cached
  BY <1>1, <1>2, FS_RemoveElement DEF Lookups
<1>4. Len(order) \in Nat
  BY <1>3, CachesAreListed DEF Listed
<1>5. PICK r \in LookupId :
        c.lookups[r] = [key |-> Root, links |-> AskedLink, flags |-> "multicast", parent |-> 0]
  BY <1>1, <1>2 DEF InView, HasRoot
<1>6. rec \in OwnRecords(CacheRecord) => r \in Notified(c, rec) /\ rec.to = "rr"
  <2>1. r \in Lookups(c)
    <3>1. c.lookups[r].flags = "multicast" /\ c \in BrowserType
      BY <1>2, <1>5
    <3> QED
      BY <3>1, NoLookupIsNone
  <2> QED
    BY <1>5, <2>1 DEF OwnRecords, Notified
<1> DEFINE p == Tidings(c, rec, "REMOVE", order)
           Good(e, k) == /\ Shrunk(e, c, rec)
                         /\ k >= MaxLookups + 1 - r /\ rec \in OwnRecords(CacheRecord) /\ ~Ended(e)
                            => rec \notin e.told
           G == [k \in 0..MaxLookups |-> {e \in BrowserType : Good(e, k)}]
<1>7. MaxLookups \in Nat /\ d = Notifying!Folded(p, c, NewestFirst)
  BY NotifyIsALoop
<1>8. r \in 1..MaxLookups
  BY DEF LookupId
<1>9. c \in G[0]
  <2>1. Shrunk(c, c, rec)
    BY <1>1, <1>2, <1>3 DEF Shrunk, Rooted
  <2> QED
    BY <1>2, <1>7, <1>8, <2>1
<1>10. ASSUME NEW k \in 1..MaxLookups, NEW e \in G[k - 1]
       PROVE  NotifyRound(p, e, NewestFirst[k]) \in G[k]
  <2>1. k \in 0..MaxLookups /\ k - 1 \in 0..MaxLookups
    BY <1>7
  <2>2. Good(e, k - 1)
    BY <1>10, <2>1
  <2>3. PICK n, f : /\ n \in LookupId /\ n = MaxLookups + 1 - k /\ n = NewestFirst[k]
                    /\ f = NotifyRound(p, e, n)
    BY NotifyIsALoop
  <2>4. /\ Shrunk(f, c, rec)
        /\ rec \notin e.told => rec \notin f.told
        /\ n \in Notified(c, rec) /\ rec.to = "rr" /\ ~Ended(f) => rec \notin f.told
    <3>1. c \in BrowserType /\ rec \notin c.cached /\ Shrunk(e, c, rec)
      BY <1>2, <1>3, <2>2
    <3>2. f = NotifyRound(Tidings(c, rec, "REMOVE", order), e, n)
      BY <2>3
    <3> HIDE DEF G, Good, p
    <3>3. ShrunkBy(n, f, e, c, rec)
      BY <1>4, <2>3, <3>1, <3>2, RoundForGone
    <3> QED
      BY <3>3 DEF ShrunkBy
  <2>5. Ended(e) => Ended(f)
    <3> SUFFICES ASSUME Ended(e) PROVE f = e
      OBVIOUS
    <3>1. lookup_multicast_callback(e, n, "REMOVE", rec, order) = Quiet(e)
      BY DEF lookup_multicast_callback
    <3>2. MakeCalls(lookup_multicast_callback(e, n, "REMOVE", rec, order), order) = e
      BY <1>4, <3>1, NothingToCall
    <3> QED
      BY <2>3, <3>2 DEF NotifyRound, Tidings
  <2>6. Good(f, k)
    <3> SUFFICES ASSUME k >= MaxLookups + 1 - r, rec \in OwnRecords(CacheRecord), ~Ended(f)
                 PROVE  rec \notin f.told
      BY <2>4
    <3>1. CASE n = r
      BY <1>6, <2>4, <3>1
    <3>2. CASE n # r
      <4>1. k - 1 >= MaxLookups + 1 - r
        BY <1>7, <1>8, <2>3, <3>2
      <4> QED
        BY <2>2, <2>4, <2>5, <4>1
    <3> QED
      BY <3>1, <3>2
  <2>7. f \in BrowserType
    BY <2>4 DEF Shrunk
  <2> QED
    BY <2>1, <2>3, <2>6, <2>7
<1> HIDE DEF G, p, Good
<1>11. Notifying!Folded(p, c, NewestFirst) \in G[MaxLookups]
  BY <1>7, <1>9, <1>10, NotifyIsALoop, Notifying!FoldKeepsEach
<1>12. Good(d, MaxLookups)
  <2>1. MaxLookups \in 0..MaxLookups /\ d \in G[MaxLookups]
    BY <1>7, <1>11
  <2> QED
    BY <2>1 DEF G
<1>13. Shrunk(d, c, rec) /\ (rec \in OwnRecords(CacheRecord) /\ ~Ended(d) => rec \notin d.told)
  <2>1. MaxLookups >= MaxLookups + 1 - r
    BY <1>7, <1>8
  <2> QED
    BY <1>12, <2>1 DEF Good
<1>14. ASSUME ~Ended(d) PROVE InView(d)
  <2>1. d.lookups = b.lookups /\ Lookups(d) = Lookups(b) /\ d.cached = b.cached \ {rec}
    BY <1>2, <1>13, <1>14 DEF Shrunk, Lookups
  <2>2. d.told \subseteq b.told /\ b.told \ {rec} \subseteq d.told /\ d.told \subseteq CacheRecord
    BY <1>2, <1>13 DEF Shrunk, BrowserType
  <2>3. HasRoot(d)
    BY <1>1, <2>1 DEF InView, HasRoot
  <2>4. OwnRecords(d.told) \subseteq d.cached
    <3> SUFFICES ASSUME NEW x \in OwnRecords(d.told) PROVE x \in d.cached
      OBVIOUS
    <3>1. x \in OwnRecords(b.told) /\ x \in OwnRecords(CacheRecord) /\ x \in d.told
      BY <2>2 DEF OwnRecords
    <3>2. x # rec
      BY <1>13, <1>14, <3>1
    <3> QED
      BY <1>1, <2>1, <3>1, <3>2 DEF InView
  <2>5. ASSUME NEW n \in Lookups(d), NEW x \in d.cached, Scanned(d, n, x) PROVE Known(d, n, x)
    <3>1. Known(b, n, x) /\ x # rec
      BY <1>1, <2>1, <2>5 DEF InView, Scanned
    <3> QED
      BY <2>1, <2>2, <3>1 DEF Known
  <2> QED
    BY <2>3, <2>4, <2>5 DEF InView
<1>15. BrowserOK(d) /\ ~d.defer
  BY <1>2, <1>3, <1>13, <1>14 DEF Shrunk, BrowserOK
<1>16. /\ d.told \subseteq b.told \cup d.cached /\ d.cached = c.cached
       /\ ~Ended(d) => \A n \in Lookups(b) : d.lookups[n] = b.lookups[n]
  BY <1>2, <1>13 DEF Shrunk
<1> QED
  BY <1>15, <1>16 DEF Becomes, Hears

\* What a change of the caches makes of the browser b
Changed(b, c) ==
  /\ BrowserOK(c)
  /\ IF Ended(b) \/ b.defer THEN c = [b EXCEPT !.cached = c.cached]
     ELSE Becomes(b, c) /\ (~Ended(c) => \A n \in Lookups(b) : c.lookups[n] = b.lookups[n])

LEMMA NobodyMinds ==
  ASSUME NEW b, BrowserOK(b), Ended(b) \/ b.defer, NEW S \in SUBSET CacheRecord, IsFiniteSet(S),
         NEW c, c = [b EXCEPT !.cached = S],
         NEW order \in SetToSeqs(c.cached), NEW rec, NEW event,
         NEW d, d = avahi_multicast_lookup_engine_notify(c, rec, event, order)
  PROVE  Changed(b, d)
<1>1. b \in BrowserType /\ Rooted(b) /\ (b.defer => Lookups(b) = {}) /\ (~Ended(b) => b.told = {})
  BY DEF BrowserOK, Rooted
<1>2. /\ c \in BrowserType /\ c.cached = S /\ c.told = b.told /\ c.lookups = b.lookups
      /\ c.defer = b.defer /\ c.dead = b.dead /\ c.aborted = b.aborted /\ c = [b EXCEPT !.cached = c.cached]
  BY <1>1 DEF BrowserType
<1>3. Lookups(c) = Lookups(b) /\ (Ended(c) <=> Ended(b))
  BY <1>2 DEF Lookups, Ended
<1>4. Len(order) \in Nat
  BY <1>2, CachesAreListed DEF Listed
<1>5. d = c
  BY <1>1, <1>2, <1>3, <1>4, NobodyListens
<1>6. BrowserOK(c)
  BY <1>1, <1>2, <1>3 DEF BrowserOK, Rooted
<1> QED
  BY <1>2, <1>5, <1>6 DEF Changed

LEMMA CachesChange ==
  ASSUME BrowserIInv, NEW rec \in CacheRecord, CacheNew(rec) \/ CacheRemove(rec)
  PROVE  Changed(browser, browser')
<1>1. /\ BrowserOK(browser) /\ browser \in BrowserType /\ IsFiniteSet(browser.cached)
      /\ browser.cached \subseteq CacheRecord
  BY DEF BrowserIInv, BrowserOK, BrowserType
<1>2. CASE CacheNew(rec)
  <2>1. PICK c : c = [browser EXCEPT !.cached = @ \cup {rec}]
    OBVIOUS
  <2>2. PICK order \in SetToSeqs(c.cached) :
           browser' = avahi_multicast_lookup_engine_notify(c, rec, "NEW", order)
    BY <1>2, <2>1 DEF CacheNew, CacheChange
  <2>3. PICK d : d = browser'
    OBVIOUS
  <2>4. CASE Ended(browser) \/ browser.defer
    <3>1. PICK S \in SUBSET CacheRecord : S = browser.cached \cup {rec}
      BY <1>1
    <3>2. IsFiniteSet(S) /\ c = [browser EXCEPT !.cached = S]
      BY <1>1, <2>1, <3>1, FS_AddElement
    <3>3. Changed(browser, d)
      BY <1>1, <2>2, <2>3, <2>4, <3>1, <3>2, NobodyMinds
    <3> QED
      BY <2>3, <3>3
  <2>5. CASE ~Ended(browser) /\ ~browser.defer
    <3>1. PICK b : b = browser
      OBVIOUS
    <3>2. BrowserOK(b) /\ ~Ended(b) /\ ~b.defer
      BY <1>1, <2>5, <3>1
    <3>3. c = [b EXCEPT !.cached = @ \cup {rec}]
      BY <2>1, <3>1
    <3>4. d = avahi_multicast_lookup_engine_notify(c, rec, "NEW", order)
      BY <2>2, <2>3
    <3>5. Hears(b, c, d)
      BY <3>2, <3>3, <3>4, HearsOfNew
    <3> QED
      BY <2>3, <2>5, <3>1, <3>5 DEF Changed, Becomes, Hears
  <2> QED
    BY <2>4, <2>5
<1>3. CASE CacheRemove(rec)
  <2>1. PICK c : c = [browser EXCEPT !.cached = @ \ {rec}]
    OBVIOUS
  <2>2. PICK order \in SetToSeqs(c.cached) :
           browser' = avahi_multicast_lookup_engine_notify(c, rec, "REMOVE", order)
    BY <1>3, <2>1 DEF CacheRemove, CacheChange
  <2>3. PICK d : d = browser'
    OBVIOUS
  <2>4. CASE Ended(browser) \/ browser.defer
    <3>1. PICK S \in SUBSET CacheRecord : S = browser.cached \ {rec}
      BY <1>1
    <3>2. IsFiniteSet(S) /\ c = [browser EXCEPT !.cached = S]
      BY <1>1, <2>1, <3>1, FS_RemoveElement
    <3>3. Changed(browser, d)
      BY <1>1, <2>2, <2>3, <2>4, <3>1, <3>2, NobodyMinds
    <3> QED
      BY <2>3, <3>3
  <2>5. CASE ~Ended(browser) /\ ~browser.defer
    <3>1. PICK b : b = browser
      OBVIOUS
    <3>2. BrowserOK(b) /\ ~Ended(b) /\ ~b.defer
      BY <1>1, <2>5, <3>1
    <3>3. c = [b EXCEPT !.cached = @ \ {rec}]
      BY <2>1, <3>1
    <3>4. d = avahi_multicast_lookup_engine_notify(c, rec, "REMOVE", order)
      BY <2>2, <2>3
    <3>5. Hears(b, c, d)
      BY <3>2, <3>3, <3>4, HearsOfGone
    <3> QED
      BY <2>3, <2>5, <3>1, <3>5 DEF Changed, Becomes, Hears
  <2> QED
    BY <2>4, <2>5
<1> QED
  BY <1>2, <1>3

\* The client starts the browser over.
StartedOver(b, d) ==
  BrowserOK(d) /\ d.defer /\ d.told = {} /\ d.cached = b.cached /\ (Ended(d) <=> Ended(b))

\* The client frees the browser or starts it over: its lookups are gone.
LEMMA Cancels ==
  ASSUME NEW b, BrowserOK(b), NEW c, NEW d, c = Freed(b),
         d = [browser_cancel(b) EXCEPT !.defer = TRUE, !.told = {}]
  PROVE  /\ BrowserOK(c) /\ Ended(c) /\ c.told = b.told /\ c.cached = b.cached
         /\ StartedOver(b, d)
<1> DEFINE none == [n \in LookupId |-> NoLookup]
           a == [b EXCEPT !.lookups = none, !.defer = FALSE]
<1>1. b \in BrowserType /\ IsFiniteSet(b.cached)
  BY DEF BrowserOK
<1>2. none \in [LookupId -> LookupType] /\ \A n \in LookupId : none[n] = NoLookup
  BY DEF LookupType
<1> HIDE DEF none
<1>3. /\ a \in BrowserType /\ a.lookups = none /\ a.told = b.told /\ a.cached = b.cached
      /\ a.dead = b.dead /\ a.aborted = b.aborted
  BY <1>1, <1>2 DEF BrowserType
<1>4. c = [a EXCEPT !.dead = TRUE] /\ d = [a EXCEPT !.defer = TRUE, !.told = {}]
  BY DEF Freed, browser_cancel, none
<1> HIDE DEF a
<1>5. /\ c \in BrowserType /\ c.lookups = none /\ c.told = b.told /\ c.cached = b.cached /\ c.dead
      /\ d \in BrowserType /\ d.lookups = none /\ d.told = {} /\ d.cached = b.cached /\ d.defer
      /\ d.dead = b.dead /\ d.aborted = b.aborted
  BY <1>3, <1>4 DEF BrowserType
<1>6. Lookups(c) = {} /\ Lookups(d) = {} /\ Ended(c) /\ (Ended(d) <=> Ended(b))
  BY <1>2, <1>5 DEF Lookups, Ended
<1> QED
  BY <1>1, <1>5, <1>6 DEF BrowserOK, Rooted, StartedOver

LEMMA RestartStartsOver ==
  ASSUME BrowserIInv, avahi_s_record_browser_restart
  PROVE  StartedOver(browser, browser') /\ ~Ended(browser)
<1>1. BrowserOK(browser) /\ ~Ended(browser)
  BY DEF BrowserIInv, avahi_s_record_browser_restart
<1>2. PICK b, c, d : b = browser /\ c = Freed(b) /\ d = browser'
  OBVIOUS
<1>3. d = [browser_cancel(b) EXCEPT !.defer = TRUE, !.told = {}]
  BY <1>2 DEF avahi_s_record_browser_restart
<1>4. StartedOver(b, d)
  BY <1>1, <1>2, <1>3, Cancels
<1> QED
  BY <1>1, <1>2, <1>4

LEMMA BrowserStarts == BrowserInit => BrowserIInv
<1> SUFFICES ASSUME BrowserInit PROVE BrowserOK(browser)
  BY DEF BrowserIInv
<1>1. [n \in LookupId |-> NoLookup] \in [LookupId -> LookupType]
  BY DEF LookupType
<1>2. /\ browser \in BrowserType /\ browser.cached = {} /\ browser.defer /\ browser.told = {}
      /\ browser.lookups = [n \in LookupId |-> NoLookup]
  BY <1>1 DEF BrowserInit, BrowserType
<1>3. Lookups(browser) = {} /\ IsFiniteSet(browser.cached)
  BY <1>2, FS_EmptySet DEF Lookups
<1> QED
  BY <1>2, <1>3 DEF BrowserOK, Rooted

LEMMA BrowserStep == BrowserIInv /\ [BrowserNext]_browserVars => BrowserIInv'
<1> SUFFICES ASSUME BrowserIInv, [BrowserNext]_browserVars PROVE BrowserOK(browser')
  BY DEF BrowserIInv
<1>0. BrowserOK(browser)
  BY DEF BrowserIInv
<1>1. CASE defer_callback
  BY <1>0, <1>1, FirstScan DEF Becomes
<1>2. CASE avahi_s_record_browser_restart
  BY <1>2, RestartStartsOver DEF StartedOver
<1>3. CASE avahi_s_record_browser_free
  BY <1>0, <1>3, Cancels DEF avahi_s_record_browser_free
<1>4. ASSUME NEW rec \in CacheRecord, CacheNew(rec) \/ CacheRemove(rec) PROVE BrowserOK(browser')
  BY <1>4, CachesChange DEF Changed
<1>5. CASE UNCHANGED browserVars
  BY <1>0, <1>5 DEF browserVars
<1> QED
  BY <1>1, <1>2, <1>3, <1>4, <1>5 DEF BrowserNext

LEMMA BrowserIsSound == BrowserSpec => []BrowserIInv
<1> QED
  BY BrowserStarts, BrowserStep, PTL DEF BrowserSpec

\* The lookups of a browser are those its CNAME records call for, in whatever callback the
\* client frees it and between whatever events it restarts it (browser_cancel,
\* lookup_handle_cname).
THEOREM LookupsAreCalledFor == BrowserSpec => []BrowserInv
<1>1. BrowserIInv => BrowserInv
  <2> SUFFICES ASSUME BrowserIInv PROVE BrowserInv
    OBVIOUS
  <2>1. BrowserOK(browser) /\ browser \in BrowserType
    BY DEF BrowserIInv, BrowserOK
  <2>2. NoStrayLookups
    BY <2>1 DEF BrowserOK, Rooted, NoStrayLookups
  <2>3. CnamesAreFollowed
    <3> SUFFICES ASSUME Running, NEW rec \in browser.cached, NEW n \in LookupId,
                        rec.to # "rr", browser.lookups[n].key = rec.name,
                        rec.link \in browser.lookups[n].links, Lookups(browser) # LookupId
                 PROVE  \E m \in Lookups(browser) : /\ browser.lookups[m].key = rec.to
                                                   /\ browser.lookups[m].links = {rec.link}
                                                   /\ browser.lookups[m].parent = n
      BY DEF CnamesAreFollowed
    <3>1. n \in Lookups(browser)
      BY <2>1, NoLookupIsNone
    <3>2. Known(browser, n, rec)
      BY <2>1, <3>1 DEF Running, BrowserOK, InView, Scanned
    <3> QED
      BY <3>2 DEF Known
  <2> QED
    BY <2>1, <2>2, <2>3 DEF BrowserInv, BrowserTypeOK
<1> QED
  BY <1>1, BrowserIsSound, PTL

\* A lookup that a CNAME record led to stays while the browser runs, although browse.c
\* drops it when the record is gone: it is searched for with the flags of the browser,
\* and lookups have others (lookup_drop_cname).
THEOREM CnameLookupsStay ==
  BrowserSpec => [][Running /\ Running' => \A n \in Lookups(browser) :
                      browser'.lookups[n] = browser.lookups[n]]_browserVars
<1>1. BrowserIInv /\ [BrowserNext]_browserVars
        => [Running /\ Running' => \A n \in Lookups(browser) :
              browser'.lookups[n] = browser.lookups[n]]_browserVars
  <2> SUFFICES ASSUME BrowserIInv, BrowserNext, Running, ~Ended(browser'), ~browser'.defer, NEW n \in Lookups(browser)
               PROVE  browser'.lookups[n] = browser.lookups[n]
    BY DEF Running, Ended
  <2>0. BrowserOK(browser) /\ ~Ended(browser) /\ ~browser.defer
    BY DEF BrowserIInv, Running
  <2>1. ~defer_callback
    BY <2>0 DEF defer_callback
  <2>2. ~avahi_s_record_browser_restart
    BY RestartStartsOver DEF StartedOver
  <2>3. ~avahi_s_record_browser_free
    BY <2>0, Cancels DEF avahi_s_record_browser_free
  <2>4. PICK rec \in CacheRecord : CacheNew(rec) \/ CacheRemove(rec)
    BY <2>1, <2>2, <2>3 DEF BrowserNext
  <2> QED
    BY <2>0, <2>4, CachesChange DEF Changed
<1> QED
  BY <1>1, BrowserIsSound, PTL DEF BrowserSpec

-----------------------------------------------------------------------------
(* What the client sees.                                                   *)

PhaseOf(b) == IF Ended(b) THEN "gone" ELSE IF b.defer THEN "idle" ELSE "running"

\* One event of the browser is one step of what BrowserView promises.
LEMMA StepIsPromised ==
  ASSUME NEW b, BrowserOK(b), NEW c, BrowserOK(c),
         \/ Becomes(b, c) /\ ~Ended(b) /\ (b.defer => c.cached = b.cached)
         \/ c = [b EXCEPT !.cached = c.cached] /\ (Ended(b) \/ b.defer)
         \/ ~Ended(b) /\ Ended(c) /\ c.told = b.told
         \/ ~Ended(b) /\ ~Ended(c) /\ c.defer /\ c.told = {} /\ c.cached = b.cached
  PROVE  LET r == OwnRecords(b.cached)
             s == OwnRecords(c.cached)
             v == OwnRecords(b.told)
             w == OwnRecords(c.told)
             p == PhaseOf(b)
             q == PhaseOf(c)
         IN \/ /\ s \in SUBSET OwnRecords(CacheRecord) /\ w = (IF p = "running" THEN s ELSE v) /\ q = p
            \/ p = "idle" /\ q = "running" /\ w = r /\ s = r
            \/ p # "gone" /\ q = "idle" /\ w = {} /\ s = r
            \/ /\ p # "gone" /\ q = "gone" /\ s \in SUBSET OwnRecords(CacheRecord)
               /\ w \subseteq v \cup s
<1>1. b \in BrowserType /\ c \in BrowserType
  BY DEF BrowserOK
<1>2. OwnRecords(c.cached) \in SUBSET OwnRecords(CacheRecord)
  BY <1>1 DEF BrowserType, OwnRecords
<1>3. CASE Becomes(b, c) /\ ~Ended(b) /\ (b.defer => c.cached = b.cached)
  <2>1. ~c.defer /\ OwnRecords(c.told) \subseteq OwnRecords(b.told) \cup OwnRecords(c.cached)
    BY <1>3 DEF Becomes, OwnRecords
  <2>2. ~Ended(c) => OwnRecords(c.told) = OwnRecords(c.cached)
    BY <2>1, ViewIsExact
  <2>3. PhaseOf(b) # "gone" /\ (Ended(c) => PhaseOf(c) = "gone") /\ (~Ended(c) => PhaseOf(c) = "running")
        /\ PhaseOf(b) = IF b.defer THEN "idle" ELSE "running"
    BY <1>3, <2>1 DEF PhaseOf
  <2> QED
    BY <1>2, <1>3, <2>1, <2>2, <2>3
<1>4. CASE c = [b EXCEPT !.cached = c.cached] /\ (Ended(b) \/ b.defer)
  <2>1. c.told = b.told /\ c.defer = b.defer /\ c.dead = b.dead /\ c.aborted = b.aborted
    BY <1>1, <1>4 DEF BrowserType
  <2>2. PhaseOf(c) = PhaseOf(b) /\ PhaseOf(b) # "running"
    BY <1>4, <2>1 DEF PhaseOf, Ended
  <2> QED
    BY <1>2, <2>1, <2>2
<1>5. CASE ~Ended(b) /\ Ended(c) /\ c.told = b.told
  BY <1>2, <1>5 DEF PhaseOf
<1>6. CASE ~Ended(b) /\ ~Ended(c) /\ c.defer /\ c.told = {} /\ c.cached = b.cached
  BY <1>6 DEF PhaseOf, OwnRecords
<1> QED
  BY <1>3, <1>4, <1>5, <1>6

LEMMA EventIsPromised ==
  BrowserIInv /\ [BrowserNext]_browserVars => [View!ViewNext]_(View!viewVars)
<1> SUFFICES ASSUME BrowserIInv, BrowserNext PROVE View!ViewNext
  BY DEF browserVars, View!viewVars
<1>1. BrowserOK(browser) /\ BrowserOK(browser')
  BY BrowserStep DEF BrowserIInv
<1>2. \/ Becomes(browser, browser') /\ ~Ended(browser) /\ (browser.defer => browser'.cached = browser.cached)
      \/ browser' = [browser EXCEPT !.cached = browser'.cached] /\ (Ended(browser) \/ browser.defer)
      \/ ~Ended(browser) /\ Ended(browser') /\ browser'.told = browser.told
      \/ /\ ~Ended(browser) /\ ~Ended(browser') /\ browser'.defer /\ browser'.told = {}
         /\ browser'.cached = browser.cached
  <2>1. CASE defer_callback
    BY <1>1, <2>1, FirstScan DEF defer_callback
  <2>2. CASE avahi_s_record_browser_restart
    BY <2>2, RestartStartsOver DEF StartedOver
  <2>3. CASE avahi_s_record_browser_free
    BY <1>1, <2>3, Cancels DEF avahi_s_record_browser_free
  <2>4. ASSUME NEW rec \in CacheRecord, CacheNew(rec) \/ CacheRemove(rec)
        PROVE  \/ Becomes(browser, browser') /\ ~Ended(browser) /\ ~browser.defer
               \/ browser' = [browser EXCEPT !.cached = browser'.cached] /\ (Ended(browser) \/ browser.defer)
    BY <2>4, CachesChange DEF Changed
  <2> QED
    BY <2>1, <2>2, <2>3, <2>4 DEF BrowserNext
<1>3. PICK b, c : b = browser /\ c = browser'
  OBVIOUS
<1>4. LET r == OwnRecords(b.cached)
          s == OwnRecords(c.cached)
          v == OwnRecords(b.told)
          w == OwnRecords(c.told)
          p == PhaseOf(b)
          q == PhaseOf(c)
      IN \/ /\ s \in SUBSET OwnRecords(CacheRecord) /\ w = (IF p = "running" THEN s ELSE v) /\ q = p
         \/ p = "idle" /\ q = "running" /\ w = r /\ s = r
         \/ p # "gone" /\ q = "idle" /\ w = {} /\ s = r
         \/ /\ p # "gone" /\ q = "gone" /\ s \in SUBSET OwnRecords(CacheRecord)
            /\ w \subseteq v \cup s
  BY <1>1, <1>2, <1>3, StepIsPromised
<1> QED
  BY <1>3, <1>4
     DEF PhaseOf, View!ViewNext, View!Change, View!Scan, View!StartOver, View!Leave

\* A record browser implements what BrowserView promises: its client is told of exactly the
\* cached records of its name while it runs, and of nothing after it was freed, whatever
\* lookups for other names browse.c adds meanwhile, and in whatever order the caches lie.
THEOREM BrowserImplementsView == BrowserSpec => ImplementsView
<1>1. BrowserInit => View!ViewInit
  <2> SUFFICES ASSUME BrowserInit PROVE View!ViewInit
    OBVIOUS
  <2>1. browser.cached = {} /\ browser.told = {} /\ browser.defer /\ ~browser.dead /\ ~browser.aborted
    BY DEF BrowserInit
  <2> QED
    BY <2>1 DEF View!ViewInit, OwnRecords, Ended
<1> QED
  BY <1>1, EventIsPromised, BrowserIsSound, PTL DEF BrowserSpec, ImplementsView, View!ViewSpec

=============================================================================
