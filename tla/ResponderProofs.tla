--------------------------- MODULE ResponderProofs ---------------------------
(***************************************************************************)
(* Proofs about the response scheduler and what the server posts to it,    *)
(* for any records with any references, any hosts and any registrations,   *)
(* and about the probe scheduler, for any records, names and packet sizes. *)
(*                                                                         *)
(* Every operation of the scheduler changes what it holds for a record     *)
(* (s) together with what the hosts wait for (o); the lemmas say for each  *)
(* that the pair stays consistent.  That withdrawn records stay withdrawn  *)
(* needs that a scheduled record is never in the history: only then is a   *)
(* goodbye not taken for one that was sent already.                        *)
(*                                                                         *)
(* The probe scheduler fills a packet in a loop over its jobs: while it    *)
(* does, every chosen job has its question in the packet (Packing), and    *)
(* what is left of the jobs afterwards is a list without chosen ones.      *)
(***************************************************************************)
EXTENDS Responder, ProbeScheduler, FiniteSetTheorems, TLAPS

OwedType == [ttl : {GOODBYE, FULL}, who : SUBSET Asker]

\* What the scheduler holds for a record serves those who wait for it.
Serves(s, o) ==
  /\ s \in SchedType /\ o \in OwedType
  /\ o.who # {} => /\ Scheduled(s)
                   /\ s.job.ttl = o.ttl
                   /\ s.job.querier # "all" => o.who = {s.job.querier}
  /\ ~(Scheduled(s) /\ s.done # NoJob)

\* A record that is not registered is only scheduled to be withdrawn.
Leaving(s) == Scheduled(s) => s.job.ttl = GOODBYE

IInv ==
  /\ registered \subseteq Record
  /\ sched \in [Record -> SchedType]
  /\ owed \in [Record -> OwedType]
  /\ \A r \in Record : /\ Serves(sched[r], owed[r])
                       /\ r \in registered \/ Leaving(sched[r])

\* What a host waits for, after what it waited for before
OwingOf(o, ttl, who) ==
  [ttl |-> ttl, who |-> IF o.ttl = ttl THEN o.who \cup {who} ELSE {who}]

-----------------------------------------------------------------------------
(* The operations on one record.                                           *)

\* A job is scheduled or it is none; one that is scheduled is not the record NoJob.
LEMMA JobTypes ==
  ASSUME NEW s \in SchedType
  PROVE  /\ s.job \in ResponseJob \/ s.job = NoJob
         /\ s.done \in HistoryJob \/ s.done = NoJob
         /\ Scheduled(s) <=> s.job \in ResponseJob
         /\ s.suppressed \in [Host -> {0, LOW, FULL}]
<1>1. \A j \in ResponseJob : j.state = "scheduled"
  BY DEF ResponseJob
<1>2. NoJob.state = "none"
  BY DEF NoJob
<1>3. NoJob \notin ResponseJob
  BY <1>1, <1>2
<1>4. /\ s.job \in ResponseJob \cup {NoJob} /\ s.done \in HistoryJob \cup {NoJob}
      /\ s.suppressed \in [Host -> {0, LOW, FULL}]
  BY DEF SchedType
<1> QED
  BY <1>3, <1>4 DEF Scheduled

\* A job made of well-typed parts is well typed and counts as scheduled.
LEMMA MadeJob ==
  ASSUME NEW j, NEW ttl \in {GOODBYE, FULL}, NEW who \in Asker, NEW wait \in 0..1,
         j = [state |-> "scheduled", ttl |-> ttl, querier |-> who, wait |-> wait]
  PROVE  /\ j \in ResponseJob /\ j # NoJob
         /\ j.ttl = ttl /\ j.querier = who
<1>1. j.state = "scheduled" /\ NoJob.state = "none"
  BY DEF NoJob
<1>2. j \in ResponseJob
  BY DEF ResponseJob
<1> QED
  BY <1>1, <1>2

\* A post that joins a job makes one for everybody, unless the same host asks again.
LEMMA MergedOK ==
  ASSUME NEW j \in ResponseJob, NEW ttl \in {GOODBYE, FULL}, NEW who \in Asker, NEW wait \in 0..1
  PROVE  /\ Merged(j, ttl, who, wait) \in ResponseJob
         /\ Merged(j, ttl, who, wait).ttl = ttl
         /\ \/ Merged(j, ttl, who, wait).querier = "all"
            \/ j.querier = who /\ Merged(j, ttl, who, wait).querier = who
<1> DEFINE w == IF wait < j.wait THEN wait ELSE j.wait
           q == IF who = j.querier THEN j.querier ELSE "all"
<1>1. Merged(j, ttl, who, wait) = [j EXCEPT !.ttl = ttl, !.wait = w, !.querier = q]
  BY DEF Merged
<1>2. /\ w \in 0..1
      /\ q \in Asker
      /\ q = "all" \/ (j.querier = who /\ q = who)
  BY DEF ResponseJob, Asker
<1> HIDE DEF w, q
<1> QED
  BY <1>1, <1>2 DEF ResponseJob

\* A post is dropped, or it is scheduled in its form and serves the one it is for; nobody
\* who waited before is forgotten.
LEMMA PostOK ==
  ASSUME NEW s, NEW o, Serves(s, o), NEW r \in Record,
         NEW ttl \in {GOODBYE, FULL}, NEW who \in Asker, NEW wait \in 0..1
  PROVE  /\ Serves(Post(s, r, ttl, who, wait),
                   IF Dropped(s, r, ttl, who) THEN o ELSE OwingOf(o, ttl, who))
         /\ Dropped(s, r, ttl, who) => Post(s, r, ttl, who, wait) = s
         /\ ~Dropped(s, r, ttl, who) => Post(s, r, ttl, who, wait).job.ttl = ttl
<1> DEFINE t == Post(s, r, ttl, who, wait)
           o2 == OwingOf(o, ttl, who)
           fresh == [state |-> "scheduled", ttl |-> ttl, querier |-> who, wait |-> wait]
           j == IF Scheduled(s) THEN Merged(s.job, ttl, who, wait) ELSE fresh
<1>1. s \in SchedType /\ o \in OwedType
  BY DEF Serves
<1>2. CASE Dropped(s, r, ttl, who)
  BY <1>2 DEF Post
<1>3. CASE ~Dropped(s, r, ttl, who)
  <2>1. t = [s EXCEPT !.job = j, !.done = NoJob]
    <3>1. t = [s EXCEPT !.done = NoJob, !.job = j]
      BY <1>3 DEF Post
    <3> HIDE DEF j
    <3> QED
      BY <1>1, <3>1 DEF SchedType
  <2>2. /\ j \in ResponseJob /\ j.ttl = ttl
        /\ Scheduled(s) => j.querier = "all" \/ (s.job.querier = who /\ j.querier = who)
        /\ ~Scheduled(s) => j.querier = who
    <3>1. CASE Scheduled(s)
      <4>1. j = Merged(s.job, ttl, who, wait) /\ s.job \in ResponseJob
        BY <1>1, <3>1, JobTypes
      <4> QED
        BY <3>1, <4>1, MergedOK
    <3>2. CASE ~Scheduled(s)
      <4>1. j = fresh
        BY <3>2
      <4> QED
        BY <3>2, <4>1, MadeJob
    <3> QED
      BY <3>1, <3>2
  <2> HIDE DEF j, t
  <2>3. t \in SchedType /\ t.job = j /\ t.done = NoJob
    <3>1. j \in ResponseJob \cup {NoJob} /\ NoJob \in HistoryJob \cup {NoJob}
      BY <2>2
    <3> QED
      BY <1>1, <2>1, <3>1 DEF SchedType
  <2>4. Scheduled(t)
    BY <2>2, <2>3, JobTypes
  <2>5. /\ o2 \in OwedType /\ o2.ttl = ttl
        /\ o2.who = IF o.ttl = ttl THEN o.who \cup {who} ELSE {who}
    BY <1>1 DEF OwingOf, OwedType
  <2>6. j.querier # "all" => o2.who = {j.querier}
    <3> SUFFICES ASSUME j.querier # "all" PROVE o2.who = {who} /\ j.querier = who
      BY Zenon
    <3>1. j.querier = who
      BY <2>2
    <3>2. CASE o.who = {}
      BY <2>5, <3>1, <3>2
    <3>3. CASE o.who # {}
      <4>1. Scheduled(s) /\ s.job.querier = who
        BY <2>2, <3>3 DEF Serves
      <4>2. o.who = {who}
        BY <3>1, <3>3, <4>1 DEF Serves
      <4> QED
        BY <2>5, <3>1, <4>2
    <3> QED
      BY <3>2, <3>3
  <2> HIDE DEF o2
  <2>7. Serves(t, o2)
    BY <2>2, <2>3, <2>4, <2>5, <2>6 DEF Serves
  <2> QED
    BY <1>3, <2>2, <2>3, <2>7 DEF t, o2
<1> QED
  BY <1>2, <1>3

\* A post for everybody is dropped only if nothing is scheduled: what was on the network a
\* moment ago is in the history.
LEMMA DroppedForAll ==
  ASSUME NEW s, NEW o, Serves(s, o), NEW r, NEW ttl, Dropped(s, r, ttl, "all")
  PROVE  ~Scheduled(s)
BY DEF Serves, Dropped

\* A job that was sent is done, and nobody waits for it.
LEMMA MarkDoneOK ==
  ASSUME NEW s \in SchedType, Scheduled(s), NEW o \in OwedType, NEW r \in Record
  PROVE  /\ Serves(MarkDone(s, r), [o EXCEPT !.who = {}])
         /\ ~Scheduled(MarkDone(s, r))
<1> DEFINE d == [state |-> "done", ttl |-> s.job.ttl, flush_cache |-> r \in Unique]
<1>1. s.job \in ResponseJob
  BY JobTypes
<1>2. d \in HistoryJob
  <2>1. s.job.ttl \in {GOODBYE, LOW, FULL}
    BY <1>1 DEF ResponseJob
  <2>2. (r \in Unique) \in BOOLEAN
    OBVIOUS
  <2> QED
    BY <2>1, <2>2 DEF HistoryJob
<1>3. MarkDone(s, r) = [s EXCEPT !.job = NoJob, !.done = d]
  BY DEF MarkDone
<1> HIDE DEF d
<1>4. MarkDone(s, r) \in SchedType /\ MarkDone(s, r).job = NoJob
  <2>1. NoJob \in ResponseJob \cup {NoJob} /\ d \in HistoryJob \cup {NoJob}
    BY <1>2
  <2> QED
    BY <1>3, <2>1 DEF SchedType
<1>5. [o EXCEPT !.who = {}] \in OwedType /\ [o EXCEPT !.who = {}].who = {}
  BY DEF OwedType
<1> QED
  BY <1>4, <1>5 DEF Serves, Scheduled

\* What another host says settles what is scheduled, or is remembered.
LEMMA IncomingOK ==
  ASSUME NEW s, NEW o, Serves(s, o), NEW r \in Record,
         NEW ttl \in {GOODBYE, LOW, FULL}, NEW flush \in BOOLEAN
  PROVE  /\ Serves(Incoming(s, r, ttl, flush),
                   IF Scheduled(s) /\ (r \notin Unique \/ flush) /\ Covers(ttl, s.job.ttl)
                   THEN [o EXCEPT !.who = {}] ELSE o)
         /\ Scheduled(Incoming(s, r, ttl, flush)) => Incoming(s, r, ttl, flush) = s
<1>1. s \in SchedType /\ o \in OwedType
  BY DEF Serves
<1>2. CASE Scheduled(s) /\ (r \notin Unique \/ flush) /\ Covers(ttl, s.job.ttl)
  <2>1. Incoming(s, r, ttl, flush) = MarkDone(s, r)
    BY <1>2 DEF Incoming
  <2> QED
    BY <1>1, <1>2, <2>1, MarkDoneOK
<1>3. CASE Scheduled(s) /\ ~((r \notin Unique \/ flush) /\ Covers(ttl, s.job.ttl))
  BY <1>3 DEF Incoming
<1>4. CASE ~Scheduled(s)
  <2> DEFINE d == [state |-> "done", ttl |-> ttl, flush_cache |-> flush]
             t == Incoming(s, r, ttl, flush)
  <2>1. d \in HistoryJob
    BY DEF HistoryJob
  <2>2. t = [s EXCEPT !.done = d]
    BY <1>4 DEF Incoming
  <2> HIDE DEF d, t
  <2>3. t \in SchedType /\ t.job = s.job
    BY <1>1, <2>1, <2>2 DEF SchedType
  <2>4. o.who = {}
    BY <1>4 DEF Serves
  <2>5. ~Scheduled(t)
    BY <1>4, <2>3 DEF Scheduled
  <2>6. Serves(t, o)
    BY <1>1, <2>3, <2>4, <2>5 DEF Serves
  <2> QED
    BY <1>4, <2>5, <2>6 DEF t
<1> QED
  BY <1>2, <1>3, <1>4

\* What a host says it knows is dropped, if it is the only one that waits for it.
LEMMA SuppressOK ==
  ASSUME NEW s, NEW o, Serves(s, o), NEW h \in Host, NEW ttl \in {LOW, FULL}
  PROVE  /\ Serves(Suppress(s, h, ttl),
                   IF Covers(ttl, o.ttl) THEN [o EXCEPT !.who = @ \ {h}] ELSE o)
         /\ Scheduled(Suppress(s, h, ttl)) => Suppress(s, h, ttl).job = s.job
         /\ Suppress(s, h, ttl).done = s.done
         /\ Serves(Suppress(s, h, ttl), IF Scheduled(Suppress(s, h, ttl)) THEN o
                                        ELSE [o EXCEPT !.who = {}])
         /\ ~Scheduled(Suppress(s, h, ttl)) => o.who \subseteq {h}
<1> DEFINE t == Suppress(s, h, ttl)
           drop == Scheduled(s) /\ s.job.querier = h /\ Covers(ttl, s.job.ttl)
<1>1. s \in SchedType /\ o \in OwedType /\ h \in Asker /\ h # "all"
  BY ResponderAssumption DEF Serves, Asker
<1>2. t \in SchedType /\ t.job = (IF drop THEN NoJob ELSE s.job) /\ t.done = s.done
  BY <1>1 DEF Suppress, SchedType
<1>3. /\ [o EXCEPT !.who = @ \ {h}] \in OwedType /\ [o EXCEPT !.who = @ \ {h}].ttl = o.ttl
      /\ [o EXCEPT !.who = @ \ {h}].who = o.who \ {h}
      /\ [o EXCEPT !.who = {}] \in OwedType /\ [o EXCEPT !.who = {}].who = {}
  BY <1>1 DEF OwedType
<1> DEFINE o2 == IF Covers(ttl, o.ttl) THEN [o EXCEPT !.who = @ \ {h}] ELSE o
<1>4. /\ o2 \in OwedType /\ o2.ttl = o.ttl
      /\ o2.who = IF Covers(ttl, o.ttl) THEN o.who \ {h} ELSE o.who
  BY <1>1, <1>3
<1> HIDE DEF t, o2
<1>5. CASE drop
  <2>1. ~Scheduled(t)
    BY <1>2, <1>5 DEF Scheduled
  <2>2. o.who \subseteq {h} /\ o2.who = {}
    BY <1>1, <1>4, <1>5 DEF Serves
  <2>3. Serves(t, o2) /\ Serves(t, [o EXCEPT !.who = {}])
    BY <1>2, <1>3, <1>4, <2>1, <2>2 DEF Serves
  <2> QED
    BY <1>2, <2>1, <2>2, <2>3 DEF t, o2
<1>6. CASE ~drop
  <2>1. t.job = s.job /\ (Scheduled(t) <=> Scheduled(s))
    BY <1>2, <1>6 DEF Scheduled
  <2>2. ~Scheduled(t) => o.who = {} /\ [o EXCEPT !.who = {}].who = {}
    BY <1>3, <2>1 DEF Serves
  <2>3. Serves(t, o)
    BY <1>1, <1>2, <2>1 DEF Serves
  <2>4. Serves(t, o2)
    <3> SUFFICES ASSUME o2.who # {}
                 PROVE  /\ Scheduled(t) /\ t.job.ttl = o2.ttl
                        /\ t.job.querier # "all" => o2.who = {t.job.querier}
      BY <1>2, <1>4, <2>3 DEF Serves
    <3>1. o.who # {}
      BY <1>4
    <3>2. Scheduled(t) /\ t.job.ttl = o.ttl /\ (t.job.querier # "all" => o.who = {t.job.querier})
      BY <2>3, <3>1 DEF Serves
    <3>3. t.job.querier # "all" => o2.who = {t.job.querier}
      BY <1>4, <3>2
    <3> QED
      BY <1>4, <3>2, <3>3
  <2>5. Serves(t, IF Scheduled(t) THEN o ELSE [o EXCEPT !.who = {}])
    BY <1>2, <1>3, <2>2, <2>3 DEF Serves
  <2> QED
    BY <1>2, <2>1, <2>2, <2>4, <2>5 DEF t, o2
<1> QED
  BY <1>5, <1>6

-----------------------------------------------------------------------------
(* The operations on all records.                                          *)

\* It is enough to look at one record at a time.
LEMMA OneByOne ==
  ASSUME registered' \subseteq Record,
         NEW s, sched' = [r \in Record |-> s[r]],
         NEW o, owed' = [r \in Record |-> o[r]],
         \A r \in Record : Serves(s[r], o[r]) /\ (r \in registered' \/ Leaving(s[r]))
  PROVE  IInv'
<1>1. \A r \in Record : sched'[r] = s[r] /\ owed'[r] = o[r]
  OBVIOUS
<1>2. \A r \in Record : sched'[r] \in SchedType /\ owed'[r] \in OwedType
  BY <1>1 DEF Serves
<1>3. sched' \in [Record -> SchedType] /\ owed' \in [Record -> OwedType]
  BY <1>1, <1>2
<1> QED
  BY <1>1, <1>3 DEF IInv

\* What a record is owed after a post.
LEMMA PostOwedIs ==
  ASSUME NEW s, NEW r, NEW ttl, NEW who
  PROVE  /\ PostOwed(s, r, ttl, who) = IF Dropped(s, r, ttl, who) THEN owed[r]
                                       ELSE OwingOf(owed[r], ttl, who)
         /\ Owing(r, ttl, who) = OwingOf(owed[r], ttl, who)
         /\ NobodyWaits(r) = [owed[r] EXCEPT !.who = {}]
BY DEF PostOwed, Owing, OwingOf, NobodyWaits

\* A record of the host is posted in a form: alive only if it is registered.
LEMMA PostStep ==
  ASSUME IInv, NEW r \in Record, NEW ttl \in {GOODBYE, FULL}, NEW who \in Asker, NEW wait \in 0..1,
         NEW reg, r \in reg \/ (ttl = GOODBYE /\ who = "all"),
         r \notin reg => ttl = GOODBYE
  PROVE  LET s == Post(sched[r], r, ttl, who, wait)
         IN /\ Serves(s, PostOwed(sched[r], r, ttl, who))
            /\ r \in reg \/ Leaving(s)
<1>1. Serves(sched[r], owed[r])
  BY DEF IInv
<1>2. Serves(Post(sched[r], r, ttl, who, wait), PostOwed(sched[r], r, ttl, who))
  BY <1>1, PostOK, PostOwedIs
<1>3. ASSUME r \notin reg
      PROVE  Leaving(Post(sched[r], r, ttl, who, wait))
  BY <1>1, <1>3, PostOK, DroppedForAll DEF Leaving
<1> QED
  BY <1>2, <1>3

\* An announcer announces a record.
LEMMA AnnounceRecordStep ==
  ASSUME IInv, NEW r \in Record, AnnounceRecord(r)
  PROVE  IInv'
<1> DEFINE s == [x \in Record |-> IF x = r THEN Post(sched[r], r, FULL, "all", 1) ELSE sched[x]]
           o == [x \in Record |-> IF x = r THEN PostOwed(sched[r], r, FULL, "all") ELSE owed[x]]
<1>1. registered' = registered \cup {r} /\ registered' \subseteq Record
  BY DEF AnnounceRecord, IInv
<1>2. sched' = s /\ owed' = o
  BY DEF AnnounceRecord, IInv
<1>3. "all" \in Asker /\ FULL \in {GOODBYE, FULL} /\ 1 \in 0..1
  BY DEF Asker
<1>4. \A x \in Record : Serves(s[x], o[x]) /\ (x \in registered' \/ Leaving(s[x]))
  <2> TAKE x \in Record
  <2>1. CASE x = r
    BY <1>1, <1>3, <2>1, PostStep
  <2>2. CASE x # r
    BY <1>1, <2>2 DEF IInv
  <2> QED
    BY <2>1, <2>2
<1>5. s = [x \in Record |-> s[x]] /\ o = [x \in Record |-> o[x]]
  OBVIOUS
<1> HIDE DEF s, o
<1> QED
  BY <1>1, <1>2, <1>4, <1>5, OneByOne

\* A record is withdrawn with a goodbye.
LEMMA GoodbyeStep ==
  ASSUME IInv, NEW r \in Record, send_goodbye_callback(r)
  PROVE  IInv'
<1> DEFINE s == [x \in Record |-> IF x = r THEN Post(sched[r], r, GOODBYE, "all", 0) ELSE sched[x]]
           o == [x \in Record |-> IF x = r THEN PostOwed(sched[r], r, GOODBYE, "all") ELSE owed[x]]
<1>1. registered' = registered \ {r} /\ registered' \subseteq Record
  BY DEF send_goodbye_callback, IInv
<1>2. sched' = s /\ owed' = o
  BY DEF send_goodbye_callback, IInv
<1>3. "all" \in Asker /\ GOODBYE \in {GOODBYE, FULL} /\ 0 \in 0..1
  BY DEF Asker
<1>4. \A x \in Record : Serves(s[x], o[x]) /\ (x \in registered' \/ Leaving(s[x]))
  <2> TAKE x \in Record
  <2>1. CASE x = r
    BY <1>1, <1>3, <2>1, PostStep
  <2>2. CASE x # r
    BY <1>1, <2>2 DEF IInv
  <2> QED
    BY <2>1, <2>2
<1>5. s = [x \in Record |-> s[x]] /\ o = [x \in Record |-> o[x]]
  OBVIOUS
<1> HIDE DEF s, o
<1> QED
  BY <1>1, <1>2, <1>4, <1>5, OneByOne

\* A host says what it knows of a record: nobody else loses it.
LEMMA ToldOK ==
  ASSUME IInv, NEW h \in Host, NEW r \in Record, NEW known, NEW told,
         r \in DOMAIN known => known[r] \in {LOW, FULL},
         told = IF r \in DOMAIN known THEN Suppress(sched[r], h, known[r]) ELSE sched[r]
  PROVE  /\ Serves(told, IF r \in DOMAIN known /\ Covers(known[r], owed[r].ttl)
                         THEN [owed[r] EXCEPT !.who = @ \ {h}] ELSE owed[r])
         /\ Leaving(sched[r]) => Leaving(told)
         /\ \A wait \in 0..1 : ~Dropped(told, r, FULL, h) =>
              Serves(Post(told, r, FULL, h, wait), Owing(r, FULL, h))
<1>1. Serves(sched[r], owed[r])
  BY DEF IInv
<1>2. h \in Asker /\ FULL \in {GOODBYE, FULL}
  BY DEF Asker
<1>3. CASE r \notin DOMAIN known
  <2>1. told = sched[r]
    BY <1>3
  <2>2. \A wait \in 0..1 : ~Dropped(told, r, FULL, h) =>
          Serves(Post(told, r, FULL, h, wait), Owing(r, FULL, h))
    BY <1>1, <1>2, <2>1, PostOK, PostOwedIs
  <2> QED
    BY <1>1, <1>3, <2>1, <2>2
<1>4. CASE r \in DOMAIN known
  <2>1. told = Suppress(sched[r], h, known[r]) /\ known[r] \in {LOW, FULL}
    BY <1>4
  <2>2. /\ Serves(told, IF Covers(known[r], owed[r].ttl) THEN [owed[r] EXCEPT !.who = @ \ {h}]
                                                         ELSE owed[r])
        /\ Scheduled(told) => told.job = sched[r].job
        /\ Serves(told, IF Scheduled(told) THEN owed[r] ELSE [owed[r] EXCEPT !.who = {}])
        /\ ~Scheduled(told) => owed[r].who \subseteq {h}
    BY <1>1, <2>1, SuppressOK
  <2>3. Leaving(sched[r]) => Leaving(told)
    <3>1. Scheduled(told) => Scheduled(sched[r])
      BY <2>2 DEF Scheduled
    <3> QED
      BY <2>2, <3>1 DEF Leaving
  <2>4. ASSUME NEW wait \in 0..1, ~Dropped(told, r, FULL, h)
        PROVE  Serves(Post(told, r, FULL, h, wait), Owing(r, FULL, h))
    <3>1. CASE Scheduled(told)
      BY <1>2, <2>2, <2>4, <3>1, PostOK, PostOwedIs
    <3>2. CASE ~Scheduled(told)
      <4> DEFINE o == [owed[r] EXCEPT !.who = {}]
      <4>1. Serves(told, o)
        BY <2>2, <3>2
      <4>2. Serves(Post(told, r, FULL, h, wait), OwingOf(o, FULL, h))
        <5> HIDE DEF o
        <5> QED
          BY <1>2, <2>4, <4>1, PostOK
      <4>3. owed[r] \in OwedType /\ o.who = {} /\ o.ttl = owed[r].ttl
        BY <1>1 DEF Serves, OwedType
      <4>4. OwingOf(o, FULL, h) = OwingOf(owed[r], FULL, h)
        <5> HIDE DEF o
        <5>1. /\ o.ttl = FULL => o.who \cup {h} = {h}
              /\ owed[r].who \cup {h} = {h}
          BY <2>2, <3>2, <4>3
        <5> QED
          BY <4>3, <5>1 DEF OwingOf
      <4> QED
        BY <4>2, <4>4, PostOwedIs
    <3> QED
      BY <3>1, <3>2
  <2> QED
    BY <1>4, <2>2, <2>3, <2>4
<1> QED
  BY <1>3, <1>4

\* The records of a response are registered.
LEMMA ResponsesRegistered ==
  ASSUME NEW post, NEW list \in SUBSET registered, NEW who, NEW unicast
  PROVE  Responses(post, list, who, unicast) \subseteq registered
<1>1. ASSUME NEW l \in SUBSET registered
      PROVE  avahi_record_list_push(l, UNION {Aux[r] \cap registered : r \in
                                                {x \in l : Dropped(post[x], x, FULL, who)}})
               \in SUBSET registered
  BY DEF avahi_record_list_push
<1>2. WithAux(post, who, list) \in SUBSET registered
  BY <1>1 DEF WithAux
<1> QED
  BY <1>2 DEF Responses

\* A query of a host, with what it knows.
LEMMA QueryStep ==
  ASSUME IInv, NEW h \in Host, NEW keys, NEW known \in KnownAnswers, NEW kind, NEW unicast,
         handle_query_packet(h, keys, known, kind, unicast)
  PROVE  IInv'
<1> DEFINE found == Matching(keys)
           told == [r \in Record |-> IF r \in DOMAIN known THEN Suppress(sched[r], h, known[r])
                                                           ELSE sched[r]]
           list == avahi_record_list_drop(found, DOMAIN known)
           rs == Responses(told, list, h, unicast)
           wait(r) == IF Immediately(r, found, kind) THEN 0 ELSE 1
           s == [r \in Record |-> IF r \in rs THEN Post(told[r], r, FULL, h, wait(r))
                                              ELSE told[r]]
           o == [r \in Record |->
                   IF r \in rs /\ ~Dropped(told[r], r, FULL, h) THEN Owing(r, FULL, h)
                   ELSE IF r \in DOMAIN known /\ Covers(known[r], owed[r].ttl)
                   THEN [owed[r] EXCEPT !.who = @ \ {h}]
                   ELSE owed[r]]
<1>1. sched' = s /\ owed' = o /\ registered' = registered
  BY DEF handle_query_packet, avahi_server_generate_response
<1>2. list \in SUBSET registered
  BY DEF Matching, avahi_record_list_drop
<1>3. rs \subseteq registered
  <2> HIDE DEF list, told
  <2> QED
    BY <1>2, ResponsesRegistered
<1>4. ASSUME NEW r \in DOMAIN known
      PROVE  known[r] \in {LOW, FULL}
  BY DEF KnownAnswers
<1>5. registered' \subseteq Record
  BY <1>1 DEF IInv
<1>6. s = [x \in Record |-> s[x]] /\ o = [x \in Record |-> o[x]]
  OBVIOUS
<1>7. \A r \in Record : Serves(s[r], o[r]) /\ (r \in registered' \/ Leaving(s[r]))
  <2> TAKE r \in Record
  <2> HIDE DEF rs, wait, found, list
  <2>1. told[r] = IF r \in DOMAIN known THEN Suppress(sched[r], h, known[r]) ELSE sched[r]
    OBVIOUS
  <2>2. s[r] = IF r \in rs THEN Post(told[r], r, FULL, h, wait(r)) ELSE told[r]
    OBVIOUS
  <2>3. o[r] = IF r \in rs /\ ~Dropped(told[r], r, FULL, h) THEN Owing(r, FULL, h)
               ELSE IF r \in DOMAIN known /\ Covers(known[r], owed[r].ttl)
               THEN [owed[r] EXCEPT !.who = @ \ {h}]
               ELSE owed[r]
    OBVIOUS
  <2> HIDE DEF told, s, o
  <2>4. /\ Serves(told[r], IF r \in DOMAIN known /\ Covers(known[r], owed[r].ttl)
                           THEN [owed[r] EXCEPT !.who = @ \ {h}] ELSE owed[r])
        /\ Leaving(sched[r]) => Leaving(told[r])
        /\ \A w \in 0..1 : ~Dropped(told[r], r, FULL, h) =>
             Serves(Post(told[r], r, FULL, h, w), Owing(r, FULL, h))
    BY <1>4, <2>1, ToldOK
  <2>5. CASE r \in rs /\ ~Dropped(told[r], r, FULL, h)
    <3>1. wait(r) \in 0..1
      BY DEF wait
    <3> QED
      BY <1>1, <1>3, <2>2, <2>3, <2>4, <2>5, <3>1
  <2>6. CASE ~(r \in rs /\ ~Dropped(told[r], r, FULL, h))
    <3>1. s[r] = told[r]
      BY <2>2, <2>6 DEF Post
    <3> QED
      BY <1>1, <2>3, <2>4, <2>6, <3>1 DEF IInv
  <2> QED
    BY <2>5, <2>6
<1> HIDE DEF s, o
<1> QED
  BY <1>1, <1>5, <1>6, <1>7, OneByOne

\* A response of another host.
LEMMA ResponseStep ==
  ASSUME IInv, NEW r \in Record, NEW ttl \in {GOODBYE, LOW, FULL}, NEW flush \in BOOLEAN,
         handle_response_packet(r, ttl, flush)
  PROVE  IInv'
<1>1. CASE Refreshes(r, ttl, flush)
  <2> DEFINE again == Matching({KeyOf[r]})
             wait(x) == IF Immediately(x, again, "probe") THEN 0 ELSE 1
             s == [x \in Record |-> IF x \in again THEN Post(sched[x], x, FULL, "all", wait(x))
                                                   ELSE sched[x]]
             o == [x \in Record |-> IF x \in again THEN PostOwed(sched[x], x, FULL, "all")
                                                   ELSE owed[x]]
  <2>1. sched' = s /\ owed' = o /\ registered' = registered
    BY <1>1 DEF handle_response_packet, avahi_server_generate_response, Responses
  <2>2. again \subseteq registered /\ registered' \subseteq Record
    BY <2>1 DEF Matching, IInv
  <2>3. "all" \in Asker /\ FULL \in {GOODBYE, FULL} /\ \A x : wait(x) \in 0..1
    BY DEF Asker
  <2>4. s = [x \in Record |-> s[x]] /\ o = [x \in Record |-> o[x]]
    OBVIOUS
  <2>5. \A x \in Record : Serves(s[x], o[x]) /\ (x \in registered' \/ Leaving(s[x]))
    <3> TAKE x \in Record
    <3> HIDE DEF again, wait
    <3>1. CASE x \in again
      BY <2>1, <2>2, <2>3, <3>1, PostStep
    <3>2. CASE x \notin again
      BY <2>1, <3>2 DEF IInv
    <3> QED
      BY <3>1, <3>2
  <2> HIDE DEF s, o
  <2> QED
    BY <2>1, <2>2, <2>4, <2>5, OneByOne
<1>2. CASE ~Refreshes(r, ttl, flush)
  <2> DEFINE settled == Scheduled(sched[r]) /\ (r \notin Unique \/ flush)
                          /\ Covers(ttl, sched[r].job.ttl)
             s == [x \in Record |-> IF x = r THEN Incoming(sched[r], r, ttl, flush) ELSE sched[x]]
             o == [x \in Record |-> IF x = r /\ settled THEN NobodyWaits(r) ELSE owed[x]]
  <2>1. sched' = s /\ registered' = registered /\ registered' \subseteq Record
    BY <1>2 DEF handle_response_packet, IInv
  <2>2. owed' = o
    <3>1. owed' = IF settled THEN [owed EXCEPT ![r] = NobodyWaits(r)] ELSE owed
      BY <1>2 DEF handle_response_packet
    <3> HIDE DEF settled
    <3> QED
      BY <3>1 DEF IInv
  <2>3. s = [x \in Record |-> s[x]] /\ o = [x \in Record |-> o[x]]
    OBVIOUS
  <2>4. \A x \in Record : Serves(s[x], o[x]) /\ (x \in registered' \/ Leaving(s[x]))
    <3> TAKE x \in Record
    <3>1. CASE x = r
      <4>1. Serves(sched[r], owed[r]) /\ (r \in registered \/ Leaving(sched[r]))
        BY DEF IInv
      <4>2. s[x] = Incoming(sched[r], r, ttl, flush)
            /\ o[x] = IF settled THEN [owed[r] EXCEPT !.who = {}] ELSE owed[r]
        BY <3>1, PostOwedIs
      <4>3. /\ Serves(s[x], o[x])
            /\ Scheduled(s[x]) => s[x] = sched[r]
        <5> HIDE DEF s, o
        <5> QED
          BY <4>1, <4>2, IncomingOK DEF settled
      <4> HIDE DEF s, o
      <4> QED
        BY <2>1, <3>1, <4>1, <4>3 DEF Leaving
    <3>2. CASE x # r
      BY <2>1, <3>2 DEF IInv
    <3> QED
      BY <3>1, <3>2
  <2> HIDE DEF s, o
  <2> QED
    BY <2>1, <2>2, <2>3, <2>4, OneByOne
<1> QED
  BY <1>1, <1>2

\* What a packet refers to is sent to the one all its referrers are for, or to all.
LEMMA AuxAskerOK ==
  ASSUME IInv, NEW reply \in SUBSET Record, NEW x
  PROVE  AuxAsker(reply, x) \in Asker
<1> DEFINE askers == {sched[r].job.querier : r \in {y \in reply : x \in Aux[y]
                                                                    /\ Scheduled(sched[y])}}
<1>1. askers \subseteq Asker
  <2> SUFFICES ASSUME NEW y \in reply, Scheduled(sched[y])
               PROVE  sched[y].job.querier \in Asker
    OBVIOUS
  <2>1. sched[y] \in SchedType
    BY DEF IInv
  <2>2. sched[y].job \in ResponseJob
    BY <2>1, JobTypes
  <2> QED
    BY <2>2 DEF ResponseJob
<1>2. AuxAsker(reply, x) = IF Cardinality(askers) = 1 THEN CHOOSE a \in askers : TRUE ELSE "all"
  BY DEF AuxAsker
<1> HIDE DEF askers
<1>3. Cardinality(askers) = 1 => askers # {}
  BY FS_EmptySet
<1>4. askers # {} => (CHOOSE a \in askers : TRUE) \in askers
  OBVIOUS
<1>5. "all" \in Asker
  BY DEF Asker
<1> QED
  BY <1>1, <1>2, <1>3, <1>4, <1>5

\* A response packet is sent.
LEMMA SendStep ==
  ASSUME IInv, NEW r \in Record, SendResponses(r)
  PROVE  IInv'
<1>1. PICK more \in SUBSET (Record \ {r}) : send_response_packet(more \cup {r})
  BY DEF SendResponses
<1> DEFINE reply == more \cup {r}
           jobs == {x \in reply : Scheduled(sched[x])}
           aux == AuxOf(reply) \ jobs
           posted == [x \in Record |-> IF x \in aux
                                       THEN Post(sched[x], x, FULL, AuxAsker(reply, x), 1)
                                       ELSE sched[x]]
           s == [x \in Record |-> IF x \in reply THEN MarkDone(posted[x], x) ELSE posted[x]]
           o == [x \in Record |-> IF x \in reply THEN NobodyWaits(x)
                                  ELSE IF x \in aux
                                  THEN PostOwed(sched[x], x, FULL, AuxAsker(reply, x))
                                  ELSE owed[x]]
<1>2. /\ reply \subseteq jobs \cup {x \in aux : Scheduled(posted[x])}
      /\ sched' = s /\ owed' = o /\ registered' = registered
  BY <1>1 DEF send_response_packet, SendResponses
<1>3. aux \subseteq registered /\ registered' \subseteq Record /\ reply \in SUBSET Record
  BY <1>2 DEF AuxOf, IInv
<1>4. s = [x \in Record |-> s[x]] /\ o = [x \in Record |-> o[x]]
  OBVIOUS
<1>5. \A x \in Record : Serves(s[x], o[x]) /\ (x \in registered' \/ Leaving(s[x]))
  <2> TAKE x \in Record
  <2> HIDE DEF reply
  <2>1. posted[x] = IF x \in aux THEN Post(sched[x], x, FULL, AuxAsker(reply, x), 1)
                                 ELSE sched[x]
    OBVIOUS
  <2>2. /\ s[x] = IF x \in reply THEN MarkDone(posted[x], x) ELSE posted[x]
        /\ o[x] = IF x \in reply THEN NobodyWaits(x)
                  ELSE IF x \in aux THEN PostOwed(sched[x], x, FULL, AuxAsker(reply, x))
                  ELSE owed[x]
    OBVIOUS
  <2>3. x \in reply => Scheduled(sched[x]) \/ (x \in aux /\ Scheduled(posted[x]))
    BY <1>2
  <2>4. x \in aux => ~(x \in reply /\ Scheduled(sched[x]))
    OBVIOUS
  <2> HIDE DEF aux, posted, s, o
  <2>5. /\ Serves(posted[x], IF x \in aux THEN PostOwed(sched[x], x, FULL, AuxAsker(reply, x))
                                          ELSE owed[x])
        /\ x \in registered \/ Leaving(posted[x])
    <3>1. CASE x \in aux
      <4>1. /\ FULL \in {GOODBYE, FULL} /\ 1 \in 0..1 /\ AuxAsker(reply, x) \in Asker
            /\ x \in registered
        BY <1>3, <3>1, AuxAskerOK
      <4> QED
        BY <2>1, <3>1, <4>1, PostStep
    <3>2. CASE x \notin aux
      BY <2>1, <3>2 DEF IInv
    <3> QED
      BY <3>1, <3>2
  <2>6. CASE x \in reply
    <3>1. posted[x] \in SchedType /\ Scheduled(posted[x])
      BY <2>1, <2>3, <2>4, <2>5, <2>6 DEF Serves
    <3>2. owed[x] \in OwedType
      BY DEF IInv
    <3>3. Serves(MarkDone(posted[x], x), [owed[x] EXCEPT !.who = {}])
          /\ ~Scheduled(MarkDone(posted[x], x))
      BY <3>1, <3>2, MarkDoneOK
    <3> QED
      BY <2>2, <2>6, <3>3, PostOwedIs DEF Leaving
  <2>7. CASE x \notin reply
    BY <1>2, <2>2, <2>5, <2>7
  <2> QED
    BY <2>6, <2>7
<1> HIDE DEF s, o
<1> QED
  BY <1>2, <1>3, <1>4, <1>5, OneByOne

\* The history forgets a record.
LEMMA ForgetResponseStep ==
  ASSUME IInv, NEW r \in Record, ForgetResponse(r)
  PROVE  IInv'
<1> DEFINE s == [x \in Record |-> IF x = r THEN [sched[r] EXCEPT !.done = NoJob] ELSE sched[x]]
           o == [x \in Record |-> owed[x]]
<1>1. sched' = s /\ owed' = o /\ registered' = registered /\ registered' \subseteq Record
  BY DEF ForgetResponse, IInv
<1>2. \A x \in Record : Serves(s[x], o[x]) /\ (x \in registered' \/ Leaving(s[x]))
  <2> TAKE x \in Record
  <2>1. Serves(sched[x], owed[x]) /\ (x \in registered \/ Leaving(sched[x]))
    BY DEF IInv
  <2>2. sched[x] \in SchedType
    BY <2>1 DEF Serves
  <2>3. /\ s[x] \in SchedType /\ s[x].job = sched[x].job
        /\ s[x].done = sched[x].done \/ s[x].done = NoJob
    <3>1. CASE x = r
      BY <2>2, <3>1 DEF SchedType
    <3>2. CASE x # r
      BY <2>2, <3>2
    <3> QED
      BY <3>1, <3>2
  <2>4. o[x] = owed[x]
    OBVIOUS
  <2> HIDE DEF s, o
  <2> QED
    BY <1>1, <2>1, <2>3, <2>4 DEF Serves, Leaving, Scheduled
<1>3. s = [x \in Record |-> s[x]] /\ o = [x \in Record |-> o[x]]
  OBVIOUS
<1> HIDE DEF s, o
<1> QED
  BY <1>1, <1>2, <1>3, OneByOne

\* What a host knew is forgotten.
LEMMA ForgetSuppressedStep ==
  ASSUME IInv, NEW r \in Record, NEW h \in Host, ForgetSuppressed(r, h)
  PROVE  IInv'
<1> DEFINE s == [x \in Record |-> IF x = r THEN [sched[r] EXCEPT !.suppressed[h] = 0] ELSE sched[x]]
           o == [x \in Record |-> owed[x]]
<1>1. sched' = s /\ owed' = o /\ registered' = registered /\ registered' \subseteq Record
  BY DEF ForgetSuppressed, IInv
<1>2. \A x \in Record : Serves(s[x], o[x]) /\ (x \in registered' \/ Leaving(s[x]))
  <2> TAKE x \in Record
  <2>1. Serves(sched[x], owed[x]) /\ (x \in registered \/ Leaving(sched[x]))
    BY DEF IInv
  <2>2. sched[x] \in SchedType
    BY <2>1 DEF Serves
  <2>3. s[x] \in SchedType /\ s[x].job = sched[x].job /\ s[x].done = sched[x].done
    <3>1. CASE x = r
      BY <2>2, <3>1 DEF SchedType
    <3>2. CASE x # r
      BY <2>2, <3>2
    <3> QED
      BY <3>1, <3>2
  <2>4. o[x] = owed[x]
    OBVIOUS
  <2> HIDE DEF s, o
  <2> QED
    BY <1>1, <2>1, <2>3, <2>4 DEF Serves, Leaving, Scheduled
<1>3. s = [x \in Record |-> s[x]] /\ o = [x \in Record |-> o[x]]
  OBVIOUS
<1> HIDE DEF s, o
<1> QED
  BY <1>1, <1>2, <1>3, OneByOne

\* Nothing is held and nobody waits.
LEMMA NothingOK ==
  ASSUME NEW o \in OwedType
  PROVE  Serves(Nothing, [o EXCEPT !.who = {}]) /\ Leaving(Nothing)
<1>1. Nothing.job = NoJob /\ Nothing.done = NoJob /\ Nothing \in SchedType
  BY DEF Nothing, SchedType
<1>2. [o EXCEPT !.who = {}] \in OwedType /\ [o EXCEPT !.who = {}].who = {}
  BY DEF OwedType
<1> QED
  BY <1>1, <1>2 DEF Serves, Leaving, Scheduled

\* The interface goes.
LEMMA ClearStep ==
  ASSUME IInv, avahi_response_scheduler_clear
  PROVE  IInv'
<1> DEFINE s == [x \in Record |-> Nothing]
           o == [x \in Record |-> [owed[x] EXCEPT !.who = {}]]
<1>1. sched' = s /\ owed' = o /\ registered' \subseteq Record
  BY DEF avahi_response_scheduler_clear, NobodyWaits
<1>2. \A x \in Record : Serves(s[x], o[x]) /\ (x \in registered' \/ Leaving(s[x]))
  BY NothingOK DEF IInv
<1>3. s = [x \in Record |-> s[x]] /\ o = [x \in Record |-> o[x]]
  OBVIOUS
<1> HIDE DEF s, o
<1> QED
  BY <1>1, <1>2, <1>3, OneByOne

\* Time passes.
LEMMA ResponseTickStep ==
  ASSUME IInv, ResponseTick
  PROVE  IInv'
<1> DEFINE s == [x \in Record |-> IF Scheduled(sched[x]) THEN [sched[x] EXCEPT !.job.wait = @ - 1]
                                                         ELSE sched[x]]
           o == [x \in Record |-> owed[x]]
<1>1. sched' = s /\ owed' = o /\ registered' = registered /\ registered' \subseteq Record
  BY DEF ResponseTick, IInv
<1>2. \A x \in Record : Serves(s[x], o[x]) /\ (x \in registered' \/ Leaving(s[x]))
  <2> TAKE x \in Record
  <2>1. Serves(sched[x], owed[x]) /\ (x \in registered \/ Leaving(sched[x]))
    BY DEF IInv
  <2>2. sched[x] \in SchedType
    BY <2>1 DEF Serves
  <2>3. CASE ~Scheduled(sched[x])
    BY <1>1, <2>1, <2>3
  <2>4. CASE Scheduled(sched[x])
    <3>1. sched[x].job \in ResponseJob /\ sched[x].job.wait > 0
      BY <2>2, <2>4, JobTypes DEF ResponseTick
    <3> DEFINE j == [sched[x].job EXCEPT !.wait = @ - 1]
    <3>2. /\ j \in ResponseJob /\ j.ttl = sched[x].job.ttl /\ j.querier = sched[x].job.querier
      BY <3>1 DEF ResponseJob
    <3>3. s[x] = [sched[x] EXCEPT !.job = j]
      BY <2>4
    <3> HIDE DEF j, s
    <3>4. s[x] \in SchedType /\ s[x].job = j /\ s[x].done = sched[x].done
      BY <2>2, <3>2, <3>3 DEF SchedType
    <3>5. Scheduled(s[x])
      BY <3>2, <3>4, JobTypes
    <3>6. o[x] = owed[x]
      OBVIOUS
    <3> HIDE DEF o
    <3> QED
      BY <1>1, <2>1, <2>4, <3>2, <3>4, <3>5, <3>6 DEF Serves, Leaving
  <2> QED
    BY <2>3, <2>4
<1>3. s = [x \in Record |-> s[x]] /\ o = [x \in Record |-> o[x]]
  OBVIOUS
<1> HIDE DEF s, o
<1> QED
  BY <1>1, <1>2, <1>3, OneByOne

-----------------------------------------------------------------------------
(* The invariant and what follows from it.                                 *)

\* Nothing is registered or scheduled when the interface starts.
LEMMA InitOK == RespInit => IInv
<1> SUFFICES ASSUME RespInit PROVE IInv
  OBVIOUS
<1> DEFINE o == [ttl |-> FULL, who |-> {}]
<1>1. o \in OwedType /\ [o EXCEPT !.who = {}] = o
  BY DEF OwedType
<1>2. Serves(Nothing, o) /\ Leaving(Nothing)
  <2> HIDE DEF o
  <2>1. Serves(Nothing, [o EXCEPT !.who = {}]) /\ Leaving(Nothing)
    BY <1>1, NothingOK
  <2> QED
    BY <1>1, <2>1
<1>3. Nothing \in SchedType
  BY <1>2 DEF Serves
<1>4. sched = [r \in Record |-> Nothing] /\ owed = [r \in Record |-> o] /\ registered = {}
  BY DEF RespInit
<1> HIDE DEF o
<1> QED
  BY <1>1, <1>2, <1>3, <1>4 DEF IInv

\* Every step keeps the invariant.
LEMMA StepOK == IInv /\ [RespNext]_respVars => IInv'
<1> SUFFICES ASSUME IInv, [RespNext]_respVars PROVE IInv'
  OBVIOUS
<1>1. ASSUME NEW h \in Host, NEW keys \in (SUBSET Key) \ {{}}, NEW known \in KnownAnswers,
             NEW kind \in QueryKind, NEW unicast \in BOOLEAN,
             handle_query_packet(h, keys, known, kind, unicast)
      PROVE  IInv'
  BY <1>1, QueryStep
<1>2. ASSUME NEW r \in Record, NEW ttl \in {GOODBYE, LOW, FULL}, NEW flush \in BOOLEAN,
             handle_response_packet(r, ttl, flush)
      PROVE  IInv'
  BY <1>2, ResponseStep
<1>3. ASSUME NEW r \in Record, AnnounceRecord(r) PROVE IInv'
  BY <1>3, AnnounceRecordStep
<1>4. ASSUME NEW r \in Record, send_goodbye_callback(r) PROVE IInv'
  BY <1>4, GoodbyeStep
<1>5. ASSUME NEW r \in Record, SendResponses(r) PROVE IInv'
  BY <1>5, SendStep
<1>6. ASSUME NEW r \in Record, ForgetResponse(r) PROVE IInv'
  BY <1>6, ForgetResponseStep
<1>7. ASSUME NEW r \in Record, NEW h \in Host, ForgetSuppressed(r, h) PROVE IInv'
  BY <1>7, ForgetSuppressedStep
<1>8. CASE avahi_response_scheduler_clear
  BY <1>8, ClearStep
<1>9. CASE ResponseTick
  BY <1>9, ResponseTickStep
<1>10. CASE UNCHANGED respVars
  BY <1>10 DEF respVars, IInv
<1> QED
  BY <1>1, <1>2, <1>3, <1>4, <1>5, <1>6, <1>7, <1>8, <1>9, <1>10 DEF RespNext

\* The inductive invariant holds throughout.
THEOREM ResponderInductive == RespSpec => []IInv
BY InitOK, StepOK, PTL DEF RespSpec

\* Known answers (avahi_response_scheduler_suppress), answers of other hosts
\* (avahi_response_scheduler_incoming) and merged posts drop a scheduled record only when
\* nobody waits for it any more.
THEOREM NobodyIsForgotten == RespSpec => []RespInv
<1>1. IInv => RespInv
  BY DEF IInv, RespInv, RespTypeOK, WaitedForIsScheduled, ScheduledOrDone, Serves, OwedType
<1> QED
  BY <1>1, ResponderInductive, PTL

\* A goodbye is the last word (send_goodbye_callback, avahi_response_scheduler_post): no
\* query or response of another host makes the scheduler send a withdrawn record alive.
THEOREM GoodbyeIsFinal == RespSpec => []WithdrawnStaysWithdrawn
<1>1. IInv => WithdrawnStaysWithdrawn
  BY DEF IInv, WithdrawnStaysWithdrawn, Leaving
<1> QED
  BY <1>1, ResponderInductive, PTL

-----------------------------------------------------------------------------
(* The probe scheduler.                                                    *)

Names == {NameOf[r] : r \in ProbeRecord}

\* A list of jobs as the scheduler keeps it: one for each record, none chosen.
Waiting(jobs) ==
  /\ jobs \in Seq(ProbeJob)
  /\ \A n \in DOMAIN jobs : ~jobs[n].chosen
  /\ \A m, n \in DOMAIN jobs : jobs[m].record = jobs[n].record => m = n

Packets == [questions : Seq(Names), room : Nat, full : BOOLEAN, jobs : Seq(ProbeJob)]

\* A packet that is being put together from these jobs: chosen ones have their question.
Packing(p, jobs) ==
  /\ p \in Packets
  /\ DOMAIN p.jobs = DOMAIN jobs /\ \A k \in DOMAIN jobs : p.jobs[k].record = jobs[k].record
  /\ \A k \in DOMAIN jobs : p.jobs[k].chosen => JobName(p.jobs[k]) \in Range(p.questions)

\* One round of the search for companions
Join(q, s, k) ==
  IF ~q.p.jobs[k].chosen /\ k # q.n /\ JobName(q.p.jobs[k]) = JobName(q.p.jobs[q.n]) THEN Append(s, k) ELSE s

Joining == INSTANCE FoldProofs WITH Op <- Join

LEMMA CompanionsShareName ==
  ASSUME NEW p, p.jobs \in Seq(ProbeJob), NEW n \in DOMAIN p.jobs, NEW same, same = Companions(p, n)
  PROVE  same \in Seq({k \in DOMAIN p.jobs : JobName(p.jobs[k]) = JobName(p.jobs[n])})
<1> DEFINE G == Seq({k \in DOMAIN p.jobs : JobName(p.jobs[k]) = JobName(p.jobs[n])})
           q == [p |-> p, n |-> n]
           order == Positions(p.jobs)
           l == Len(p.jobs)
           a == Joining!Folded(q, <<>>, order)
<1>1. same = a
  BY DEF Companions, Join, FoldLeft, MapThenFoldSet, Max, Joining!Folded, Joining!FoldLeft,
         Joining!MapThenFoldSet, Joining!Max
<1>2. l \in Nat /\ DOMAIN p.jobs = 1..l /\ DOMAIN order = 1..l /\ \A i \in 1..l : order[i] = i
  BY DEF Positions
<1>3. \A s \in G : \A i \in 1..l : Join(q, s, order[i]) \in G
  <2> SUFFICES ASSUME NEW s \in G, NEW i \in 1..l PROVE Join(q, s, order[i]) \in G
    OBVIOUS
  <2>1. q.p = p /\ q.n = n /\ order[i] = i /\ i \in DOMAIN p.jobs
    BY <1>2
  <2> HIDE DEF q, order
  <2> QED
    BY <2>1 DEF Join
<1>4. <<>> \in G
  OBVIOUS
<1> HIDE DEF G, q, order, l, a
<1>5. a \in G
  BY <1>2, <1>3, <1>4, Joining!FoldKeeps DEF a
<1> QED
  BY <1>1, <1>5 DEF G

\* A packet gets a question before it gets a record that goes with it.
LEMMA QueryPacks ==
  ASSUME NEW jobs \in Seq(ProbeJob), NEW p, Packing(p, jobs), NEW n \in DOMAIN jobs
  PROVE  Packing(packet_add_probe_query(p, n), jobs)
<1>0. /\ p \in Packets /\ p.jobs \in Seq(ProbeJob) /\ n \in DOMAIN p.jobs /\ p.room \in Nat
      /\ p.questions \in Seq(Names) /\ p.full \in BOOLEAN
  BY DEF Packing, Packets
<1>1. CASE p.full \/ p.jobs[n].chosen \/ p.room < 2
  <2>1. PICK b \in BOOLEAN : b = (p.full \/ ~p.jobs[n].chosen)
    OBVIOUS
  <2> DEFINE c == [p EXCEPT !.full = b]
  <2>2. packet_add_probe_query(p, n) = c
    BY <1>1, <2>1, Zenon DEF packet_add_probe_query
  <2>3. c \in Packets /\ c.jobs = p.jobs /\ c.questions = p.questions
    <3>1. c \in Packets
      BY <1>0, Zenon DEF Packets
    <3> QED
      BY <1>0, <3>1 DEF Packets
  <2> HIDE DEF c
  <2> QED
    BY <2>2, <2>3 DEF Packing
<1>2. CASE ~(p.full \/ p.jobs[n].chosen \/ p.room < 2)
  <2>1. PICK same : same = Companions(p, n)
    OBVIOUS
  <2>2. same \in Seq({k \in DOMAIN p.jobs : JobName(p.jobs[k]) = JobName(p.jobs[n])})
    BY <1>0, <2>1, CompanionsShareName
  <2>3. PICK fit \in Nat : /\ fit = IF Len(same) <= p.room - 2 THEN Len(same) ELSE p.room - 2
                           /\ fit <= Len(same) /\ fit <= p.room - 2
    <3>1. PICK m \in Nat : m = Len(same)
      BY <2>2
    <3>2. PICK r \in Nat : r = p.room - 2
      BY <1>0, <1>2
    <3>3. \E f \in Nat : f = (IF m <= r THEN m ELSE r) /\ f <= m /\ f <= r
      OBVIOUS
    <3> QED
      BY <3>1, <3>2, <3>3
  <2>4. PICK now : now = {n} \cup {same[k] : k \in 1..fit}
    OBVIOUS
  <2>5. now \subseteq DOMAIN p.jobs /\ \A k \in now : JobName(p.jobs[k]) = JobName(p.jobs[n])
    <3>1. \A k \in 1..fit : same[k] \in {m \in DOMAIN p.jobs : JobName(p.jobs[m]) = JobName(p.jobs[n])}
      BY <2>2, <2>3
    <3> QED
      BY <1>0, <2>4, <3>1
  <2>6. PICK js : js = [k \in DOMAIN p.jobs |-> IF k \in now THEN [p.jobs[k] EXCEPT !.chosen = TRUE] ELSE p.jobs[k]]
    OBVIOUS
  <2>7. /\ js \in Seq(ProbeJob) /\ DOMAIN js = DOMAIN p.jobs
        /\ \A k \in DOMAIN js : js[k].record = p.jobs[k].record /\ (js[k].chosen => k \in now \/ p.jobs[k].chosen)
    <3>1. \A k \in DOMAIN p.jobs : p.jobs[k] \in ProbeJob
      BY <1>0
    <3>2. \A k \in DOMAIN p.jobs :
            js[k] \in ProbeJob /\ js[k].record = p.jobs[k].record /\ (js[k].chosen => k \in now \/ p.jobs[k].chosen)
      BY <2>6, <3>1 DEF ProbeJob
    <3>3. DOMAIN js = DOMAIN p.jobs /\ js = [k \in DOMAIN p.jobs |-> js[k]]
      BY <2>6
    <3>4. PICK l \in Nat : DOMAIN p.jobs = 1..l
      BY <1>0
    <3>5. js \in Seq(ProbeJob)
      BY <3>2, <3>3, <3>4
    <3> QED
      BY <3>2, <3>3, <3>5
  <2>8. PICK x \in Names : x = JobName(p.jobs[n])
    <3>0. p.jobs[n] \in ProbeJob
      BY <1>0
    <3>1. PICK r \in ProbeRecord : r = p.jobs[n].record
      BY <3>0 DEF ProbeJob
    <3> QED
      BY <3>1 DEF JobName, Names
  <2>9. PICK qs : qs = Append(p.questions, x)
    OBVIOUS
  <2>10. qs \in Seq(Names) /\ x \in Range(qs) /\ \A y \in Range(p.questions) : y \in Range(qs)
    <3>1. /\ qs \in Seq(Names) /\ Len(p.questions) + 1 \in DOMAIN qs /\ qs[Len(p.questions) + 1] = x
          /\ \A i \in DOMAIN p.questions : i \in DOMAIN qs /\ qs[i] = p.questions[i]
      BY <1>0, <2>9
    <3> QED
      BY <3>1 DEF Range
  <2>11. PICK left \in Nat : left = p.room - 2 - fit
    BY <1>0, <2>3
  <2> DEFINE c == [p EXCEPT !.questions = qs, !.room = left, !.jobs = js]
  <2>12. packet_add_probe_query(p, n) = c
    BY <1>2, <2>1, <2>3, <2>4, <2>6, <2>8, <2>9, <2>11 DEF packet_add_probe_query
  <2>13. c \in Packets /\ c.jobs = js /\ c.questions = qs
    BY <1>0, <2>7, <2>10 DEF Packets
  <2> HIDE DEF c
  <2>14. ASSUME NEW k \in DOMAIN jobs, js[k].chosen PROVE JobName(js[k]) \in Range(qs)
    <3>1. k \in DOMAIN js /\ js[k].record = p.jobs[k].record
      BY <2>7 DEF Packing
    <3>2. CASE k \in now
      BY <2>5, <2>8, <2>10, <3>1, <3>2 DEF JobName
    <3>3. CASE p.jobs[k].chosen
      BY <2>10, <3>1, <3>3 DEF Packing, JobName
    <3> QED
      BY <2>7, <2>14, <3>1, <3>2, <3>3
  <2>15. Packing(c, jobs)
    BY <2>7, <2>13, <2>14 DEF Packing
  <2> QED
    BY <2>12, <2>15
<1> QED
  BY <1>1, <1>2

\* Filling a packet up
Fill(q, p, n) == packet_add_probe_query(p, n)

Filling == INSTANCE FoldProofs WITH Op <- Fill

LEMMA AssembledPacks ==
  ASSUME Waiting(probes), NEW n \in DOMAIN probes, NEW room \in Nat
  PROVE  Packing(Assembled(n, room), probes)
<1>1. PICK empty : empty = [questions |-> <<>>, room |-> room, full |-> FALSE, jobs |-> probes]
  OBVIOUS
<1>2. PICK jobs \in Seq(ProbeJob) : jobs = probes
  BY DEF Waiting
<1>3. Packing(empty, jobs)
  BY <1>1, <1>2 DEF Packing, Packets, Waiting
<1>4. PICK first : first = packet_add_probe_query(empty, n)
  OBVIOUS
<1>5. Packing(first, jobs)
  BY <1>2, <1>3, <1>4, QueryPacks
<1> DEFINE G == {p \in Packets : Packing(p, jobs)}
           order == Positions(jobs)
           l == Len(jobs)
           a == Filling!Folded(0, first, order)
<1>6. Assembled(n, room) = a
  BY <1>1, <1>2, <1>4 DEF Assembled, Fill, FoldLeft, MapThenFoldSet, Max, Filling!Folded, Filling!FoldLeft,
         Filling!MapThenFoldSet, Filling!Max
<1>7. l \in Nat /\ DOMAIN jobs = 1..l /\ DOMAIN order = 1..l /\ \A i \in 1..l : order[i] = i
  BY DEF Positions
<1>8. \A s \in G : \A i \in 1..l : Fill(0, s, order[i]) \in G
  <2> SUFFICES ASSUME NEW s \in G, NEW i \in 1..l PROVE Fill(0, s, order[i]) \in G
    OBVIOUS
  <2>1. i \in DOMAIN jobs /\ order[i] = i /\ Packing(s, jobs)
    BY <1>7
  <2>2. Packing(packet_add_probe_query(s, i), jobs)
    BY <2>1, QueryPacks
  <2> HIDE DEF order
  <2> QED
    BY <2>1, <2>2 DEF Fill, Packing
<1>9. first \in G
  BY <1>5 DEF Packing
<1> HIDE DEF G, order, l, a
<1>10. a \in G
  BY <1>7, <1>8, <1>9, Filling!FoldKeeps DEF a
<1> QED
  BY <1>2, <1>6, <1>10 DEF G

\* One round of keeping the jobs that were not sent
KeepJob(sent, l, j) == IF j.record \in sent THEN l ELSE Append(l, [j EXCEPT !.chosen = FALSE])

Keeping == INSTANCE FoldProofs WITH Op <- KeepJob

\* What is kept of k jobs
KeptOf(l, jobs, sent, k) ==
  /\ \A i \in DOMAIN l : ~l[i].chosen /\ l[i].record \notin sent /\ \E m \in 1..k : l[i].record = jobs[m].record
  /\ \A i, j \in DOMAIN l : l[i].record = l[j].record => i = j

LEMMA LeftWaits ==
  ASSUME NEW jobs \in Seq(ProbeJob), \A m, n \in DOMAIN jobs : jobs[m].record = jobs[n].record => m = n,
         NEW sent, NEW left, left = Left(jobs, sent)
  PROVE  Waiting(left) /\ \A n \in DOMAIN left : left[n].record \notin sent /\ \E m \in DOMAIN jobs : left[n].record = jobs[m].record
<1> DEFINE n == Len(jobs)
           G == [k \in 0..n |-> {l \in Seq(ProbeJob) : KeptOf(l, jobs, sent, k)}]
           a == Keeping!Folded(sent, <<>>, jobs)
<1>1. left = a
  BY DEF Left, KeepJob, FoldLeft, MapThenFoldSet, Max, Keeping!Folded, Keeping!FoldLeft,
         Keeping!MapThenFoldSet, Keeping!Max
<1>2. n \in Nat /\ DOMAIN jobs = 1..n
  OBVIOUS
<1>3. \A k \in 0..n : G[k] = {l \in Seq(ProbeJob) : KeptOf(l, jobs, sent, k)}
  OBVIOUS
<1> HIDE DEF n, G
<1>4. <<>> \in G[0]
  <2>1. 0 \in 0..n
    BY <1>2
  <2>2. KeptOf(<<>>, jobs, sent, 0)
    BY DEF KeptOf
  <2>3. <<>> \in Seq(ProbeJob)
    OBVIOUS
  <2> QED
    BY <1>3, <2>1, <2>2, <2>3, Zenon
<1>5. ASSUME NEW k \in 1..n, NEW l \in G[k - 1] PROVE KeepJob(sent, l, jobs[k]) \in G[k]
  <2>1. k \in 0..n /\ k - 1 \in 0..n
    BY <1>2
  <2>2. l \in Seq(ProbeJob) /\ KeptOf(l, jobs, sent, k - 1)
    BY <1>3, <2>1
  <2>3. PICK j \in ProbeJob : j = jobs[k]
    BY <1>2
  <2>4. \A m \in 1..(k - 1) : m \in 1..k /\ jobs[m].record # j.record
    BY <1>2, <2>3
  <2>5. CASE j.record \in sent
    <3>1. KeptOf(l, jobs, sent, k)
      BY <2>2, <2>4 DEF KeptOf
    <3> QED
      BY <1>3, <2>1, <2>2, <2>3, <2>5, <3>1 DEF KeepJob
  <2>6. CASE j.record \notin sent
    <3>1. PICK x \in ProbeJob : x = [j EXCEPT !.chosen = FALSE] /\ ~x.chosen /\ x.record = j.record
      <4> DEFINE y == [j EXCEPT !.chosen = FALSE]
      <4>1. y \in ProbeJob /\ ~y.chosen /\ y.record = j.record
        BY DEF ProbeJob
      <4> QED
        BY <4>1
    <3>2. PICK t : t = Append(l, x)
      OBVIOUS
    <3>3. /\ t \in Seq(ProbeJob)
          /\ \A i \in DOMAIN t : (i \in DOMAIN l /\ t[i] = l[i]) \/ (i = Len(l) + 1 /\ t[i] = x)
      BY <2>2, <3>2
    <3>4. k \in 1..k /\ x.record = jobs[k].record
      BY <2>3, <3>1
    <3>5. \A i \in DOMAIN l : l[i].record # x.record
      BY <2>2, <2>4, <3>1 DEF KeptOf
    <3>6. KeptOf(t, jobs, sent, k)
      <4>1. ASSUME NEW i \in DOMAIN t
            PROVE  ~t[i].chosen /\ t[i].record \notin sent /\ \E m \in 1..k : t[i].record = jobs[m].record
        <5>1. CASE i \in DOMAIN l /\ t[i] = l[i]
          <6>1. PICK m \in 1..(k - 1) : l[i].record = jobs[m].record
            BY <2>2, <5>1 DEF KeptOf
          <6>2. m \in 1..k
            BY <2>4, <6>1
          <6> QED
            BY <2>2, <5>1, <6>1, <6>2 DEF KeptOf
        <5>2. CASE t[i] = x
          BY <2>6, <3>1, <3>4, <5>2
        <5> QED
          BY <3>3, <5>1, <5>2
      <4>2. ASSUME NEW i \in DOMAIN t, NEW h \in DOMAIN t, t[i].record = t[h].record PROVE i = h
        BY <2>2, <3>3, <3>5, <4>2 DEF KeptOf
      <4> QED
        BY <4>1, <4>2 DEF KeptOf
    <3>7. KeepJob(sent, l, jobs[k]) = t
      BY <2>3, <2>6, <3>1, <3>2 DEF KeepJob
    <3> QED
      BY <1>3, <2>1, <3>3, <3>6, <3>7
  <2> QED
    BY <2>5, <2>6
<1> HIDE DEF a
<1>6. a \in G[n]
  BY <1>2, <1>4, <1>5, Keeping!FoldKeepsEach DEF a
<1>7. left \in Seq(ProbeJob) /\ KeptOf(left, jobs, sent, n)
  BY <1>1, <1>2, <1>3, <1>6
<1> QED
  BY <1>2, <1>7 DEF KeptOf, Waiting

\* One round of collecting the chosen records
Choose(q, l, j) == IF j.chosen THEN Append(l, j.record) ELSE l

Choosing == INSTANCE FoldProofs WITH Op <- Choose

LEMMA ChosenAreJobs ==
  ASSUME NEW jobs \in Seq(ProbeJob), NEW chosen, chosen = ChosenRecords(jobs)
  PROVE  chosen \in Seq({r \in ProbeRecord : \E m \in DOMAIN jobs : jobs[m].chosen /\ r = jobs[m].record})
<1> DEFINE n == Len(jobs)
           R == {r \in ProbeRecord : \E m \in DOMAIN jobs : jobs[m].chosen /\ r = jobs[m].record}
           G == Seq(R)
           a == Choosing!Folded(0, <<>>, jobs)
<1>1. chosen = a
  BY DEF ChosenRecords, Choose, FoldLeft, MapThenFoldSet, Max, Choosing!Folded, Choosing!FoldLeft,
         Choosing!MapThenFoldSet, Choosing!Max
<1>2. n \in Nat /\ DOMAIN jobs = 1..n
  OBVIOUS
<1>3. \A s \in G : \A i \in 1..n : Choose(0, s, jobs[i]) \in G
  <2> SUFFICES ASSUME NEW s \in G, NEW i \in 1..n PROVE Choose(0, s, jobs[i]) \in G
    OBVIOUS
  <2>1. PICK j \in ProbeJob : j = jobs[i]
    BY <1>2
  <2>2. j.chosen => j.record \in R
    BY <1>2, <2>1 DEF ProbeJob
  <2> HIDE DEF R
  <2> QED
    BY <2>1, <2>2 DEF Choose
<1>4. <<>> \in G
  OBVIOUS
<1> HIDE DEF G, n, a
<1>5. a \in G
  BY <1>2, <1>3, <1>4, Choosing!FoldKeeps DEF a
<1> QED
  BY <1>1, <1>5 DEF G

LEMMA RemovedJob ==
  ASSUME NEW jobs \in Seq(ProbeJob), NEW n \in DOMAIN jobs, NEW rest, rest = RemoveAt(jobs, n)
  PROVE  /\ rest \in Seq(ProbeJob)
         /\ \A k \in DOMAIN rest : /\ k \in Nat /\ rest[k] = jobs[IF k < n THEN k ELSE k + 1]
                                   /\ (IF k < n THEN k ELSE k + 1) \in DOMAIN jobs
<1>1. PICK l \in Nat : l = Len(jobs) /\ DOMAIN jobs = 1..l
  OBVIOUS
<1>2. n \in 1..l
  BY <1>1
<1>3. PICK m \in Nat : n = m + 1
  BY <1>2
<1>4. PICK d \in Nat : d = l - n
  BY <1>2
<1>5. PICK a : a = SubSeq(jobs, 1, m)
  OBVIOUS
<1>6. PICK b : b = SubSeq(jobs, n + 1, l)
  OBVIOUS
<1>7. rest = a \o b
  <2>1. n - 1 = m
    BY <1>3
  <2> QED
    BY <1>1, <1>5, <1>6, <2>1, Zenon DEF RemoveAt
<1>8. a \in Seq(ProbeJob) /\ Len(a) = m /\ \A k \in 1..m : a[k] = jobs[k]
  <2>1. \A k \in 1..m : jobs[k] \in ProbeJob
    BY <1>1, <1>2, <1>3
  <2>2. a = [k \in 1..m |-> jobs[k]]
    BY <1>5
  <2> QED
    BY <2>1, <2>2
<1>9. b \in Seq(ProbeJob) /\ Len(b) = d /\ \A k \in 1..d : b[k] = jobs[k + n]
  <2>1. \A k \in 1..d : jobs[k + n] \in ProbeJob
    BY <1>1, <1>2, <1>4
  <2>2. b = [k \in 1..d |-> jobs[k + n]]
    BY <1>1, <1>2, <1>4, <1>6
  <2> QED
    BY <2>1, <2>2
<1>10. /\ rest \in Seq(ProbeJob) /\ DOMAIN rest = 1..(m + d)
       /\ \A k \in 1..(m + d) : rest[k] = IF k <= m THEN a[k] ELSE b[k - m]
  BY <1>7, <1>8, <1>9
<1>11. ASSUME NEW k \in 1..(m + d)
       PROVE  rest[k] = jobs[IF k < n THEN k ELSE k + 1] /\ (IF k < n THEN k ELSE k + 1) \in DOMAIN jobs
  <2>1. CASE k <= m
    BY <1>1, <1>3, <1>4, <1>8, <1>10, <2>1
  <2>2. CASE ~(k <= m)
    <3>1. k - m \in 1..d /\ (k - m) + n = k + 1
      BY <1>3, <2>2
    <3> QED
      BY <1>1, <1>3, <1>4, <1>9, <1>10, <2>2, <3>1
  <2> QED
    BY <2>1, <2>2
<1> QED
  BY <1>10, <1>11

ProbeIInv ==
  /\ Waiting(probes) /\ probed \subseteq ProbeRecord
  /\ \A n \in DOMAIN probes : probes[n].record \notin probed
  /\ packet.questions \in Seq(Names) /\ packet.records \in Seq(ProbeRecord)
  /\ ProbesAskForTheirNames

LEMMA ProbeStart == ProbeInit => ProbeIInv
BY DEF ProbeInit, ProbeIInv, Waiting, NoPacket, ProbesAskForTheirNames

LEMMA ProbePostStep ==
  ASSUME ProbeIInv, NEW r \in ProbeRecord, NEW wait \in 0..1, avahi_probe_scheduler_post(r, wait)
  PROVE  ProbeIInv'
<1>0. PICK jobs \in Seq(ProbeJob) : jobs = probes
  BY DEF ProbeIInv, Waiting
<1>1. /\ \A n \in DOMAIN jobs : ~jobs[n].chosen /\ jobs[n].record \notin probed
      /\ \A m, n \in DOMAIN jobs : jobs[m].record = jobs[n].record => m = n
  BY <1>0 DEF ProbeIInv, Waiting
<1>2. CASE ProbesFor(r) = {}
  <2>1. PICK j \in ProbeJob : j = [record |-> r, wait |-> wait, chosen |-> FALSE] /\ ~j.chosen /\ j.record = r
    <3>1. [record |-> r, wait |-> wait, chosen |-> FALSE] \in ProbeJob
      BY DEF ProbeJob
    <3> QED
      BY <3>1
  <2>2. PICK t : t = <<j>> \o jobs
    OBVIOUS
  <2>3. probes' = t /\ r \notin probed
    BY <1>0, <1>2, <2>1, <2>2 DEF avahi_probe_scheduler_post
  <2>4. /\ t \in Seq(ProbeJob) /\ t[1] = j
        /\ \A i \in DOMAIN t : i \in Nat /\ (i = 1 \/ (i - 1 \in DOMAIN jobs /\ t[i] = jobs[i - 1]))
    BY <2>2
  <2>5. \A n \in DOMAIN jobs : jobs[n].record # r
    BY <1>0, <1>2 DEF ProbesFor
  <2>6. \A n \in DOMAIN t : ~t[n].chosen /\ t[n].record \notin probed
    BY <1>1, <2>1, <2>3, <2>4
  <2>7. ASSUME NEW m \in DOMAIN t, NEW n \in DOMAIN t, t[m].record = t[n].record PROVE m = n
    <3>1. CASE m = 1 \/ n = 1
      BY <2>1, <2>4, <2>5, <2>7, <3>1
    <3>2. CASE m # 1 /\ n # 1
      <4>1. m - 1 = n - 1
        BY <1>1, <2>4, <2>7, <3>2
      <4> QED
        BY <2>4, <4>1
    <3> QED
      BY <3>1, <3>2
  <2> QED
    BY <2>3, <2>4, <2>6, <2>7 DEF ProbeIInv, Waiting, avahi_probe_scheduler_post, ProbesAskForTheirNames
<1>3. CASE ProbesFor(r) # {}
  <2>1. PICK t : t = [n \in DOMAIN jobs |->
                        IF n \in ProbesFor(r) /\ wait < jobs[n].wait THEN [jobs[n] EXCEPT !.wait = wait] ELSE jobs[n]]
    OBVIOUS
  <2>2. probes' = t
    BY <1>0, <1>3, <2>1 DEF avahi_probe_scheduler_post
  <2>3. \A n \in DOMAIN jobs : t[n] \in ProbeJob /\ t[n].record = jobs[n].record /\ t[n].chosen = jobs[n].chosen
    <3> TAKE n \in DOMAIN jobs
    <3>1. PICK j \in ProbeJob : j = jobs[n]
      OBVIOUS
    <3>2. t[n] = j \/ t[n] = [j EXCEPT !.wait = wait]
      BY <2>1, <3>1
    <3> QED
      BY <3>1, <3>2 DEF ProbeJob
  <2>4. PICK l \in Nat : DOMAIN jobs = 1..l
    OBVIOUS
  <2>5. DOMAIN t = DOMAIN jobs /\ t = [n \in DOMAIN jobs |-> t[n]]
    BY <2>1
  <2>6. t \in Seq(ProbeJob)
    BY <2>3, <2>4, <2>5
  <2> QED
    BY <1>1, <2>2, <2>3, <2>5, <2>6 DEF ProbeIInv, Waiting, avahi_probe_scheduler_post, ProbesAskForTheirNames
<1> QED
  BY <1>2, <1>3

LEMMA SendProbesStep ==
  ASSUME ProbeIInv, NEW n \in DOMAIN probes, NEW room \in Nat, NEW fit \in Nat, SendProbes(n, room, fit)
  PROVE  ProbeIInv'
<1>0. PICK jobs \in Seq(ProbeJob) : jobs = probes /\ Waiting(jobs)
  BY DEF ProbeIInv, Waiting
<1>1. PICK p \in Packets : p = Assembled(n, room) /\ Packing(p, jobs)
  BY <1>0, AssembledPacks DEF ProbeIInv, Packing
<1>2. PICK js \in Seq(ProbeJob) : js = p.jobs
  BY DEF Packets
<1>3. PICK chosen : chosen = ChosenRecords(js)
  OBVIOUS
<1> DEFINE R == {r \in ProbeRecord : \E m \in DOMAIN js : js[m].chosen /\ r = js[m].record}
<1>4. chosen \in Seq(R)
  BY <1>3, ChosenAreJobs
<1>5. PICK l \in Nat : l = (IF fit < Len(chosen) THEN fit ELSE Len(chosen)) /\ l <= Len(chosen)
  <2>1. PICK m \in Nat : m = Len(chosen)
    BY <1>4
  <2>2. \E l \in Nat : l = (IF fit < m THEN fit ELSE m) /\ l <= m
    OBVIOUS
  <2> QED
    BY <2>1, <2>2
<1>6. PICK records : records = [k \in 1..l |-> chosen[k]]
  OBVIOUS
<1>7. records \in Seq(R) /\ DOMAIN records = 1..l
  <2> HIDE DEF R
  <2>1. \A k \in 1..l : chosen[k] \in R
    BY <1>4, <1>5
  <2>2. records \in [1..l -> R]
    BY <1>6, <2>1
  <2> QED
    BY <2>2
<1>8. PICK sent : sent = Range(records)
  OBVIOUS
<1>9. sent \subseteq R
  <2> HIDE DEF R
  <2> QED
    BY <1>7, <1>8 DEF Range
<1>10. PICK left : left = Left(js, sent)
  OBVIOUS
<1>11. /\ probes' = left /\ probed' = probed \cup sent
       /\ packet' = [questions |-> p.questions, records |-> records]
  BY <1>1, <1>2, <1>3, <1>5, <1>6, <1>8, <1>10, Zenon DEF SendProbes
<1>12. DOMAIN js = DOMAIN jobs /\ \A k \in DOMAIN js : js[k].record = jobs[k].record
  BY <1>1, <1>2 DEF Packing
<1>13. \A h, k \in DOMAIN js : js[h].record = js[k].record => h = k
  BY <1>0, <1>12 DEF Waiting
<1>14. /\ Waiting(left)
       /\ \A k \in DOMAIN left : left[k].record \notin sent /\ \E m \in DOMAIN js : left[k].record = js[m].record
  BY <1>10, <1>13, LeftWaits
<1>15. \A k \in DOMAIN left : left[k].record \notin probed \cup sent
  BY <1>0, <1>12, <1>14 DEF ProbeIInv
<1>16. R \subseteq ProbeRecord /\ records \in Seq(ProbeRecord)
  BY <1>7
<1>17. p.questions \in Seq(Names)
  BY DEF Packets
<1>18. ASSUME NEW k \in DOMAIN records PROVE NameOf[records[k]] \in Range(p.questions)
  <2>1. records[k] \in R
    <3> HIDE DEF R
    <3> QED
      BY <1>7
  <2>2. PICK m \in DOMAIN js : js[m].chosen /\ records[k] = js[m].record
    BY <2>1
  <2>3. JobName(js[m]) \in Range(p.questions)
    BY <1>1, <1>2, <1>12, <2>2 DEF Packing
  <2> QED
    BY <2>2, <2>3 DEF JobName
<1>19. packet'.questions = p.questions /\ packet'.records = records
  BY <1>11
<1>20. sent \subseteq ProbeRecord
  BY <1>9, <1>16
<1>21. ProbesAskForTheirNames'
  BY <1>18, <1>19 DEF ProbesAskForTheirNames
<1> QED
  BY <1>11, <1>14, <1>15, <1>16, <1>17, <1>19, <1>20, <1>21 DEF ProbeIInv

LEMMA SendLargeProbeStep ==
  ASSUME ProbeIInv, NEW n \in DOMAIN probes, NEW fits \in BOOLEAN, SendLargeProbe(n, fits)
  PROVE  ProbeIInv'
<1>0. PICK jobs \in Seq(ProbeJob) : jobs = probes /\ Waiting(jobs)
  BY DEF ProbeIInv, Waiting
<1>1. PICK rest : rest = RemoveAt(jobs, n)
  OBVIOUS
<1>2. PICK j \in ProbeJob : j = jobs[n]
  BY <1>0
<1>3. probes' = rest /\ probed' = probed \cup {j.record}
  BY <1>0, <1>1, <1>2 DEF SendLargeProbe
<1>4. /\ rest \in Seq(ProbeJob)
      /\ \A k \in DOMAIN rest : /\ k \in Nat /\ rest[k] = jobs[IF k < n THEN k ELSE k + 1]
                                /\ (IF k < n THEN k ELSE k + 1) \in DOMAIN jobs
  BY <1>0, <1>1, RemovedJob
<1>5. n \in Nat /\ n \in DOMAIN jobs
  BY <1>0
<1>6. \A k \in DOMAIN rest : ~rest[k].chosen /\ rest[k].record \notin probed /\ rest[k].record # j.record
  <2> TAKE k \in DOMAIN rest
  <2>1. PICK i \in DOMAIN jobs : rest[k] = jobs[i] /\ i = (IF k < n THEN k ELSE k + 1)
    BY <1>4
  <2>2. i # n
    BY <1>4, <1>5, <2>1
  <2> QED
    BY <1>0, <1>2, <1>5, <2>1, <2>2 DEF ProbeIInv, Waiting
<1>7. ASSUME NEW h \in DOMAIN rest, NEW k \in DOMAIN rest, rest[h].record = rest[k].record PROVE h = k
  <2>1. PICK a \in DOMAIN jobs : rest[h] = jobs[a] /\ a = (IF h < n THEN h ELSE h + 1)
    BY <1>4
  <2>2. PICK b \in DOMAIN jobs : rest[k] = jobs[b] /\ b = (IF k < n THEN k ELSE k + 1)
    BY <1>4
  <2>3. a = b
    BY <1>0, <1>7, <2>1, <2>2 DEF Waiting
  <2> QED
    BY <1>4, <1>5, <2>1, <2>2, <2>3
<1>8. Waiting(rest) /\ \A k \in DOMAIN rest : rest[k].record \notin probed \cup {j.record}
  BY <1>4, <1>6, <1>7 DEF Waiting
<1>9. j.record \in ProbeRecord
  BY DEF ProbeJob
<1>10. /\ packet'.questions \in Seq(Names) /\ packet'.records \in Seq(ProbeRecord)
       /\ ProbesAskForTheirNames'
  <2>1. CASE fits
    <3>1. PICK x \in Names : x = NameOf[j.record]
      BY <1>9 DEF Names
    <3>2. PICK r \in ProbeRecord : r = j.record
      BY <1>9
    <3>3. packet'.questions = <<x>> /\ packet'.records = <<r>>
      BY <1>0, <1>2, <2>1, <3>1, <3>2 DEF SendLargeProbe, JobName
    <3>4. x \in Range(<<x>>) /\ <<x>> \in Seq(Names) /\ <<r>> \in Seq(ProbeRecord) /\ \A k \in DOMAIN <<r>> : <<r>>[k] = r
      BY DEF Range
    <3>5. \A k \in DOMAIN packet'.records : packet'.records[k] = r
      BY <3>3, <3>4
    <3>6. x \in Range(packet'.questions) /\ NameOf[r] = x
      BY <3>1, <3>2, <3>3, <3>4
    <3> QED
      BY <3>3, <3>4, <3>5, <3>6 DEF ProbesAskForTheirNames
  <2>2. CASE ~fits
    <3>1. packet'.questions = <<>> /\ packet'.records = <<>>
      BY <2>2 DEF SendLargeProbe, NoPacket
    <3> QED
      BY <3>1 DEF ProbesAskForTheirNames
  <2> QED
    BY <2>1, <2>2
<1> QED
  BY <1>3, <1>8, <1>9, <1>10 DEF ProbeIInv

LEMMA ProbeStep == ProbeIInv /\ [ProbeNext]_probeVars => ProbeIInv'
<1> SUFFICES ASSUME ProbeIInv, [ProbeNext]_probeVars PROVE ProbeIInv'
  OBVIOUS
<1>1. CASE UNCHANGED probeVars
  BY <1>1 DEF probeVars, ProbeIInv, Waiting, ProbesAskForTheirNames
<1>2. ASSUME NEW n \in DOMAIN probes, ProbeElapse(n) PROVE ProbeIInv'
  <2>1. ASSUME NEW room \in 0..Room, NEW fit \in 0..Room, SendProbes(n, room, fit) PROVE ProbeIInv'
    <3>1. room \in Nat /\ fit \in Nat
      BY ProbeAssumption
    <3> QED
      BY <2>1, <3>1, SendProbesStep
  <2> QED
    BY <1>2, <2>1, SendLargeProbeStep DEF ProbeElapse
<1>3. ASSUME NEW r \in ProbeRecord, ForgetProbe(r) PROVE ProbeIInv'
  BY <1>3 DEF ForgetProbe, ProbeIInv, Waiting, ProbesAskForTheirNames
<1>4. CASE avahi_probe_scheduler_clear
  BY <1>4 DEF avahi_probe_scheduler_clear, ProbeIInv, Waiting, NoPacket, ProbesAskForTheirNames
<1>5. CASE ProbeTick
  <2>1. PICK jobs \in Seq(ProbeJob) : jobs = probes /\ Waiting(jobs)
    BY DEF ProbeIInv, Waiting
  <2>2. PICK t : t = [n \in DOMAIN jobs |-> [jobs[n] EXCEPT !.wait = @ - 1]]
    OBVIOUS
  <2>3. \A n \in DOMAIN jobs : t[n] \in ProbeJob /\ t[n].record = jobs[n].record /\ t[n].chosen = jobs[n].chosen
    <3> TAKE n \in DOMAIN jobs
    <3>1. PICK j \in ProbeJob : j = jobs[n]
      OBVIOUS
    <3>2. PICK w \in 0..1 : w = j.wait - 1
      BY <1>5, <2>1, <3>1 DEF ProbeTick, ProbeJob
    <3>3. t[n] = [j EXCEPT !.wait = w]
      BY <2>2, <3>1, <3>2
    <3> QED
      BY <3>1, <3>3 DEF ProbeJob
  <2>4. PICK l \in Nat : DOMAIN jobs = 1..l
    OBVIOUS
  <2>5. DOMAIN t = DOMAIN jobs /\ t = [n \in DOMAIN jobs |-> t[n]]
    BY <2>2
  <2>6. t \in Seq(ProbeJob)
    BY <2>3, <2>4, <2>5
  <2>7. probes' = t /\ probed' = probed /\ packet' = packet
    BY <1>5, <2>1, <2>2 DEF ProbeTick
  <2> QED
    BY <2>1, <2>3, <2>5, <2>6, <2>7 DEF ProbeIInv, Waiting, ProbesAskForTheirNames
<1> QED
  BY <1>1, <1>2, <1>3, <1>4, <1>5, ProbePostStep DEF ProbeNext

LEMMA ProbeInvariantSuffices == ProbeIInv => ProbeInv
<1> SUFFICES ASSUME ProbeIInv PROVE ProbeInv
  OBVIOUS
<1>1. ProbeTypeOK
  BY DEF ProbeIInv, Waiting, ProbeTypeOK, Names
<1>2. WaitingIsUnchosen
  BY DEF ProbeIInv, Waiting, WaitingIsUnchosen
<1>3. OneProbeEach
  BY DEF ProbeIInv, Waiting, OneProbeEach, ProbesFor
<1> QED
  BY <1>1, <1>2, <1>3 DEF ProbeInv, ProbeIInv

\* However probes are packed, probed for again and cut off by a packet that is full: a job
\* that waits is not chosen, a record has one job, and a packet asks for the name of every
\* record it carries.
THEOREM ProbesAreAsked == ProbeSpec => []ProbeInv
<1>1. ProbeSpec => []ProbeIInv
  BY ProbeStart, ProbeStep, PTL DEF ProbeSpec
<1> QED
  BY <1>1, ProbeInvariantSuffices, PTL
=============================================================================
