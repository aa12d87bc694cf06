------------------------------- MODULE Querier -------------------------------
(***************************************************************************)
(* Asking the network: multicast lookups, the queriers they share and the  *)
(* query scheduler of one interface (avahi-core/multicast-lookup.c,        *)
(* querier.c and query-sched.c).                                           *)
(*                                                                         *)
(* All lookups for a key share one querier, which asks at once and then    *)
(* at intervals that double.  A question is posted to the scheduler, which *)
(* sends it after 100 ms together with others, unless another host asks    *)
(* the same first.  The cache posts refresh queries to the same scheduler. *)
(* A lookup is told ALL_FOR_NOW a second after its querier was created.    *)
(*                                                                         *)
(* Time passes in units of 100 ms.  A time event runs in the instant it is *)
(* due.  Ids of posted queries are abstracted to whether the job they name *)
(* is still scheduled.  What the packets hold besides the questions is in  *)
(* module Cache (known answers).                                           *)
(***************************************************************************)
EXTENDS Naturals, FiniteSets

CONSTANTS QueryKey,    \* resource record keys
          Lookup,      \* identities of lookups; bounds how many exist at once
          QuerySecond, \* a second, in units
          MaxDelay,    \* the longest interval between queries (an hour in the code)
          MaxPosted    \* bound: posts of one query the cache adds to

ASSUME QuerierAssumption ==
  /\ IsFiniteSet(Lookup) /\ "none" \notin QueryKey
  /\ QuerySecond \in Nat /\ MaxDelay \in Nat /\ 1 < QuerySecond /\ QuerySecond <= MaxDelay
  /\ MaxPosted \in Nat

VARIABLES announcing,  \* i->announcing
          querier,     \* key -> its querier
          job,         \* key -> its scheduled query
          history,     \* key -> the query sent or seen last, if still remembered
          lookup,      \* lookup -> what it looks for
          asked        \* history: keys asked for since their querier was created

queryVars == <<announcing, querier, job, history, lookup, asked>>

AVAHI_QUERY_HISTORY == 1
AVAHI_QUERY_DEFER == 1

\* left: time until the time event; age: since creation_time, up to a second;
\* post: does post_id name a job that is still scheduled?
QuerierType == [exists : BOOLEAN, n_used : Nat, sec_delay : 0..MaxDelay,
                left : 0..MaxDelay, age : 0..QuerySecond, post : {"none", "job", "old"}]

NoQuerier == [exists |-> FALSE, n_used |-> 0, sec_delay |-> 0, left |-> 0, age |-> 0,
              post |-> "none"]

JobType == [exists : BOOLEAN, n_posted : Nat, left : 0..AVAHI_QUERY_DEFER]

\* job_new, for a query to send
job_new == [exists |-> TRUE, n_posted |-> 1, left |-> AVAHI_QUERY_DEFER]

\* job_free
NoJob == [exists |-> FALSE, n_posted |-> 0, left |-> 0]

HistoryType == [exists : BOOLEAN, left : 0..AVAHI_QUERY_HISTORY]

NoHistory == [exists |-> FALSE, left |-> 0]

Remembered == [exists |-> TRUE, left |-> AVAHI_QUERY_HISTORY]

\* armed: is all_for_now_event set, and in how much time is it due?  tied: the querier
\* the lookup was added to when it was made is still the one it uses.
LookupType == [key : QueryKey, armed : BOOLEAN, left : 0..QuerySecond, tied : BOOLEAN]
                \cup [key : {"none"}, armed : {FALSE}, left : {0}, tied : {FALSE}]

NoLookup == [key |-> "none", armed |-> FALSE, left |-> 0, tied |-> FALSE]

Users(k) == {l \in Lookup : lookup[l].key = k}

-----------------------------------------------------------------------------
(* The scheduler.                                                          *)

\* Does avahi_query_scheduler_post accept a query for k?
Accepts(k) == ~history[k].exists

find_scheduled_job(k) == job[k].exists

\* avahi_query_scheduler_post: a duplicate question joins the job that is scheduled.
Posted(k) ==
  IF ~Accepts(k) THEN job[k]
  ELSE IF find_scheduled_job(k) THEN [job[k] EXCEPT !.n_posted = @ + 1]
  ELSE job_new

\* avahi_query_scheduler_withdraw_by_id, for a query of k that is scheduled
Withdrawn(k) ==
  IF job[k].n_posted > 1 THEN [job[k] EXCEPT !.n_posted = @ - 1] ELSE NoJob

\* avahi_query_scheduler_clear
avahi_query_scheduler_clear ==
  /\ job' = [k \in QueryKey |-> NoJob]
  /\ history' = [k \in QueryKey |-> NoHistory]

\* job_mark_done for the keys in ks: moved to the history.
MarkDone(ks) ==
  /\ job' = [k \in QueryKey |-> IF k \in ks THEN NoJob ELSE job[k]]
  /\ history' = [k \in QueryKey |-> IF k \in ks THEN Remembered ELSE history[k]]
  /\ querier' = [k \in QueryKey |-> IF k \in ks /\ querier[k].post = "job"
                                    THEN [querier[k] EXCEPT !.post = "old"] ELSE querier[k]]
  /\ asked' = asked \cup ks

\* elapse_callback of a scheduled job: a packet with its question, filled up with the
\* questions of other jobs.
SendQueries(k) ==
  /\ job[k].exists /\ job[k].left = 0
  /\ \E more \in SUBSET {q \in QueryKey \ {k} : job[q].exists} : MarkDone(more \cup {k})
  /\ UNCHANGED <<announcing, lookup>>

\* elapse_callback of a job in the history
ForgetQuery(k) ==
  /\ history[k].exists /\ history[k].left = 0
  /\ history' = [history EXCEPT ![k] = NoHistory]
  /\ UNCHANGED <<announcing, querier, job, lookup, asked>>

\* avahi_query_scheduler_incoming: another host asked for k.
avahi_query_scheduler_incoming(k) ==
  /\ announcing
  /\ MarkDone({k})
  /\ UNCHANGED <<announcing, lookup>>

-----------------------------------------------------------------------------
(* The queriers.                                                           *)

\* A new querier for n lookups, whose first query is posted.
NewQuerier(k, n) ==
  [exists |-> TRUE, n_used |-> n, sec_delay |-> QuerySecond, left |-> QuerySecond, age |-> 0,
   post |-> IF Accepts(k) THEN "job" ELSE "none"]

\* Mutant: the querier of the key is found but not counted.
avahi_querier_add_uncounted(k) ==
  IF querier[k].exists THEN UNCHANGED <<querier, job, asked>>
  ELSE /\ querier' = [querier EXCEPT ![k] = NewQuerier(k, 1)]
       /\ job' = [job EXCEPT ![k] = Posted(k)]
       /\ asked' = IF Accepts(k) THEN asked \ {k} ELSE asked \cup {k}

\* avahi_querier_add.  A querier that nobody used is recycled as it is.
avahi_querier_add(k) ==
  IF querier[k].exists
  THEN /\ querier' = [querier EXCEPT ![k].n_used = @ + 1]
       /\ UNCHANGED <<job, asked>>
  ELSE /\ querier' = [querier EXCEPT ![k] = NewQuerier(k, 1)]
       /\ job' = [job EXCEPT ![k] = Posted(k)]
       /\ asked' = IF Accepts(k) THEN asked \ {k} ELSE asked \cup {k}

\* avahi_querier_add_for_all: only interfaces that announce take a querier.
avahi_querier_add_for_all(k) ==
  IF announcing THEN avahi_querier_add(k) ELSE UNCHANGED <<querier, job, asked>>

\* Mutant: the query is withdrawn while another lookup still uses the querier.
avahi_querier_remove_early(k) ==
  LET q == [querier[k] EXCEPT !.n_used = @ - 1]
  IN IF q.post = "job"
     THEN /\ job' = [job EXCEPT ![k] = Withdrawn(k)]
          /\ querier' = [querier EXCEPT ![k] = IF job'[k].exists \/ q.n_used > 0 THEN q
                                               ELSE NoQuerier]
     ELSE querier' = [querier EXCEPT ![k] = q] /\ UNCHANGED job

\* avahi_querier_remove.  The last user withdraws the query; a querier whose query is
\* sent already, or was posted by others too, stays until its next time event.
avahi_querier_remove(k) ==
  LET q == [querier[k] EXCEPT !.n_used = @ - 1]
  IN IF ~querier[k].exists \/ querier[k].n_used = 0 THEN UNCHANGED <<querier, job>>
     ELSE IF q.n_used = 0 /\ q.post = "job"
     THEN /\ job' = [job EXCEPT ![k] = Withdrawn(k)]
          /\ querier' = [querier EXCEPT ![k] = IF job'[k].exists THEN q ELSE NoQuerier]
     ELSE querier' = [querier EXCEPT ![k] = q] /\ UNCHANGED job

\* avahi_querier_remove_for_all
avahi_querier_remove_for_all(k) ==
  IF announcing THEN avahi_querier_remove(k) ELSE UNCHANGED <<querier, job>>

\* avahi_querier_free_all
avahi_querier_free_all == querier' = [k \in QueryKey |-> NoQuerier]

\* querier_elapse_callback: ask again, later each time; or go, if nobody uses it.
querier_elapse_callback(k) ==
  LET q == querier[k]
      delay == IF 2 * q.sec_delay >= MaxDelay THEN MaxDelay ELSE 2 * q.sec_delay
  IN
  /\ q.exists /\ q.left = 0
  /\ IF q.n_used = 0
     THEN querier' = [querier EXCEPT ![k] = NoQuerier] /\ UNCHANGED job
     ELSE /\ job' = [job EXCEPT ![k] = Posted(k)]
          /\ querier' = [querier EXCEPT ![k] =
                           [q EXCEPT !.sec_delay = delay, !.left = delay,
                                     !.post = IF Accepts(k) THEN "job" ELSE @]]
  /\ UNCHANGED <<announcing, history, lookup, asked>>

\* avahi_querier_shall_refresh_cache, called when a record of the cache expires, and
\* the refresh query of the cache.
RefreshCache(k) ==
  /\ querier[k].exists /\ job[k].n_posted < MaxPosted
  /\ IF querier[k].n_used = 0
     THEN querier' = [querier EXCEPT ![k] = NoQuerier] /\ UNCHANGED job
     ELSE /\ querier' = [querier EXCEPT ![k].left = querier[k].sec_delay]
          /\ job' = [job EXCEPT ![k] = Posted(k)]
  /\ UNCHANGED <<announcing, history, lookup, asked>>

-----------------------------------------------------------------------------
(* The lookups.                                                            *)

\* avahi_multicast_lookup_new, with avahi_querier_add_for_all.  Without an interface
\* the creation time is zero and ALL_FOR_NOW is due at once.
avahi_multicast_lookup_new(l, k) ==
  /\ lookup[l] = NoLookup
  /\ avahi_querier_add_for_all(k)
  /\ lookup' = [lookup EXCEPT ![l] =
                  [key |-> k, armed |-> TRUE, tied |-> announcing,
                   left |-> IF announcing THEN QuerySecond - querier'[k].age ELSE 0]]
  /\ UNCHANGED <<announcing, history>>

\* lookup_stop and lookup_destroy
lookup_stop(l) ==
  /\ avahi_querier_remove_for_all(lookup[l].key)
  /\ lookup' = [lookup EXCEPT ![l] = NoLookup]

\* avahi_multicast_lookup_free: the lookup is stopped at once; the dead lookup is
\* collected at the end of the event, and nobody sees it in between.
avahi_multicast_lookup_free(l) ==
  /\ lookup[l] # NoLookup
  /\ lookup_stop(l)
  /\ UNCHANGED <<announcing, history, asked>>

\* all_for_now_callback
all_for_now_callback(l) ==
  /\ lookup[l].armed /\ lookup[l].left = 0
  /\ lookup' = [lookup EXCEPT ![l].armed = FALSE]
  /\ UNCHANGED <<announcing, querier, job, history, asked>>

\* The interface became relevant: avahi_multicast_lookup_engine_new_interface.
avahi_multicast_lookup_engine_new_interface ==
  LET used == {k \in QueryKey : Users(k) # {}}
  IN
  /\ ~announcing
  /\ announcing' = TRUE
  /\ querier' = [k \in QueryKey |-> IF k \in used THEN NewQuerier(k, Cardinality(Users(k)))
                                             ELSE querier[k]]
  /\ job' = [k \in QueryKey |-> IF k \in used THEN Posted(k) ELSE job[k]]
  /\ asked' = asked \ used
  /\ UNCHANGED <<history, lookup>>

\* The interface is no longer relevant: queriers and jobs are freed.
InterfaceGone ==
  /\ announcing
  /\ announcing' = FALSE
  /\ avahi_querier_free_all
  /\ avahi_query_scheduler_clear
  /\ lookup' = [l \in Lookup |-> [lookup[l] EXCEPT !.tied = FALSE]]
  /\ asked' = {}

-----------------------------------------------------------------------------
Due == \/ \E k \in QueryKey : \/ job[k].exists /\ job[k].left = 0
                              \/ history[k].exists /\ history[k].left = 0
                              \/ querier[k].exists /\ querier[k].left = 0
       \/ \E l \in Lookup : lookup[l].armed /\ lookup[l].left = 0

QueryTick ==
  /\ ~Due
  /\ job' = [k \in QueryKey |-> IF job[k].exists THEN [job[k] EXCEPT !.left = @ - 1] ELSE job[k]]
  /\ history' = [k \in QueryKey |-> IF history[k].exists THEN [history[k] EXCEPT !.left = @ - 1]
                               ELSE history[k]]
  /\ querier' = [k \in QueryKey |-> IF ~querier[k].exists THEN querier[k]
                               ELSE [querier[k] EXCEPT !.left = @ - 1,
                                       !.age = IF @ < QuerySecond THEN @ + 1 ELSE @]]
  /\ lookup' = [l \in Lookup |-> IF lookup[l].armed THEN [lookup[l] EXCEPT !.left = @ - 1]
                                 ELSE lookup[l]]
  /\ UNCHANGED <<announcing, asked>>

QueryInit ==
  /\ announcing = FALSE
  /\ querier = [k \in QueryKey |-> NoQuerier]
  /\ job = [k \in QueryKey |-> NoJob]
  /\ history = [k \in QueryKey |-> NoHistory]
  /\ lookup = [l \in Lookup |-> NoLookup]
  /\ asked = {}

QueryNext ==
  \/ \E k \in QueryKey : \/ SendQueries(k) \/ ForgetQuery(k)
                         \/ avahi_query_scheduler_incoming(k)
                         \/ querier_elapse_callback(k) \/ RefreshCache(k)
  \/ \E l \in Lookup : \/ \E k \in QueryKey : avahi_multicast_lookup_new(l, k)
                       \/ avahi_multicast_lookup_free(l)
                       \/ all_for_now_callback(l)
  \/ avahi_multicast_lookup_engine_new_interface
  \/ InterfaceGone
  \/ QueryTick

QuerySpec == QueryInit /\ [][QueryNext]_queryVars

\* The time event queue runs what is due.
QueryDeadlines ==
  /\ \A k \in QueryKey : /\ WF_queryVars(SendQueries(k))
                         /\ WF_queryVars(ForgetQuery(k))
                         /\ WF_queryVars(querier_elapse_callback(k))
  /\ \A l \in Lookup : WF_queryVars(all_for_now_callback(l))

\* Time passes: no infinite number of calls happens in one instant.
QueryFairSpec == QuerySpec /\ []<><<QueryTick>>_queryVars /\ QueryDeadlines

-----------------------------------------------------------------------------
QueryTypeOK ==
  /\ announcing \in BOOLEAN
  /\ querier \in [QueryKey -> QuerierType]
  /\ job \in [QueryKey -> JobType]
  /\ history \in [QueryKey -> HistoryType]
  /\ lookup \in [Lookup -> LookupType]
  /\ asked \subseteq QueryKey

\* n_used counts the lookups, whatever the order in which lookups come and go, queriers
\* are recycled and interfaces appear: no querier asks for ever in nobody's name, and
\* none is freed that is in use.
UsersAreCounted ==
  \A k \in QueryKey : querier[k].n_used = IF announcing THEN Cardinality(Users(k)) ELSE 0

\* ALL_FOR_NOW means something: when it is due, the question has been on the network
\* since the querier was created, asked by us or by another host.
AllForNowMeansAsked ==
  \A l \in Lookup : lookup[l].armed /\ lookup[l].left = 0 /\ lookup[l].tied
                      => lookup[l].key \in asked

\* A scheduled query that somebody wants is sent, or another host asked for it: it is
\* never withdrawn while a lookup uses the key, although post_id can outlive the post it
\* was given for and withdraw the post of the cache.
WantedQueriesAreSent ==
  [][\A k \in QueryKey : job[k].exists /\ ~job'[k].exists /\ ~history'[k].exists
                      => ~announcing' \/ Users(k)' = {}]_queryVars

\* A lookup that stays is asked for again and again, also one that was given a querier
\* nobody had used for a while.
LookupsKeepAsking ==
  \A k \in QueryKey : <>[](announcing /\ Users(k) # {})
                   => []<>(history[k].exists /\ history[k].left = AVAHI_QUERY_HISTORY)

\* Sharing queriers goes unnoticed by the lookups: none loses its querier to another one, and
\* the end of the answers is told only after the question went out.
QueryInv == QueryTypeOK /\ UsersAreCounted /\ AllForNowMeansAsked
=============================================================================
