--------------------------- MODULE QuerierProofs ---------------------------
(***************************************************************************)
(* Proofs about the shared queriers and the query scheduler of an          *)
(* interface, for any keys, any finite number of lookups and any delays.   *)
(*                                                                         *)
(* That ALL_FOR_NOW comes after the question was on the network is         *)
(* inductive together with where the time event of a lookup stands (as far *)
(* from a second as its querier is old) and with what becomes of the first *)
(* query of a querier (it is scheduled until it is sent or overheard).     *)
(***************************************************************************)
EXTENDS Querier, FiniteSetTheorems, TLAPS

\* The first query of a querier is scheduled until it was sent or overheard.
FirstQueryScheduled ==
  \A k \in QueryKey : querier[k].exists /\ k \notin asked
                        => /\ querier[k].post = "job" /\ job[k].exists
                           /\ job[k].left + querier[k].age <= AVAHI_QUERY_DEFER

\* A lookup is told a second after its querier was created.
TiedToQuerier ==
  \A l \in Lookup : lookup[l].armed /\ lookup[l].tied
                      => /\ announcing
                         /\ lookup[l].left = QuerySecond - querier[lookup[l].key].age

\* What is in use exists.
UsedExist == \A k \in QueryKey : querier[k].n_used > 0 => querier[k].exists

\* Nothing is scheduled or remembered for an interface that does not announce.
QuietWhenGone ==
  ~announcing => \A k \in QueryKey : /\ querier[k] = NoQuerier
                                     /\ job[k] = NoJob
                                     /\ history[k] = NoHistory

IInv ==
  /\ QueryTypeOK
  /\ UsersAreCounted
  /\ FirstQueryScheduled
  /\ TiedToQuerier
  /\ UsedExist
  /\ QuietWhenGone

-----------------------------------------------------------------------------
(* Counting the lookups of a key.                                          *)

\* Sets of lookups are finite.
LEMMA LookupsFinite ==
  ASSUME NEW S \in SUBSET Lookup
  PROVE  IsFiniteSet(S) /\ Cardinality(S) \in Nat /\ (Cardinality(S) = 0 <=> S = {})
BY QuerierAssumption, FS_Subset, FS_CardinalityType, FS_EmptySet

\* A lookup more: avahi_querier_add counts one up.
LEMMA OneMore ==
  ASSUME NEW S \in SUBSET Lookup, NEW l \in Lookup, l \notin S
  PROVE  Cardinality(S \cup {l}) = Cardinality(S) + 1
BY LookupsFinite, FS_AddElement

\* A lookup less: avahi_querier_remove counts one down.
LEMMA OneLess ==
  ASSUME NEW S \in SUBSET Lookup, NEW l \in S
  PROVE  Cardinality(S \ {l}) = Cardinality(S) - 1 /\ Cardinality(S) > 0
<1>1. IsFiniteSet(S) /\ Cardinality(S) \in Nat /\ Cardinality(S) # 0
  BY LookupsFinite
<1>2. Cardinality(S \ {l}) = Cardinality(S) - 1
  BY <1>1, FS_RemoveElement
<1> QED
  BY <1>1, <1>2

-----------------------------------------------------------------------------
(* The operators on jobs and queriers.                                     *)

\* The records of a key are well typed.
LEMMA TypesOf ==
  ASSUME QueryTypeOK, NEW k \in QueryKey
  PROVE  /\ querier[k] \in QuerierType
         /\ job[k] \in JobType
         /\ history[k] \in HistoryType
BY DEF QueryTypeOK

\* Records that stand for no querier, job or history are well typed.
LEMMA NothingTyped ==
  /\ NoQuerier \in QuerierType
  /\ NoJob \in JobType
  /\ NoHistory \in HistoryType /\ Remembered \in HistoryType
BY QuerierAssumption DEF NoQuerier, NoJob, NoHistory, Remembered, QuerierType, JobType,
   HistoryType, AVAHI_QUERY_DEFER, AVAHI_QUERY_HISTORY

\* Posting a query never removes or delays a job, and makes one if the query is accepted.
LEMMA PostedOK ==
  ASSUME QueryTypeOK, NEW k \in QueryKey
  PROVE  /\ Posted(k) \in JobType
         /\ job[k].exists => Posted(k).exists /\ Posted(k).left = job[k].left
         /\ Accepts(k) => Posted(k).exists
<1>1. job[k] \in JobType
  BY TypesOf
<1>2. job_new \in JobType /\ job_new.exists
  BY DEF job_new, JobType, AVAHI_QUERY_DEFER
<1>3. /\ [job[k] EXCEPT !.n_posted = @ + 1] \in JobType
      /\ [job[k] EXCEPT !.n_posted = @ + 1].exists = job[k].exists
      /\ [job[k] EXCEPT !.n_posted = @ + 1].left = job[k].left
  BY <1>1 DEF JobType
<1>4. CASE ~Accepts(k)
  BY <1>1, <1>4 DEF Posted
<1>5. CASE Accepts(k) /\ job[k].exists
  BY <1>3, <1>5 DEF Posted, find_scheduled_job
<1>6. CASE Accepts(k) /\ ~job[k].exists
  BY <1>2, <1>6 DEF Posted, find_scheduled_job
<1> QED
  BY <1>4, <1>5, <1>6

\* Withdrawing a post removes the job or leaves it scheduled for the same time.
LEMMA WithdrawnOK ==
  ASSUME QueryTypeOK, NEW k \in QueryKey
  PROVE  /\ Withdrawn(k) \in JobType
         /\ Withdrawn(k).exists => job[k].exists /\ Withdrawn(k).left = job[k].left
<1>1. job[k] \in JobType
  BY TypesOf
<1>2. CASE job[k].n_posted > 1
  <2>1. Withdrawn(k) = [job[k] EXCEPT !.n_posted = @ - 1]
    BY <1>2 DEF Withdrawn
  <2> QED
    BY <1>1, <1>2, <2>1 DEF JobType
<1>3. CASE ~(job[k].n_posted > 1)
  <2>1. Withdrawn(k) = NoJob
    BY <1>3 DEF Withdrawn
  <2> QED
    BY <2>1, NothingTyped DEF NoJob
<1> QED
  BY <1>2, <1>3

\* A new querier is well typed, brand new, and its query is posted if it is accepted.
LEMMA NewQuerierOK ==
  ASSUME NEW k \in QueryKey, NEW n \in Nat
  PROVE  /\ NewQuerier(k, n) \in QuerierType
         /\ NewQuerier(k, n).exists /\ NewQuerier(k, n).n_used = n
         /\ NewQuerier(k, n).age = 0
         /\ Accepts(k) => NewQuerier(k, n).post = "job"
<1>1. PICK p \in {"none", "job"} :
        /\ NewQuerier(k, n) = [exists |-> TRUE, n_used |-> n, sec_delay |-> QuerySecond,
                               left |-> QuerySecond, age |-> 0, post |-> p]
        /\ Accepts(k) => p = "job"
  BY DEF NewQuerier
<1>2. /\ QuerySecond \in 0..MaxDelay /\ 0 \in 0..QuerySecond
  BY QuerierAssumption
<1>3. NewQuerier(k, n) \in QuerierType
  BY <1>1, <1>2 DEF QuerierType
<1> QED
  BY <1>1, <1>3

-----------------------------------------------------------------------------
(* The steps.                                                              *)

\* A querier of a key is in use while a lookup of the key exists.
LEMMA UserCounts ==
  ASSUME IInv, announcing, NEW l \in Lookup, lookup[l].key \in QueryKey
  PROVE  querier[lookup[l].key].n_used > 0
<1> DEFINE k == lookup[l].key
<1>1. Users(k) \in SUBSET Lookup /\ l \in Users(k)
  BY DEF Users
<1>2. Cardinality(Users(k)) \in Nat /\ Cardinality(Users(k)) # 0
  BY <1>1, LookupsFinite
<1> QED
  BY <1>2 DEF IInv, UsersAreCounted

\* Lookups that stay as they are stay counted, and stay tied to queriers of the same age.
LEMMA LookupsKept ==
  ASSUME IInv, UNCHANGED <<announcing, lookup>>,
         \A k \in QueryKey : querier'[k].n_used > 0 =>
                               querier'[k].age = querier[k].age /\ querier'[k].exists,
         \A k \in QueryKey : querier'[k].n_used = querier[k].n_used
  PROVE  UsersAreCounted' /\ TiedToQuerier' /\ UsedExist'
<1>1. \A k \in QueryKey : Users(k)' = Users(k)
  BY DEF Users
<1>2. UsersAreCounted'
  BY <1>1 DEF IInv, UsersAreCounted
<1>3. UsedExist'
  BY DEF UsedExist
<1>4. TiedToQuerier'
  <2> SUFFICES ASSUME NEW l \in Lookup, lookup'[l].armed, lookup'[l].tied
               PROVE  announcing' /\ lookup'[l].left = QuerySecond - querier'[lookup'[l].key].age
    BY DEF TiedToQuerier
  <2> DEFINE k == lookup[l].key
  <2>1. /\ lookup[l].armed /\ lookup[l].tied /\ announcing
        /\ lookup[l].left = QuerySecond - querier[k].age
    BY DEF IInv, TiedToQuerier
  <2>2. k \in QueryKey
    BY <2>1 DEF IInv, QueryTypeOK, LookupType
  <2>3. querier[k].n_used > 0
    BY <2>1, <2>2, UserCounts
  <2> QED
    BY <2>1, <2>2, <2>3
<1> QED
  BY <1>2, <1>3, <1>4

\* job_mark_done: the queries of ks are sent, or another host sent them.
LEMMA MarkDoneStep ==
  ASSUME IInv, announcing, NEW ks \in SUBSET QueryKey, MarkDone(ks),
         UNCHANGED <<announcing, lookup>>
  PROVE  IInv'
<1>1. \A k \in QueryKey :
        /\ querier'[k] \in QuerierType
        /\ querier'[k].n_used = querier[k].n_used /\ querier'[k].exists = querier[k].exists
        /\ querier'[k].age = querier[k].age
        /\ k \notin ks => querier'[k].post = querier[k].post
  <2> SUFFICES ASSUME NEW k \in QueryKey
               PROVE  /\ querier'[k] \in QuerierType
                      /\ querier'[k].n_used = querier[k].n_used
                      /\ querier'[k].exists = querier[k].exists
                      /\ querier'[k].age = querier[k].age
                      /\ k \notin ks => querier'[k].post = querier[k].post
    OBVIOUS
  <2>1. querier[k] \in QuerierType
    BY TypesOf DEF IInv
  <2>2. \/ querier'[k] = querier[k]
        \/ k \in ks /\ querier'[k] = [querier[k] EXCEPT !.post = "old"]
    BY DEF MarkDone
  <2> QED
    BY <2>1, <2>2 DEF QuerierType
<1>2. QueryTypeOK'
  <2>1. querier' \in [QueryKey -> QuerierType]
    BY <1>1 DEF MarkDone
  <2>2. job' \in [QueryKey -> JobType] /\ history' \in [QueryKey -> HistoryType]
    BY NothingTyped DEF IInv, QueryTypeOK, MarkDone
  <2>3. asked' \subseteq QueryKey
    BY DEF IInv, QueryTypeOK, MarkDone
  <2> QED
    BY <2>1, <2>2, <2>3 DEF IInv, QueryTypeOK
<1>3. UsersAreCounted' /\ TiedToQuerier' /\ UsedExist'
  BY <1>1, LookupsKept DEF IInv, UsedExist
<1>4. FirstQueryScheduled'
  BY <1>1 DEF IInv, FirstQueryScheduled, MarkDone
<1>5. QuietWhenGone'
  BY DEF QuietWhenGone
<1> QED
  BY <1>2, <1>3, <1>4, <1>5 DEF IInv

\* A job that is due is sent with others.
LEMMA SendQueriesStep ==
  ASSUME IInv, NEW k \in QueryKey, SendQueries(k)
  PROVE  IInv'
<1>1. PICK more \in SUBSET {q \in QueryKey \ {k} : job[q].exists} : MarkDone(more \cup {k})
  BY DEF SendQueries
<1>2. announcing
  BY DEF SendQueries, IInv, QueryTypeOK, QuietWhenGone, NoJob
<1>3. UNCHANGED <<announcing, lookup>> /\ more \cup {k} \in SUBSET QueryKey
  BY DEF SendQueries
<1> QED
  BY <1>1, <1>2, <1>3, MarkDoneStep

\* Another host asks for k.
LEMMA IncomingStep ==
  ASSUME IInv, NEW k \in QueryKey, avahi_query_scheduler_incoming(k)
  PROVE  IInv'
<1>1. {k} \in SUBSET QueryKey
  OBVIOUS
<1> QED
  BY <1>1, MarkDoneStep DEF avahi_query_scheduler_incoming

\* The history forgets a query.
LEMMA ForgetQueryStep ==
  ASSUME IInv, NEW k \in QueryKey, ForgetQuery(k)
  PROVE  IInv'
<1> USE DEF ForgetQuery
<1>1. QueryTypeOK'
  BY NothingTyped DEF IInv, QueryTypeOK
<1>2. UsersAreCounted' /\ TiedToQuerier' /\ UsedExist'
  BY LookupsKept DEF IInv, UsedExist
<1>3. FirstQueryScheduled'
  BY DEF IInv, FirstQueryScheduled
<1>4. QuietWhenGone'
  BY DEF IInv, QueryTypeOK, QuietWhenGone
<1> QED
  BY <1>1, <1>2, <1>3, <1>4 DEF IInv

\* The time event of a querier: it asks again, or goes if nobody uses it.
LEMMA ElapseStep ==
  ASSUME IInv, NEW k \in QueryKey, querier_elapse_callback(k)
  PROVE  IInv'
<1> DEFINE q == querier[k]
           delay == IF 2 * q.sec_delay >= MaxDelay THEN MaxDelay ELSE 2 * q.sec_delay
<1>1. /\ q \in QuerierType /\ q.exists
      /\ UNCHANGED <<announcing, history, lookup, asked>>
  BY TypesOf DEF IInv, querier_elapse_callback
<1>2. announcing
  BY <1>1 DEF IInv, QueryTypeOK, QuietWhenGone, NoQuerier
<1>3. CASE q.n_used = 0
  <2>1. querier' = [querier EXCEPT ![k] = NoQuerier] /\ job' = job
    BY <1>3 DEF querier_elapse_callback
  <2>2. QueryTypeOK'
    BY <1>1, <2>1, NothingTyped DEF IInv, QueryTypeOK
  <2>3. \A p \in QueryKey : /\ querier'[p].n_used = querier[p].n_used
                            /\ querier'[p].n_used > 0 => querier'[p].age = querier[p].age
                                                         /\ querier'[p].exists
                            /\ querier'[p].exists => querier'[p] = querier[p]
    BY <1>3, <2>1 DEF IInv, QueryTypeOK, NoQuerier, UsedExist
  <2>4. UsersAreCounted' /\ TiedToQuerier' /\ UsedExist'
    BY <1>1, <2>3, LookupsKept
  <2>5. FirstQueryScheduled'
    BY <1>1, <2>1, <2>3 DEF IInv, FirstQueryScheduled
  <2>6. QuietWhenGone'
    BY <1>1, <1>2 DEF QuietWhenGone
  <2> QED
    BY <2>2, <2>4, <2>5, <2>6 DEF IInv
<1>4. CASE q.n_used # 0
  <2>1. PICK post \in {"none", "job", "old"} :
          /\ querier' = [querier EXCEPT ![k] = [q EXCEPT !.sec_delay = delay, !.left = delay,
                                                         !.post = post]]
          /\ post = q.post \/ post = "job"
    <3>1. q.post \in {"none", "job", "old"}
      BY <1>1 DEF QuerierType
    <3>2. CASE Accepts(k)
      BY <1>4, <3>2 DEF querier_elapse_callback
    <3>3. CASE ~Accepts(k)
      BY <1>4, <3>1, <3>3 DEF querier_elapse_callback
    <3> QED
      BY <3>2, <3>3
  <2>2. job' = [job EXCEPT ![k] = Posted(k)]
    BY <1>4 DEF querier_elapse_callback
  <2>3. delay \in 0..MaxDelay
    BY <1>1, QuerierAssumption DEF QuerierType
  <2> HIDE DEF delay
  <2>4. \A p \in QueryKey : /\ querier'[p] \in QuerierType
                            /\ querier'[p].n_used = querier[p].n_used
                            /\ querier'[p].age = querier[p].age
                            /\ querier'[p].exists = querier[p].exists
                            /\ querier[p].post = "job" => querier'[p].post = "job"
    BY <1>1, <2>1, <2>3 DEF IInv, QueryTypeOK, QuerierType
  <2>5. \A p \in QueryKey : /\ job'[p] \in JobType
                            /\ job[p].exists => job'[p].exists /\ job'[p].left = job[p].left
    BY <2>2, PostedOK DEF IInv, QueryTypeOK
  <2>6. QueryTypeOK'
    <3>1. querier' \in [QueryKey -> QuerierType] /\ job' \in [QueryKey -> JobType]
      BY <2>1, <2>2, <2>4, <2>5 DEF IInv, QueryTypeOK
    <3> QED
      BY <1>1, <3>1 DEF IInv, QueryTypeOK
  <2>7. UsersAreCounted' /\ TiedToQuerier' /\ UsedExist'
    BY <1>1, <2>4, LookupsKept DEF IInv, UsedExist
  <2>8. FirstQueryScheduled'
    BY <1>1, <2>4, <2>5 DEF IInv, FirstQueryScheduled
  <2>9. QuietWhenGone'
    BY <1>1, <1>2 DEF QuietWhenGone
  <2> QED
    BY <2>6, <2>7, <2>8, <2>9 DEF IInv
<1> QED
  BY <1>3, <1>4

\* A refresh query of the cache, which brings the next query of the querier forward.
LEMMA RefreshCacheStep ==
  ASSUME IInv, NEW k \in QueryKey, RefreshCache(k)
  PROVE  IInv'
<1> DEFINE q == querier[k]
<1>1. /\ q \in QuerierType /\ q.exists
      /\ UNCHANGED <<announcing, history, lookup, asked>>
  BY TypesOf DEF IInv, RefreshCache
<1>2. announcing
  BY <1>1 DEF IInv, QueryTypeOK, QuietWhenGone, NoQuerier
<1>3. CASE q.n_used = 0
  <2>1. querier' = [querier EXCEPT ![k] = NoQuerier] /\ job' = job
    BY <1>3 DEF RefreshCache
  <2>2. QueryTypeOK'
    BY <1>1, <2>1, NothingTyped DEF IInv, QueryTypeOK
  <2>3. \A p \in QueryKey : /\ querier'[p].n_used = querier[p].n_used
                            /\ querier'[p].n_used > 0 => querier'[p].age = querier[p].age
                                                         /\ querier'[p].exists
                            /\ querier'[p].exists => querier'[p] = querier[p]
    BY <1>3, <2>1 DEF IInv, QueryTypeOK, NoQuerier, UsedExist
  <2>4. UsersAreCounted' /\ TiedToQuerier' /\ UsedExist'
    BY <1>1, <2>3, LookupsKept
  <2>5. FirstQueryScheduled'
    BY <1>1, <2>1, <2>3 DEF IInv, FirstQueryScheduled
  <2>6. QuietWhenGone'
    BY <1>1, <1>2 DEF QuietWhenGone
  <2> QED
    BY <2>2, <2>4, <2>5, <2>6 DEF IInv
<1>4. CASE q.n_used # 0
  <2>1. /\ querier' = [querier EXCEPT ![k].left = querier[k].sec_delay]
        /\ job' = [job EXCEPT ![k] = Posted(k)]
    BY <1>4 DEF RefreshCache
  <2>2. \A p \in QueryKey : /\ querier'[p] \in QuerierType
                            /\ querier'[p].n_used = querier[p].n_used
                            /\ querier'[p].age = querier[p].age
                            /\ querier'[p].exists = querier[p].exists
                            /\ querier'[p].post = querier[p].post
    BY <1>1, <2>1 DEF IInv, QueryTypeOK, QuerierType
  <2>3. \A p \in QueryKey : /\ job'[p] \in JobType
                            /\ job[p].exists => job'[p].exists /\ job'[p].left = job[p].left
    BY <2>1, PostedOK DEF IInv, QueryTypeOK
  <2>4. QueryTypeOK'
    <3>1. querier' \in [QueryKey -> QuerierType] /\ job' \in [QueryKey -> JobType]
      BY <2>1, <2>2, <2>3 DEF IInv, QueryTypeOK
    <3> QED
      BY <1>1, <3>1 DEF IInv, QueryTypeOK
  <2>5. UsersAreCounted' /\ TiedToQuerier' /\ UsedExist'
    BY <1>1, <2>2, LookupsKept DEF IInv, UsedExist
  <2>6. FirstQueryScheduled'
    BY <1>1, <2>2, <2>3 DEF IInv, FirstQueryScheduled
  <2>7. QuietWhenGone'
    BY <1>1, <1>2 DEF QuietWhenGone
  <2> QED
    BY <2>4, <2>5, <2>6, <2>7 DEF IInv
<1> QED
  BY <1>3, <1>4

\* avahi_querier_add counts one user more, and leaves a querier that is in use as old as
\* it is.
LEMMA AddOK ==
  ASSUME IInv, NEW k \in QueryKey, avahi_querier_add(k)
  PROVE  /\ querier' \in [QueryKey -> QuerierType]
         /\ job' \in [QueryKey -> JobType]
         /\ asked' \subseteq QueryKey
         /\ \A p \in QueryKey \ {k} : querier'[p] = querier[p]
         /\ querier'[k].n_used = querier[k].n_used + 1 /\ querier'[k].exists
         /\ querier[k].n_used > 0 => querier'[k].age = querier[k].age
         /\ FirstQueryScheduled'
<1>1. querier[k] \in QuerierType
  BY TypesOf DEF IInv
<1>2. CASE querier[k].exists
  <2>1. /\ querier' = [querier EXCEPT ![k].n_used = @ + 1]
        /\ UNCHANGED <<job, asked>>
    BY <1>2 DEF avahi_querier_add
  <2>2. \A p \in QueryKey : /\ querier'[p] \in QuerierType
                            /\ querier'[p].exists = querier[p].exists
                            /\ querier'[p].age = querier[p].age
                            /\ querier'[p].post = querier[p].post
                            /\ querier'[p].n_used = IF p = k THEN querier[p].n_used + 1
                                                             ELSE querier[p].n_used
                            /\ p # k => querier'[p] = querier[p]
    BY <1>1, <2>1 DEF IInv, QueryTypeOK, QuerierType
  <2>3. FirstQueryScheduled'
    BY <2>1, <2>2 DEF IInv, FirstQueryScheduled
  <2>4. querier' \in [QueryKey -> QuerierType]
    BY <2>1, <2>2 DEF IInv, QueryTypeOK
  <2> QED
    BY <1>2, <2>1, <2>2, <2>3, <2>4 DEF IInv, QueryTypeOK
<1>3. CASE ~querier[k].exists
  <2>1. /\ querier' = [querier EXCEPT ![k] = NewQuerier(k, 1)]
        /\ job' = [job EXCEPT ![k] = Posted(k)]
        /\ asked' = IF Accepts(k) THEN asked \ {k} ELSE asked \cup {k}
    BY <1>3 DEF avahi_querier_add
  <2>2. querier[k].n_used = 0
    BY <1>1, <1>3 DEF IInv, UsedExist, QuerierType
  <2>3. /\ querier' \in [QueryKey -> QuerierType] /\ job' \in [QueryKey -> JobType]
        /\ asked' \subseteq QueryKey
    BY <2>1, NewQuerierOK, PostedOK DEF IInv, QueryTypeOK
  <2>4. /\ querier'[k] = NewQuerier(k, 1) /\ job'[k] = Posted(k)
        /\ \A p \in QueryKey \ {k} : querier'[p] = querier[p] /\ job'[p] = job[p]
    BY <2>1 DEF IInv, QueryTypeOK
  <2>5. FirstQueryScheduled'
    <3> SUFFICES ASSUME NEW p \in QueryKey, querier'[p].exists, p \notin asked'
                 PROVE  /\ querier'[p].post = "job" /\ job'[p].exists
                        /\ job'[p].left + querier'[p].age <= AVAHI_QUERY_DEFER
      BY DEF FirstQueryScheduled
    <3>1. CASE p = k
      <4>1. Accepts(k)
        BY <2>1, <3>1
      <4>2. /\ querier'[k].post = "job" /\ querier'[k].age = 0
            /\ job'[k].exists /\ job'[k] \in JobType
        BY <2>4, <4>1, NewQuerierOK, PostedOK DEF IInv
      <4> QED
        BY <3>1, <4>2 DEF JobType, AVAHI_QUERY_DEFER
    <3>2. CASE p # k
      <4>1. p \notin asked
        BY <2>1, <3>2
      <4> QED
        BY <2>4, <3>2, <4>1 DEF IInv, FirstQueryScheduled
    <3> QED
      BY <3>1, <3>2
  <2> QED
    BY <2>2, <2>3, <2>4, <2>5, NewQuerierOK
<1> QED
  BY <1>2, <1>3

\* A lookup is made: it joins the querier of its key.
LEMMA LookupNewStep ==
  ASSUME IInv, NEW l \in Lookup, NEW k \in QueryKey, avahi_multicast_lookup_new(l, k)
  PROVE  IInv'
<1> DEFINE new == [key |-> k, armed |-> TRUE, tied |-> announcing,
                   left |-> IF announcing THEN QuerySecond - querier'[k].age ELSE 0]
<1>1. /\ lookup' = [lookup EXCEPT ![l] = new]
      /\ lookup[l] = NoLookup
      /\ UNCHANGED <<announcing, history>>
  BY DEF avahi_multicast_lookup_new
<1>2. CASE ~announcing
  <2>1. UNCHANGED <<querier, job, asked>>
    BY <1>2 DEF avahi_multicast_lookup_new, avahi_querier_add_for_all
  <2>2. new = [key |-> k, armed |-> TRUE, tied |-> FALSE, left |-> 0]
    BY <1>2 DEF IInv, QueryTypeOK
  <2> HIDE DEF new
  <2>3. new \in LookupType
    <3>1. 0 \in 0..QuerySecond
      BY QuerierAssumption
    <3> QED
      BY <2>2, <3>1 DEF LookupType
  <2>4. QueryTypeOK'
    BY <1>1, <2>1, <2>3 DEF IInv, QueryTypeOK
  <2>5. TiedToQuerier'
    BY <1>1, <2>1, <2>2 DEF IInv, QueryTypeOK, TiedToQuerier
  <2> QED
    BY <1>1, <1>2, <2>1, <2>4, <2>5
    DEF IInv, UsersAreCounted, FirstQueryScheduled, UsedExist, QuietWhenGone
<1>3. CASE announcing
  <2>1. avahi_querier_add(k)
    BY <1>3 DEF avahi_multicast_lookup_new, avahi_querier_add_for_all
  <2>2. querier'[k] \in QuerierType
    BY <2>1, AddOK
  <2>3. new = [key |-> k, armed |-> TRUE, tied |-> TRUE, left |-> QuerySecond - querier'[k].age]
    BY <1>3 DEF IInv, QueryTypeOK
  <2>4. new \in LookupType
    <3>1. QuerySecond - querier'[k].age \in 0..QuerySecond
      BY <2>2, QuerierAssumption DEF QuerierType
    <3> QED
      BY <2>3, <3>1 DEF LookupType
  <2> HIDE DEF new
  <2>5. QueryTypeOK'
    BY <1>1, <2>1, <2>4, AddOK DEF IInv, QueryTypeOK
  <2>6. \A p \in QueryKey : Users(p)' = IF p = k THEN Users(p) \cup {l} ELSE Users(p)
    <3>1. lookup[l].key \notin QueryKey
      BY <1>1, QuerierAssumption DEF NoLookup
    <3>2. \A m \in Lookup : lookup'[m].key = IF m = l THEN k ELSE lookup[m].key
      BY <1>1, <2>3 DEF IInv, QueryTypeOK
    <3> QED
      BY <3>1, <3>2 DEF Users
  <2>7. l \notin Users(k)
    BY <1>1, QuerierAssumption DEF Users, NoLookup
  <2>8. UsersAreCounted'
    <3> SUFFICES ASSUME NEW p \in QueryKey
                 PROVE  querier'[p].n_used = Cardinality(Users(p)')
      BY <1>1, <1>3 DEF UsersAreCounted
    <3>1. querier[p].n_used = Cardinality(Users(p))
      BY <1>3 DEF IInv, UsersAreCounted
    <3>2. CASE p = k
      <4>1. Users(k) \in SUBSET Lookup
        BY DEF Users
      <4>2. Cardinality(Users(k)') = Cardinality(Users(k)) + 1
        BY <2>6, <2>7, <4>1, OneMore
      <4> QED
        BY <2>1, <3>1, <3>2, <4>2, AddOK
    <3>3. CASE p # k
      BY <2>1, <2>6, <3>1, <3>3, AddOK
    <3> QED
      BY <3>2, <3>3
  <2>9. UsedExist'
    BY <2>1, AddOK DEF IInv, UsedExist
  <2>10. TiedToQuerier'
    <3> SUFFICES ASSUME NEW m \in Lookup, lookup'[m].armed, lookup'[m].tied
                 PROVE  lookup'[m].left = QuerySecond - querier'[lookup'[m].key].age
      BY <1>1, <1>3 DEF TiedToQuerier
    <3>1. CASE m = l
      <4>1. lookup'[m] = new
        BY <1>1, <3>1 DEF IInv, QueryTypeOK
      <4> QED
        BY <2>3, <4>1
    <3>2. CASE m # l
      <4>1. lookup'[m] = lookup[m]
        BY <1>1, <3>2 DEF IInv, QueryTypeOK
      <4>2. /\ lookup[m].key \in QueryKey
            /\ lookup[m].left = QuerySecond - querier[lookup[m].key].age
        BY <4>1 DEF IInv, QueryTypeOK, LookupType, TiedToQuerier
      <4>3. lookup[m].key = k => querier[k].n_used > 0
        BY <1>3, <4>2, UserCounts
      <4> QED
        BY <2>1, <4>1, <4>2, <4>3, AddOK
    <3> QED
      BY <3>1, <3>2
  <2>11. QuietWhenGone'
    BY <1>1, <1>3 DEF QuietWhenGone
  <2> QED
    BY <2>1, <2>5, <2>8, <2>9, <2>10, <2>11, AddOK DEF IInv
<1> QED
  BY <1>2, <1>3

\* The last user of a querier takes its query along, if it is not sent yet and nobody
\* else posted it.
LEMMA RemoveOK ==
  ASSUME IInv, NEW k \in QueryKey, querier[k].n_used > 0, avahi_querier_remove(k)
  PROVE  /\ querier' \in [QueryKey -> QuerierType]
         /\ job' \in [QueryKey -> JobType]
         /\ \A p \in QueryKey \ {k} : querier'[p] = querier[p] /\ job'[p] = job[p]
         /\ querier'[k].n_used = querier[k].n_used - 1
         /\ querier'[k].n_used > 0 => /\ querier'[k].age = querier[k].age
                                      /\ querier'[k].exists
         /\ job[k].exists /\ ~job'[k].exists => querier'[k].n_used = 0
         /\ querier'[k].exists /\ k \notin asked =>
              /\ querier'[k].post = "job" /\ job'[k].exists
              /\ job'[k].left + querier'[k].age <= AVAHI_QUERY_DEFER
<1> DEFINE q == [querier[k] EXCEPT !.n_used = @ - 1]
<1>1. querier[k] \in QuerierType /\ querier[k].exists
  BY TypesOf DEF IInv, UsedExist
<1>2. /\ q \in QuerierType /\ q.n_used = querier[k].n_used - 1
      /\ q.exists /\ q.age = querier[k].age /\ q.post = querier[k].post
  BY <1>1 DEF QuerierType
<1>3. CASE q.n_used = 0 /\ q.post = "job"
  <2>1. /\ job' = [job EXCEPT ![k] = Withdrawn(k)]
        /\ querier' = [querier EXCEPT ![k] = IF job'[k].exists THEN q ELSE NoQuerier]
    BY <1>1, <1>2, <1>3 DEF avahi_querier_remove, QuerierType
  <2> HIDE DEF q
  <2>2. /\ job' \in [QueryKey -> JobType] /\ querier' \in [QueryKey -> QuerierType]
        /\ \A p \in QueryKey \ {k} : querier'[p] = querier[p] /\ job'[p] = job[p]
    BY <1>2, <2>1, WithdrawnOK, NothingTyped DEF IInv, QueryTypeOK
  <2>3. /\ querier'[k] = IF job'[k].exists THEN q ELSE NoQuerier
        /\ job'[k] = Withdrawn(k)
    BY <2>1 DEF IInv, QueryTypeOK
  <2>4. CASE job'[k].exists
    <3>1. job[k].exists /\ job'[k].left = job[k].left
      BY <2>3, <2>4, WithdrawnOK DEF IInv
    <3> QED
      BY <1>1, <1>2, <2>2, <2>3, <2>4, <3>1 DEF IInv, FirstQueryScheduled
  <2>5. CASE ~job'[k].exists
    <3>1. querier'[k].n_used = 0 /\ ~querier'[k].exists
      BY <2>3, <2>5 DEF NoQuerier
    <3>2. querier'[k].n_used = querier[k].n_used - 1
      BY <1>2, <1>3, <3>1, Zenon
    <3>3. ~(querier'[k].n_used > 0)
      BY <3>1
    <3> HIDE DEF AVAHI_QUERY_DEFER
    <3> QED
      BY <2>2, <3>1, <3>2, <3>3, Zenon
  <2> QED
    BY <2>4, <2>5
<1>4. CASE ~(q.n_used = 0 /\ q.post = "job")
  <2>1. querier' = [querier EXCEPT ![k] = q] /\ job' = job
    BY <1>1, <1>4 DEF avahi_querier_remove, QuerierType
  <2> HIDE DEF q
  <2> QED
    BY <1>1, <1>2, <2>1 DEF IInv, QueryTypeOK, FirstQueryScheduled
<1> QED
  BY <1>3, <1>4

\* A lookup that is freed has a key, and its key loses one user.
LEMMA UsersLeft ==
  ASSUME IInv, NEW l \in Lookup, lookup[l] # NoLookup,
         lookup' = [lookup EXCEPT ![l] = NoLookup]
  PROVE  /\ lookup[l].key \in QueryKey
         /\ \A p \in QueryKey : Users(p)' = IF p = lookup[l].key THEN Users(p) \ {l} ELSE Users(p)
         /\ \A m \in Lookup \ {l} : lookup'[m] = lookup[m]
         /\ lookup'[l] = NoLookup
<1>1. lookup[l] \in LookupType
  BY DEF IInv, QueryTypeOK
<1>2. lookup[l].key \in QueryKey
  BY <1>1 DEF LookupType, NoLookup
<1>3. /\ \A m \in Lookup \ {l} : lookup'[m] = lookup[m]
      /\ lookup'[l] = NoLookup
  BY DEF IInv, QueryTypeOK
<1>4. NoLookup.key \notin QueryKey
  BY QuerierAssumption DEF NoLookup
<1>5. ASSUME NEW p \in QueryKey
      PROVE  Users(p)' = IF p = lookup[l].key THEN Users(p) \ {l} ELSE Users(p)
  BY <1>3, <1>4 DEF Users
<1> QED
  BY <1>2, <1>3, <1>5

\* A lookup is freed: it leaves the querier of its key.
LEMMA LookupFreeStep ==
  ASSUME IInv, NEW l \in Lookup, avahi_multicast_lookup_free(l)
  PROVE  IInv'
<1>0. /\ lookup[l] # NoLookup
      /\ lookup' = [lookup EXCEPT ![l] = NoLookup]
  BY DEF avahi_multicast_lookup_free, lookup_stop
<1> PICK k \in QueryKey : k = lookup[l].key
  BY <1>0, UsersLeft
<1>1. /\ avahi_querier_remove_for_all(k)
      /\ UNCHANGED <<announcing, history, asked>>
  BY DEF avahi_multicast_lookup_free, lookup_stop
<1>2. /\ k \in QueryKey
      /\ \A p \in QueryKey : Users(p)' = IF p = k THEN Users(p) \ {l} ELSE Users(p)
      /\ \A m \in Lookup \ {l} : lookup'[m] = lookup[m]
      /\ lookup'[l] = NoLookup
  BY <1>0, UsersLeft
<1>3. lookup' \in [Lookup -> LookupType]
  <2>1. 0 \in 0..QuerySecond
    BY QuerierAssumption
  <2>2. NoLookup \in LookupType
    BY <2>1 DEF NoLookup, LookupType
  <2> QED
    BY <1>0, <2>2 DEF IInv, QueryTypeOK
<1>4. CASE ~announcing
  <2>1. UNCHANGED <<querier, job>>
    BY <1>1, <1>4 DEF avahi_querier_remove_for_all
  <2>2. TiedToQuerier'
    BY <1>1, <1>2, <2>1 DEF IInv, TiedToQuerier, NoLookup
  <2> QED
    BY <1>1, <1>3, <1>4, <2>1, <2>2
    DEF IInv, QueryTypeOK, UsersAreCounted, FirstQueryScheduled, UsedExist, QuietWhenGone
<1>5. CASE announcing
  <2>1. querier[k].n_used > 0 /\ avahi_querier_remove(k)
    BY <1>1, <1>2, <1>5, UserCounts DEF avahi_querier_remove_for_all
  <2>2. QueryTypeOK'
    BY <1>1, <1>2, <1>3, <2>1, RemoveOK DEF IInv, QueryTypeOK
  <2>3. UsersAreCounted'
    <3> SUFFICES ASSUME NEW p \in QueryKey
                 PROVE  querier'[p].n_used = Cardinality(Users(p)')
      BY <1>1, <1>5 DEF UsersAreCounted
    <3>1. querier[p].n_used = Cardinality(Users(p))
      BY <1>5 DEF IInv, UsersAreCounted
    <3>2. CASE p = k
      <4>1. Users(k) \in SUBSET Lookup /\ l \in Users(k)
        BY DEF Users
      <4>2. Cardinality(Users(k)') = Cardinality(Users(k)) - 1
        BY <1>2, <4>1, OneLess
      <4> QED
        BY <1>2, <2>1, <3>1, <3>2, <4>2, RemoveOK
    <3>3. CASE p # k
      BY <1>2, <2>1, <3>1, <3>3, RemoveOK
    <3> QED
      BY <3>2, <3>3
  <2>4. UsedExist'
    BY <1>2, <2>1, RemoveOK DEF IInv, UsedExist
  <2>5. FirstQueryScheduled'
    BY <1>1, <1>2, <2>1, RemoveOK DEF IInv, FirstQueryScheduled
  <2>6. TiedToQuerier'
    <3> SUFFICES ASSUME NEW m \in Lookup, lookup'[m].armed, lookup'[m].tied
                 PROVE  lookup'[m].left = QuerySecond - querier'[lookup'[m].key].age
      BY <1>1, <1>5 DEF TiedToQuerier
    <3>1. m # l /\ lookup'[m] = lookup[m]
      BY <1>2 DEF NoLookup
    <3>2. /\ lookup[m].key \in QueryKey
          /\ lookup[m].left = QuerySecond - querier[lookup[m].key].age
      BY <3>1 DEF IInv, QueryTypeOK, LookupType, TiedToQuerier
    <3>3. CASE lookup[m].key = k
      <4>1. m \in Users(k)' /\ Users(k)' \in SUBSET Lookup
        BY <3>1, <3>3, <1>2 DEF Users
      <4>2. Cardinality(Users(k)') \in Nat /\ Cardinality(Users(k)') # 0
        BY <4>1, LookupsFinite
      <4>3. querier'[k].n_used > 0
        BY <1>1, <1>2, <1>5, <2>3, <4>2 DEF UsersAreCounted
      <4> QED
        BY <1>2, <2>1, <3>1, <3>2, <3>3, <4>3, RemoveOK
    <3>4. CASE lookup[m].key # k
      BY <1>2, <2>1, <3>1, <3>2, <3>4, RemoveOK
    <3> QED
      BY <3>3, <3>4
  <2>7. QuietWhenGone'
    BY <1>1, <1>5 DEF QuietWhenGone
  <2> QED
    BY <2>2, <2>3, <2>4, <2>5, <2>6, <2>7 DEF IInv
<1> QED
  BY <1>4, <1>5

\* A lookup is told ALL_FOR_NOW.
LEMMA AllForNowStep ==
  ASSUME IInv, NEW l \in Lookup, all_for_now_callback(l)
  PROVE  IInv'
<1>1. /\ lookup[l].armed /\ lookup' = [lookup EXCEPT ![l].armed = FALSE]
      /\ UNCHANGED <<announcing, querier, job, history, asked>>
  BY DEF all_for_now_callback
<1>2. /\ lookup' \in [Lookup -> LookupType]
      /\ \A m \in Lookup : /\ lookup'[m].key = lookup[m].key
                           /\ lookup'[m].armed => lookup'[m] = lookup[m]
  <2>1. lookup[l] \in LookupType
    BY DEF IInv, QueryTypeOK
  <2>2. /\ [lookup[l] EXCEPT !.armed = FALSE] \in LookupType
        /\ [lookup[l] EXCEPT !.armed = FALSE].key = lookup[l].key
        /\ [lookup[l] EXCEPT !.armed = FALSE].armed = FALSE
    BY <1>1, <2>1 DEF LookupType
  <2> QED
    BY <1>1, <2>2 DEF IInv, QueryTypeOK
<1>3. \A k \in QueryKey : Users(k)' = Users(k)
  BY <1>2 DEF Users
<1>4. TiedToQuerier'
  BY <1>1, <1>2 DEF IInv, TiedToQuerier
<1> QED
  BY <1>1, <1>2, <1>3, <1>4
  DEF IInv, QueryTypeOK, UsersAreCounted, FirstQueryScheduled, UsedExist, QuietWhenGone

\* The interface appears: the lookups that exist get queriers, counted at once.
LEMMA NewInterfaceStep ==
  ASSUME IInv, avahi_multicast_lookup_engine_new_interface
  PROVE  IInv'
<1> DEFINE used == {k \in QueryKey : Users(k) # {}}
<1>1. /\ ~announcing /\ announcing' = TRUE
      /\ querier' = [k \in QueryKey |-> IF k \in used THEN NewQuerier(k, Cardinality(Users(k)))
                                                      ELSE querier[k]]
      /\ job' = [k \in QueryKey |-> IF k \in used THEN Posted(k) ELSE job[k]]
      /\ asked' = asked \ used
      /\ UNCHANGED <<history, lookup>>
  BY DEF avahi_multicast_lookup_engine_new_interface
<1>2. \A k \in QueryKey : /\ querier[k] = NoQuerier /\ job[k] = NoJob /\ history[k] = NoHistory
                          /\ Accepts(k)
  BY <1>1 DEF IInv, QuietWhenGone, Accepts, NoHistory
<1>3. \A k \in QueryKey : /\ Users(k)' = Users(k)
                          /\ Cardinality(Users(k)) \in Nat
                          /\ Cardinality(Users(k)) = 0 <=> k \notin used
  <2> TAKE k \in QueryKey
  <2>1. Users(k) \in SUBSET Lookup
    BY DEF Users
  <2> QED
    BY <1>1, <2>1, LookupsFinite DEF Users
<1> HIDE DEF used
<1>4. \A k \in QueryKey :
        /\ querier'[k] \in QuerierType /\ job'[k] \in JobType
        /\ querier'[k].n_used = Cardinality(Users(k))
        /\ querier'[k].exists <=> k \in used
        /\ k \in used => /\ querier'[k].post = "job" /\ querier'[k].age = 0
                         /\ job'[k].exists
  <2> TAKE k \in QueryKey
  <2>1. CASE k \in used
    BY <1>1, <1>2, <1>3, <2>1, NewQuerierOK, PostedOK DEF IInv
  <2>2. CASE k \notin used
    BY <1>1, <1>2, <1>3, <2>2, NothingTyped DEF NoQuerier
  <2> QED
    BY <2>1, <2>2
<1>5. QueryTypeOK'
  <2>1. querier' \in [QueryKey -> QuerierType] /\ job' \in [QueryKey -> JobType]
    BY <1>1, <1>4
  <2> QED
    BY <1>1, <2>1 DEF IInv, QueryTypeOK
<1>6. UsersAreCounted'
  BY <1>1, <1>3, <1>4 DEF UsersAreCounted
<1>7. UsedExist'
  BY <1>3, <1>4 DEF UsedExist
<1>8. FirstQueryScheduled'
  BY <1>4 DEF FirstQueryScheduled, JobType, AVAHI_QUERY_DEFER
<1>9. TiedToQuerier'
  BY <1>1 DEF IInv, TiedToQuerier
<1>10. QuietWhenGone'
  BY <1>1 DEF QuietWhenGone
<1> QED
  BY <1>5, <1>6, <1>7, <1>8, <1>9, <1>10 DEF IInv

\* The interface goes: everything is freed, and the lookups are on their own.
LEMMA InterfaceGoneStep ==
  ASSUME IInv, InterfaceGone
  PROVE  IInv'
<1>1. /\ announcing' = FALSE /\ asked' = {}
      /\ querier' = [k \in QueryKey |-> NoQuerier]
      /\ job' = [k \in QueryKey |-> NoJob]
      /\ history' = [k \in QueryKey |-> NoHistory]
      /\ lookup' = [l \in Lookup |-> [lookup[l] EXCEPT !.tied = FALSE]]
  BY DEF InterfaceGone, avahi_querier_free_all, avahi_query_scheduler_clear
<1>2. \A l \in Lookup : lookup'[l] \in LookupType /\ lookup'[l].tied = FALSE
  <2> TAKE l \in Lookup
  <2>1. lookup[l] \in LookupType
    BY DEF IInv, QueryTypeOK
  <2> QED
    BY <1>1, <2>1 DEF LookupType
<1>3. QueryTypeOK'
  BY <1>1, <1>2, NothingTyped DEF QueryTypeOK
<1>4. TiedToQuerier'
  BY <1>2 DEF TiedToQuerier
<1> QED
  BY <1>1, <1>3, <1>4
  DEF IInv, UsersAreCounted, FirstQueryScheduled, UsedExist, QuietWhenGone, NoQuerier

\* Time passes: nothing was due.
LEMMA TickStep ==
  ASSUME IInv, QueryTick
  PROVE  IInv'
<1>1. /\ ~Due
      /\ job' = [k \in QueryKey |-> IF job[k].exists THEN [job[k] EXCEPT !.left = @ - 1]
                                                     ELSE job[k]]
      /\ history' = [k \in QueryKey |-> IF history[k].exists
                                        THEN [history[k] EXCEPT !.left = @ - 1] ELSE history[k]]
      /\ querier' = [k \in QueryKey |->
                       IF ~querier[k].exists THEN querier[k]
                       ELSE [querier[k] EXCEPT !.left = @ - 1,
                                               !.age = IF @ < QuerySecond THEN @ + 1 ELSE @]]
      /\ lookup' = [l \in Lookup |-> IF lookup[l].armed THEN [lookup[l] EXCEPT !.left = @ - 1]
                                                        ELSE lookup[l]]
      /\ UNCHANGED <<announcing, asked>>
  BY DEF QueryTick
<1>2. \A k \in QueryKey :
        /\ job'[k] \in JobType
        /\ job'[k].exists = job[k].exists
        /\ job[k].exists => job'[k].left = job[k].left - 1
        /\ ~job[k].exists => job'[k] = job[k]
  <2> TAKE k \in QueryKey
  <2>1. job[k] \in JobType /\ (job[k].exists => job[k].left # 0)
    BY <1>1, TypesOf DEF IInv, Due
  <2>2. CASE ~job[k].exists
    BY <1>1, <2>1, <2>2
  <2>3. CASE job[k].exists
    <3>1. job'[k] = [job[k] EXCEPT !.left = job[k].left - 1]
      BY <1>1, <2>3
    <3>2. job[k].left - 1 \in 0..AVAHI_QUERY_DEFER
      BY <2>1, <2>3 DEF JobType, AVAHI_QUERY_DEFER
    <3> QED
      BY <2>1, <2>3, <3>1, <3>2 DEF JobType
  <2> QED
    BY <2>2, <2>3
<1>3. \A k \in QueryKey : /\ history'[k] \in HistoryType
                          /\ ~history[k].exists => history'[k] = history[k]
  <2> TAKE k \in QueryKey
  <2>1. history[k] \in HistoryType /\ (history[k].exists => history[k].left # 0)
    BY <1>1, TypesOf DEF IInv, Due
  <2>2. CASE ~history[k].exists
    BY <1>1, <2>1, <2>2
  <2>3. CASE history[k].exists
    <3>1. history'[k] = [history[k] EXCEPT !.left = history[k].left - 1]
      BY <1>1, <2>3
    <3>2. history[k].left - 1 \in 0..AVAHI_QUERY_HISTORY
      BY <2>1, <2>3 DEF HistoryType, AVAHI_QUERY_HISTORY
    <3> QED
      BY <2>1, <2>3, <3>1, <3>2 DEF HistoryType
  <2> QED
    BY <2>2, <2>3
<1>4. \A k \in QueryKey :
        /\ querier'[k] \in QuerierType
        /\ querier'[k].exists = querier[k].exists /\ querier'[k].post = querier[k].post
        /\ querier'[k].n_used = querier[k].n_used
        /\ querier[k].exists =>
             querier'[k].age = IF querier[k].age < QuerySecond THEN querier[k].age + 1
                                                               ELSE querier[k].age
        /\ ~querier[k].exists => querier'[k] = querier[k]
  <2> TAKE k \in QueryKey
  <2>1. querier[k] \in QuerierType /\ (querier[k].exists => querier[k].left # 0)
    BY <1>1, TypesOf DEF IInv, Due
  <2>2. CASE ~querier[k].exists
    BY <1>1, <2>1, <2>2
  <2>3. CASE querier[k].exists
    <3> DEFINE age == IF querier[k].age < QuerySecond THEN querier[k].age + 1
                                                      ELSE querier[k].age
    <3>1. querier'[k] = [querier[k] EXCEPT !.left = querier[k].left - 1, !.age = age]
      BY <1>1, <2>3
    <3>2. age \in 0..QuerySecond /\ querier[k].left - 1 \in 0..MaxDelay
      BY <2>1, <2>3, QuerierAssumption DEF QuerierType
    <3>3. querier'[k].age = age
      BY <2>1, <3>1 DEF QuerierType
    <3>4. querier'[k] \in QuerierType
      <4> HIDE DEF age
      <4> QED
        BY <2>1, <3>1, <3>2 DEF QuerierType
    <3>5. /\ querier'[k].exists = querier[k].exists /\ querier'[k].post = querier[k].post
          /\ querier'[k].n_used = querier[k].n_used
      BY <2>1, <3>1 DEF QuerierType
    <3> QED
      BY <2>3, <3>3, <3>4, <3>5
  <2> QED
    BY <2>2, <2>3
<1>5. \A l \in Lookup :
        /\ lookup'[l] \in LookupType
        /\ lookup'[l].key = lookup[l].key /\ lookup'[l].armed = lookup[l].armed
        /\ lookup'[l].tied = lookup[l].tied
        /\ lookup[l].armed => lookup[l].left # 0 /\ lookup'[l].left = lookup[l].left - 1
  <2> TAKE l \in Lookup
  <2>1. lookup[l] \in LookupType /\ (lookup[l].armed => lookup[l].left # 0)
    BY <1>1 DEF IInv, QueryTypeOK, Due
  <2>2. CASE ~lookup[l].armed
    BY <1>1, <2>1, <2>2
  <2>3. CASE lookup[l].armed
    <3>1. lookup[l] \in [key : QueryKey, armed : BOOLEAN, left : 0..QuerySecond, tied : BOOLEAN]
      BY <2>1, <2>3 DEF LookupType
    <3>2. lookup'[l] = [lookup[l] EXCEPT !.left = lookup[l].left - 1]
      BY <1>1, <2>3
    <3>3. lookup[l].left - 1 \in 0..QuerySecond
      BY <2>1, <2>3, <3>1, QuerierAssumption
    <3> QED
      BY <2>1, <2>3, <3>1, <3>2, <3>3 DEF LookupType
  <2> QED
    BY <2>2, <2>3
<1>6. QueryTypeOK'
  <2>1. /\ querier' \in [QueryKey -> QuerierType] /\ job' \in [QueryKey -> JobType]
        /\ history' \in [QueryKey -> HistoryType]
    BY <1>1, <1>2, <1>3, <1>4
  <2>2. lookup' \in [Lookup -> LookupType]
    BY <1>1, <1>5
  <2> QED
    BY <1>1, <2>1, <2>2 DEF IInv, QueryTypeOK
<1>7. UsersAreCounted'
  <2>1. \A k \in QueryKey : Users(k)' = Users(k)
    BY <1>5 DEF Users
  <2> QED
    BY <1>1, <1>4, <2>1 DEF IInv, UsersAreCounted
<1>8. UsedExist'
  BY <1>4 DEF IInv, UsedExist
<1>9. FirstQueryScheduled'
  <2> SUFFICES ASSUME NEW k \in QueryKey, querier'[k].exists, k \notin asked'
               PROVE  /\ querier'[k].post = "job" /\ job'[k].exists
                      /\ job'[k].left + querier'[k].age <= AVAHI_QUERY_DEFER
    BY DEF FirstQueryScheduled
  <2>1. /\ querier[k].post = "job" /\ job[k].exists
        /\ job[k].left + querier[k].age <= AVAHI_QUERY_DEFER
    BY <1>1, <1>4 DEF IInv, FirstQueryScheduled
  <2>2. querier[k] \in QuerierType /\ job[k] \in JobType
    BY TypesOf DEF IInv
  <2>3. /\ querier'[k].age <= querier[k].age + 1 /\ querier'[k].age \in Nat
        /\ job'[k].left = job[k].left - 1
    BY <1>2, <1>4, <2>1, <2>2, QuerierAssumption DEF QuerierType
  <2> QED
    BY <1>2, <1>4, <2>1, <2>2, <2>3, QuerierAssumption
    DEF QuerierType, JobType, AVAHI_QUERY_DEFER
<1>10. TiedToQuerier'
  <2> SUFFICES ASSUME NEW l \in Lookup, lookup'[l].armed, lookup'[l].tied
               PROVE  /\ announcing
                      /\ lookup'[l].left = QuerySecond - querier'[lookup[l].key].age
    BY <1>1, <1>5 DEF TiedToQuerier
  <2>1. /\ lookup[l].armed /\ announcing /\ lookup[l].left # 0
        /\ lookup[l].left = QuerySecond - querier[lookup[l].key].age
        /\ lookup'[l].left = lookup[l].left - 1
    BY <1>5 DEF IInv, TiedToQuerier
  <2>2. lookup[l].key \in QueryKey
    BY <2>1 DEF IInv, QueryTypeOK, LookupType
  <2>3. querier[lookup[l].key].exists /\ querier[lookup[l].key] \in QuerierType
    BY <2>1, <2>2, UserCounts, TypesOf DEF IInv, UsedExist
  <2>4. querier[lookup[l].key].age < QuerySecond
    BY <2>1, <2>3, QuerierAssumption DEF QuerierType
  <2>5. querier'[lookup[l].key].age = querier[lookup[l].key].age + 1
    BY <1>4, <2>2, <2>3, <2>4
  <2> QED
    BY <2>1, <2>3, <2>5, QuerierAssumption DEF QuerierType
<1>11. QuietWhenGone'
  <2>1. ~NoQuerier.exists /\ ~NoJob.exists /\ ~NoHistory.exists
    BY DEF NoJob, NoHistory, NoQuerier
  <2>2. ~announcing => \A k \in QueryKey : /\ querier[k] = NoQuerier /\ job[k] = NoJob
                                           /\ history[k] = NoHistory
    BY DEF IInv, QuietWhenGone
  <2>3. ~announcing => \A k \in QueryKey : /\ querier'[k] = NoQuerier /\ job'[k] = NoJob
                                           /\ history'[k] = NoHistory
    BY <1>2, <1>3, <1>4, <2>1, <2>2
  <2> QED
    BY <1>1, <2>3 DEF QuietWhenGone
<1> QED
  BY <1>6, <1>7, <1>8, <1>9, <1>10, <1>11 DEF IInv

-----------------------------------------------------------------------------
(* The invariant and what follows from it.                                 *)

\* Nothing is asked for and no interface announces when the engine starts.
LEMMA InitOK == QueryInit => IInv
<1> SUFFICES ASSUME QueryInit PROVE IInv
  OBVIOUS
<1>1. \A k \in QueryKey : Users(k) = {}
  BY QuerierAssumption DEF QueryInit, Users, NoLookup
<1>2. QueryTypeOK
  <2>1. 0 \in 0..QuerySecond
    BY QuerierAssumption
  <2>2. NoLookup \in LookupType
    BY <2>1 DEF NoLookup, LookupType
  <2> QED
    BY <2>2, NothingTyped DEF QueryInit, QueryTypeOK
<1>3. UsersAreCounted
  BY DEF QueryInit, UsersAreCounted, NoQuerier
<1>4. FirstQueryScheduled /\ UsedExist /\ QuietWhenGone
  BY DEF QueryInit, FirstQueryScheduled, UsedExist, QuietWhenGone, NoQuerier
<1>5. TiedToQuerier
  BY DEF QueryInit, TiedToQuerier, NoLookup
<1> QED
  BY <1>2, <1>3, <1>4, <1>5 DEF IInv

\* Every step keeps the invariant.
LEMMA StepOK == IInv /\ [QueryNext]_queryVars => IInv'
<1> SUFFICES ASSUME IInv, [QueryNext]_queryVars PROVE IInv'
  OBVIOUS
<1>1. ASSUME NEW k \in QueryKey, SendQueries(k) PROVE IInv'
  BY <1>1, SendQueriesStep
<1>2. ASSUME NEW k \in QueryKey, ForgetQuery(k) PROVE IInv'
  BY <1>2, ForgetQueryStep
<1>3. ASSUME NEW k \in QueryKey, avahi_query_scheduler_incoming(k) PROVE IInv'
  BY <1>3, IncomingStep
<1>4. ASSUME NEW k \in QueryKey, querier_elapse_callback(k) PROVE IInv'
  BY <1>4, ElapseStep
<1>5. ASSUME NEW k \in QueryKey, RefreshCache(k) PROVE IInv'
  BY <1>5, RefreshCacheStep
<1>6. ASSUME NEW l \in Lookup, NEW k \in QueryKey, avahi_multicast_lookup_new(l, k) PROVE IInv'
  BY <1>6, LookupNewStep
<1>7. ASSUME NEW l \in Lookup, avahi_multicast_lookup_free(l) PROVE IInv'
  BY <1>7, LookupFreeStep
<1>8. ASSUME NEW l \in Lookup, all_for_now_callback(l) PROVE IInv'
  BY <1>8, AllForNowStep
<1>9. CASE avahi_multicast_lookup_engine_new_interface
  BY <1>9, NewInterfaceStep
<1>10. CASE InterfaceGone
  BY <1>10, InterfaceGoneStep
<1>11. CASE QueryTick
  BY <1>11, TickStep
<1>12. CASE UNCHANGED queryVars
  <2>1. \A k \in QueryKey : Users(k)' = Users(k)
    BY <1>12 DEF queryVars, Users
  <2> QED
    BY <1>12, <2>1 DEF queryVars, IInv, QueryTypeOK, UsersAreCounted, FirstQueryScheduled,
                       TiedToQuerier, UsedExist, QuietWhenGone
<1> QED
  BY <1>1, <1>2, <1>3, <1>4, <1>5, <1>6, <1>7, <1>8, <1>9, <1>10, <1>11, <1>12 DEF QueryNext

\* The inductive invariant holds throughout.
THEOREM QuerierInductive == QuerySpec => []IInv
BY InitOK, StepOK, PTL DEF QuerySpec

\* When ALL_FOR_NOW is due a second has passed since the querier was created, and the
\* query that was scheduled then is no longer waiting: it was sent or overheard.
LEMMA DueAfterAsking == IInv => AllForNowMeansAsked
<1> SUFFICES ASSUME IInv, NEW l \in Lookup,
                    lookup[l].armed, lookup[l].left = 0, lookup[l].tied
             PROVE  lookup[l].key \in asked
  BY DEF AllForNowMeansAsked
<1> DEFINE k == lookup[l].key
<1>1. announcing /\ 0 = QuerySecond - querier[k].age
  BY DEF IInv, TiedToQuerier
<1>2. k \in QueryKey
  BY DEF IInv, QueryTypeOK, LookupType
<1>3. /\ querier[k].exists
      /\ querier[k] \in QuerierType /\ job[k] \in JobType
  BY <1>1, <1>2, UserCounts, TypesOf DEF IInv, UsedExist
<1>4. querier[k].age > AVAHI_QUERY_DEFER /\ job[k].left >= 0
  BY <1>1, <1>3, QuerierAssumption DEF QuerierType, JobType, AVAHI_QUERY_DEFER
<1>5. ~(job[k].left + querier[k].age <= AVAHI_QUERY_DEFER)
  BY <1>3, <1>4 DEF QuerierType, JobType, AVAHI_QUERY_DEFER
<1> QED
  BY <1>2, <1>3, <1>5 DEF IInv, FirstQueryScheduled

\* Sharing queriers goes unnoticed by the lookups (n_used in avahi_querier_add and
\* avahi_querier_remove, all_for_now_callback): each querier counts exactly the lookups of
\* its key, and ALL_FOR_NOW is due only after the question was on the network.
THEOREM QueriersAreShared == QuerySpec => []QueryInv
<1>1. IInv => QueryInv
  BY DueAfterAsking DEF IInv, QueryInv
<1> QED
  BY <1>1, QuerierInductive, PTL

\* A scheduled query leaves the schedule for the history, with the interface, or with its
\* last user.
LEMMA JobEnds ==
  ASSUME IInv, IInv', QueryNext, NEW k \in QueryKey,
         job[k].exists, ~job'[k].exists, ~history'[k].exists
  PROVE  ~announcing' \/ Users(k)' = {}
<1>1. ASSUME NEW ks \in SUBSET QueryKey, MarkDone(ks) PROVE FALSE
  BY <1>1 DEF MarkDone, Remembered
<1>2. ASSUME NEW p \in QueryKey,
             UNCHANGED job \/ job' = [job EXCEPT ![p] = Posted(p)]
      PROVE  FALSE
  BY <1>2, PostedOK DEF IInv, QueryTypeOK
<1>3. ASSUME NEW p \in QueryKey, SendQueries(p) PROVE FALSE
  <2>1. PICK more \in SUBSET {q \in QueryKey \ {p} : job[q].exists} : MarkDone(more \cup {p})
    BY <1>3 DEF SendQueries
  <2>2. more \cup {p} \in SUBSET QueryKey
    OBVIOUS
  <2> QED
    BY <1>1, <2>1, <2>2
<1>4. ASSUME NEW p \in QueryKey, avahi_query_scheduler_incoming(p) PROVE FALSE
  <2>1. {p} \in SUBSET QueryKey
    OBVIOUS
  <2> QED
    BY <1>1, <1>4, <2>1 DEF avahi_query_scheduler_incoming
<1>5. ASSUME NEW p \in QueryKey,
             ForgetQuery(p) \/ querier_elapse_callback(p) \/ RefreshCache(p)
      PROVE  FALSE
  BY <1>2, <1>5 DEF ForgetQuery, querier_elapse_callback, RefreshCache
<1>6. ASSUME NEW l \in Lookup, NEW p \in QueryKey, avahi_multicast_lookup_new(l, p)
      PROVE  FALSE
  BY <1>2, <1>6 DEF avahi_multicast_lookup_new, avahi_querier_add_for_all, avahi_querier_add
<1>7. ASSUME NEW l \in Lookup, avahi_multicast_lookup_free(l)
      PROVE  ~announcing' \/ Users(k)' = {}
  <2>1. /\ lookup[l] # NoLookup
        /\ lookup' = [lookup EXCEPT ![l] = NoLookup]
        /\ avahi_querier_remove_for_all(lookup[l].key)
        /\ UNCHANGED announcing
    BY <1>7 DEF avahi_multicast_lookup_free, lookup_stop
  <2>2. PICK p \in QueryKey : p = lookup[l].key
    BY <2>1, UsersLeft
  <2>3. announcing
    BY DEF IInv, QueryTypeOK, QuietWhenGone, NoJob
  <2>4. avahi_querier_remove(p) /\ querier[p].n_used > 0
    BY <2>1, <2>2, <2>3, UserCounts DEF avahi_querier_remove_for_all
  <2>5. k = p
    BY <2>4, RemoveOK
  <2>6. querier'[k].n_used = 0
    BY <2>4, <2>5, RemoveOK
  <2>7. announcing'
    BY <2>1, <2>3
  <2>8. Users(k)' \in SUBSET Lookup
    BY DEF Users
  <2>9. Cardinality(Users(k)') = 0
    BY <2>6, <2>7 DEF IInv, UsersAreCounted
  <2> QED
    BY <2>8, <2>9, LookupsFinite
<1>8. ASSUME NEW l \in Lookup, all_for_now_callback(l) PROVE FALSE
  BY <1>8 DEF all_for_now_callback
<1>9. CASE avahi_multicast_lookup_engine_new_interface
  BY <1>9, PostedOK DEF avahi_multicast_lookup_engine_new_interface, IInv
<1>10. CASE InterfaceGone
  BY <1>10 DEF InterfaceGone
<1>11. CASE QueryTick
  <2>1. job[k] \in JobType
    BY TypesOf DEF IInv
  <2>2. job'[k] = [job[k] EXCEPT !.left = job[k].left - 1]
    BY <1>11 DEF QueryTick
  <2> QED
    BY <2>1, <2>2 DEF JobType
<1> QED
  BY <1>3, <1>4, <1>5, <1>6, <1>7, <1>8, <1>9, <1>10, <1>11 DEF QueryNext

\* A scheduled query that somebody wants is sent, or another host asked for it
\* (avahi_query_scheduler_withdraw_by_id through avahi_querier_remove): the post a querier
\* withdraws may be the one the cache made, but never while a lookup uses the key.
THEOREM WantedStaysScheduled == QuerySpec => WantedQueriesAreSent
<1> DEFINE Sent == \A k \in QueryKey : job[k].exists /\ ~job'[k].exists /\ ~history'[k].exists
                                         => ~announcing' \/ Users(k)' = {}
<1>1. IInv /\ IInv' /\ [QueryNext]_queryVars => [Sent]_queryVars
  BY JobEnds
<1>2. QuerySpec => [][Sent]_queryVars
  BY <1>1, QuerierInductive, PTL DEF QuerySpec
<1> QED
  BY <1>2 DEF WantedQueriesAreSent

=============================================================================
