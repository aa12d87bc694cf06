------------------------------ MODULE Responder ------------------------------
(***************************************************************************)
(* Answering the network: how the server turns queries and responses of    *)
(* other hosts into records to send (avahi-core/server.c, rrlist.c), and   *)
(* the response scheduler of one interface, which holds them back for a    *)
(* moment so that what others already know or say is not sent again        *)
(* (avahi-core/response-sched.c).                                          *)
(*                                                                         *)
(* A job is due at once or after the next Tick (20 to 120 ms).  The        *)
(* history (500 ms) and the list of suppressed answers (700 ms) forget an  *)
(* entry at any time.  Packets hold as many records as happen to fit.      *)
(* Conflicting records are in module Announce.                             *)
(***************************************************************************)
EXTENDS Naturals, FiniteSets

CONSTANTS Record,  \* the records of this host
          Key,     \* their keys
          KeyOf,   \* record -> key
          Unique,  \* records published with AVAHI_PUBLISH_UNIQUE
          Aux,     \* record -> the records it refers to
          Host     \* hosts that ask

ASSUME ResponderAssumption ==
  /\ KeyOf \in [Record -> Key]
  /\ Unique \subseteq Record
  \* What PTR, SRV and CNAME records refer to is unique.
  /\ Aux \in [Record -> SUBSET Unique]
  \* Everybody, for whom an announcement is.
  /\ "all" \notin Host

VARIABLES registered,  \* records that are registered on the interface
          sched,       \* record -> what the response scheduler holds for it
          owed         \* history: record -> who waits for which form of it

respVars == <<registered, sched, owed>>

\* The time to live of a record: none for a goodbye, all of it, or less than half.
GOODBYE == 0
LOW == 1
FULL == 4

Asker == Host \cup {"all"}

\* querier: whom the answer is for, "all" if querier_valid is not set; wait: time until
\* the job is due.
ResponseJob == [state : {"scheduled"}, ttl : {GOODBYE, FULL}, querier : Asker, wait : 0..1]

HistoryJob == [state : {"done"}, ttl : {GOODBYE, LOW, FULL}, flush_cache : BOOLEAN]

NoJob == [state |-> "none"]

\* job: the scheduled job; done: the one in the history; suppressed: host -> the time to
\* live of the record it said it knows, 0 if it said nothing
SchedType ==
  [job : ResponseJob \cup {NoJob}, done : HistoryJob \cup {NoJob},
   suppressed : [Host -> {0, LOW, FULL}]]

Nothing == [job |-> NoJob, done |-> NoJob, suppressed |-> [h \in Host |-> 0]]

Scheduled(s) == s.job # NoJob

-----------------------------------------------------------------------------
(* The response scheduler.                                                 *)

\* Does a record on the network with time to live t make one with w unnecessary?
Covers(t, w) == (t = GOODBYE) = (w = GOODBYE) /\ t >= w \div 2

\* Is a post of record r dropped: because the asker knows the record, or because it was
\* on the network a moment ago?
Dropped(s, r, ttl, who) ==
  \/ who # "all" /\ Covers(s.suppressed[who], ttl)
  \/ s.done # NoJob /\ Covers(s.done.ttl, ttl) /\ (s.done.flush_cache \/ r \notin Unique)

\* A post joins the job that is scheduled already.
Merged(j, ttl, who, wait) ==
  [j EXCEPT !.ttl = ttl,
            !.wait = IF wait < @ THEN wait ELSE @,
            !.querier = IF who = @ THEN @ ELSE "all"]

\* avahi_response_scheduler_post
Post(s, r, ttl, who, wait) ==
  IF Dropped(s, r, ttl, who) THEN s
  ELSE [s EXCEPT !.done = NoJob,
                 !.job = IF Scheduled(s) THEN Merged(s.job, ttl, who, wait)
                         ELSE [state |-> "scheduled", ttl |-> ttl, querier |-> who,
                               wait |-> wait]]

\* job_mark_done
MarkDone(s, r) ==
  [s EXCEPT !.job = NoJob,
            !.done = [state |-> "done", ttl |-> s.job.ttl, flush_cache |-> r \in Unique]]

\* avahi_response_scheduler_incoming: another host sent record r.
Incoming(s, r, ttl, flush) ==
  IF Scheduled(s)
  THEN IF (r \notin Unique \/ flush) /\ Covers(ttl, s.job.ttl) THEN MarkDone(s, r) ELSE s
  ELSE [s EXCEPT !.done = [state |-> "done", ttl |-> ttl, flush_cache |-> flush]]

\* Mutant: a known answer drops the job whoever waits for it.
SuppressAny(s, h, ttl) ==
  [s EXCEPT !.job = IF Scheduled(s) /\ Covers(ttl, s.job.ttl) THEN NoJob ELSE @,
            !.suppressed[h] = ttl]

\* avahi_response_scheduler_suppress: host h said that it knows the record.
Suppress(s, h, ttl) ==
  [s EXCEPT !.job = IF Scheduled(s) /\ s.job.querier = h /\ Covers(ttl, s.job.ttl)
                    THEN NoJob ELSE @,
            !.suppressed[h] = ttl]

-----------------------------------------------------------------------------
(* Who waits for what.                                                     *)

\* who waits for the form ttl of record r, besides those who waited for it already
Owing(r, ttl, who) ==
  [ttl |-> ttl, who |-> IF owed[r].ttl = ttl THEN owed[r].who \cup {who} ELSE {who}]

NobodyWaits(r) == [owed[r] EXCEPT !.who = {}]

\* Posts of record r with the form ttl for who
PostOwed(s, r, ttl, who) == IF Dropped(s, r, ttl, who) THEN owed[r] ELSE Owing(r, ttl, who)

-----------------------------------------------------------------------------
(* The packets that arrive.                                                *)

\* avahi_server_prepare_matching_responses
Matching(keys) == {r \in registered : KeyOf[r] \in keys}

\* The record list of the server: no record is on it twice, whether it was read or not.
avahi_record_list_push(list, more) == list \cup more
avahi_record_list_drop(list, known) == list \ known
\* What is dropped again still counts.
avahi_record_list_all_flush_cache(found) == found \subseteq Unique

\* append_aux_records_to_list, for the records that are not scheduled although host h
\* asked for a unicast response.  References are at most two levels deep.
WithAux(post, h, list) ==
  LET aux(l) == UNION {Aux[r] \cap registered : r \in {x \in l : Dropped(post[x], x, FULL, h)}}
      more(l) == avahi_record_list_push(l, aux(l))
  IN more(more(list))

\* Is the response sent at once?  Not to a truncated query, whose known answers may be
\* in the packets that follow, and only if all records found are unique.
Immediately(r, found, kind) ==
  \/ kind = "probe"
  \/ kind # "truncated" /\ r \in found /\ avahi_record_list_all_flush_cache(found)

\* The records that avahi_server_generate_response posts or sends by unicast
Responses(post, list, who, unicast) == IF unicast THEN WithAux(post, who, list) ELSE list

\* avahi_server_generate_response: what the scheduler holds after the records of list,
\* left of those found, were posted for who.
avahi_server_generate_response(post, found, list, who, kind, unicast) ==
  [r \in Record |->
     IF r \in Responses(post, list, who, unicast)
     THEN Post(post[r], r, FULL, who, IF Immediately(r, found, kind) THEN 0 ELSE 1)
     ELSE post[r]]

\* handle_query_packet: host h asks for keys, knowing the records of DOMAIN known.  A known
\* answer takes the record off the list whatever its time to live.
handle_query_packet(h, keys, known, kind, unicast) ==
  LET found == Matching(keys)
      told == [r \in Record |-> IF r \in DOMAIN known THEN Suppress(sched[r], h, known[r])
                                ELSE sched[r]]
      list == avahi_record_list_drop(found, DOMAIN known)
  IN
  /\ sched' = avahi_server_generate_response(told, found, list, h, kind, unicast)
  /\ owed' = [r \in Record |->
                IF /\ r \in Responses(told, list, h, unicast)
                   /\ ~Dropped(told[r], r, FULL, h)
                THEN Owing(r, FULL, h)
                ELSE IF r \in DOMAIN known /\ Covers(known[r], owed[r].ttl)
                THEN [owed[r] EXCEPT !.who = @ \ {h}]
                ELSE owed[r]]
  /\ UNCHANGED registered

\* Does handle_conflict answer record r of another host by sending ours again?  It does
\* when the other host says goodbye, or will forget the record too early.
Refreshes(r, ttl, flush) ==
  /\ r \in registered
  /\ ttl = GOODBYE \/ ((r \in Unique \/ flush) /\ ttl <= FULL \div 2)

\* handle_response_packet, for record r, equal to the one of this host
handle_response_packet(r, ttl, flush) ==
  /\ IF Refreshes(r, ttl, flush)
     THEN LET again == Matching({KeyOf[r]})
          IN /\ sched' = avahi_server_generate_response(sched, again, again, "all", "probe", FALSE)
             /\ owed' = [x \in Record |-> IF x \in again
                                          THEN PostOwed(sched[x], x, FULL, "all")
                                          ELSE owed[x]]
     ELSE /\ sched' = [sched EXCEPT ![r] = Incoming(sched[r], r, ttl, flush)]
          /\ owed' = IF Scheduled(sched[r])
                        /\ (r \notin Unique \/ flush) /\ Covers(ttl, sched[r].job.ttl)
                     THEN [owed EXCEPT ![r] = NobodyWaits(r)] ELSE owed
  /\ UNCHANGED registered

-----------------------------------------------------------------------------
(* The records of this host.                                               *)

\* An announcer announces record r: avahi_interface_post_response.
AnnounceRecord(r) ==
  /\ registered' = registered \cup {r}
  /\ sched' = [sched EXCEPT ![r] = Post(sched[r], r, FULL, "all", 1)]
  /\ owed' = [owed EXCEPT ![r] = PostOwed(sched[r], r, FULL, "all")]

\* send_goodbye_callback: record r is withdrawn.
send_goodbye_callback(r) ==
  /\ r \in registered
  /\ registered' = registered \ {r}
  /\ sched' = [sched EXCEPT ![r] = Post(sched[r], r, GOODBYE, "all", 0)]
  /\ owed' = [owed EXCEPT ![r] = PostOwed(sched[r], r, GOODBYE, "all")]

-----------------------------------------------------------------------------
(* The time events.                                                        *)

\* For whom are the records that those in packet refer to?
AuxAsker(packet, x) ==
  LET askers == {sched[r].job.querier : r \in {y \in packet : x \in Aux[y] /\ Scheduled(sched[y])}}
  IN IF Cardinality(askers) = 1 THEN CHOOSE a \in askers : TRUE ELSE "all"

\* Mutant: also those that are not registered.
AuxOfAll(packet) == UNION {Aux[r] : r \in packet}

\* Records that a packet makes the scheduler post: enumerate_aux_records_callback
AuxOf(packet) == (UNION {Aux[r] : r \in packet}) \cap registered

\* send_response_packet: a packet with the scheduled records of a set, and records they
\* refer to, which are posted and, if there is room, taken into the packet as well.
send_response_packet(packet) ==
  LET jobs == {r \in packet : Scheduled(sched[r])}
      aux == AuxOf(packet) \ jobs
      posted == [r \in Record |-> IF r \in aux
                                  THEN Post(sched[r], r, FULL, AuxAsker(packet, r), 1)
                                  ELSE sched[r]]
  IN
  /\ packet \subseteq jobs \cup {r \in aux : Scheduled(posted[r])}
  /\ sched' = [r \in Record |-> IF r \in packet THEN MarkDone(posted[r], r) ELSE posted[r]]
  /\ owed' = [r \in Record |-> IF r \in packet THEN NobodyWaits(r)
                               ELSE IF r \in aux
                               THEN PostOwed(sched[r], r, FULL, AuxAsker(packet, r))
                               ELSE owed[r]]

\* elapse_callback of a scheduled job
SendResponses(r) ==
  /\ Scheduled(sched[r]) /\ sched[r].job.wait = 0
  /\ \E more \in SUBSET (Record \ {r}) : send_response_packet(more \cup {r})
  /\ UNCHANGED registered

\* elapse_callback of a job in the history
ForgetResponse(r) ==
  /\ sched[r].done # NoJob
  /\ sched' = [sched EXCEPT ![r].done = NoJob]
  /\ UNCHANGED <<registered, owed>>

\* elapse_callback of a suppressed job
ForgetSuppressed(r, h) ==
  /\ sched[r].suppressed[h] # 0
  /\ sched' = [sched EXCEPT ![r].suppressed[h] = 0]
  /\ UNCHANGED <<registered, owed>>

\* The interface is no longer relevant: avahi_response_scheduler_clear.
avahi_response_scheduler_clear ==
  /\ registered' = {}
  /\ sched' = [r \in Record |-> Nothing]
  /\ owed' = [r \in Record |-> NobodyWaits(r)]

ResponseTick ==
  /\ \E r \in Record : Scheduled(sched[r])
  /\ \A r \in Record : Scheduled(sched[r]) => sched[r].job.wait > 0
  /\ sched' = [r \in Record |-> IF Scheduled(sched[r]) THEN [sched[r] EXCEPT !.job.wait = @ - 1]
                                ELSE sched[r]]
  /\ UNCHANGED <<registered, owed>>

-----------------------------------------------------------------------------
RespInit ==
  /\ registered = {}
  /\ sched = [r \in Record |-> Nothing]
  /\ owed = [r \in Record |-> [ttl |-> FULL, who |-> {}]]

\* What a host says it knows; bound: one record in a packet.
KnownAnswers == UNION {[k -> {LOW, FULL}] : k \in {{}} \cup {{r} : r \in Record}}

QueryKind == {"plain", "truncated", "probe"}

RespNext ==
  \/ \E h \in Host, keys \in (SUBSET Key) \ {{}}, known \in KnownAnswers,
        kind \in QueryKind, unicast \in BOOLEAN :
        handle_query_packet(h, keys, known, kind, unicast)
  \/ \E r \in Record : \/ \E ttl \in {GOODBYE, LOW, FULL}, flush \in BOOLEAN :
                            handle_response_packet(r, ttl, flush)
                       \/ AnnounceRecord(r) \/ send_goodbye_callback(r)
                       \/ SendResponses(r) \/ ForgetResponse(r)
                       \/ \E h \in Host : ForgetSuppressed(r, h)
  \/ avahi_response_scheduler_clear
  \/ ResponseTick

RespSpec == RespInit /\ [][RespNext]_respVars

-----------------------------------------------------------------------------
RespTypeOK ==
  /\ registered \subseteq Record
  /\ sched \in [Record -> SchedType]
  /\ owed \in [Record -> [ttl : {GOODBYE, FULL}, who : SUBSET Asker]]

\* Nobody is forgotten: while somebody waits for a record, a job for it is scheduled, in
\* the form (alive or goodbye) that was posted last; and a job that known answers of one
\* host can drop is one that only this host waits for.
WaitedForIsScheduled ==
  \A r \in Record : owed[r].who # {} =>
    /\ Scheduled(sched[r])
    /\ sched[r].job.ttl = owed[r].ttl
    /\ sched[r].job.querier # "all" => owed[r].who = {sched[r].job.querier}

\* A record is not on its way and in the history at once: the history job of a record
\* that is posted again is gone, else a goodbye and its record suppress each other.
ScheduledOrDone == \A r \in Record : ~(Scheduled(sched[r]) /\ sched[r].done # NoJob)

\* A goodbye is the last word: a record that is not registered is never scheduled alive.
WithdrawnStaysWithdrawn ==
  \A r \in Record \ registered : Scheduled(sched[r]) => sched[r].job.ttl = GOODBYE

\* Known answers, answers of others, merging and the history drop a job of the scheduler only
\* when nobody waits for it any more.
RespInv == RespTypeOK /\ WaitedForIsScheduled /\ ScheduledOrDone
=============================================================================
