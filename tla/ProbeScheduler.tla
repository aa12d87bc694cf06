--------------------------- MODULE ProbeScheduler ---------------------------
(***************************************************************************)
(* The probe scheduler of one interface (avahi-core/probe-sched.c).  A     *)
(* probe asks for everything of a name and carries the records this host   *)
(* means to publish, so that a host that probes for the same name sees     *)
(* them.  Probes that are due are packed together with others.             *)
(*                                                                         *)
(* Sizes are counted in units: a question takes one and a record one.      *)
(* How much room a packet has is open, and so is whether the estimate of   *)
(* the sizes was right.  A job is due at once or after the next Tick       *)
(* (50 ms); the history (150 ms) forgets a probe at any time.              *)
(***************************************************************************)
EXTENDS Naturals, Sequences, SequencesExt

CONSTANTS ProbeRecord,  \* records to probe for
          NameOf,       \* record -> its name
          Room          \* bound: units a packet holds at most

ASSUME ProbeAssumption == Room \in Nat

VARIABLES probes,      \* s->jobs: the scheduled jobs, the newest first
          probed,      \* s->history: the records probed for lately
          packet       \* the packet sent last

probeVars == <<probes, probed, packet>>

ProbeJob == [record : ProbeRecord, wait : 0..1, chosen : BOOLEAN]

NoPacket == [questions |-> <<>>, records |-> <<>>]

JobName(j) == NameOf[j.record]

\* find_scheduled_job: the position of the job for record r
ProbesFor(r) == {n \in DOMAIN probes : probes[n].record = r}

-----------------------------------------------------------------------------

\* avahi_probe_scheduler_post.  A record that was probed for a moment ago is not probed
\* for again; the reflector posts immediately.
avahi_probe_scheduler_post(r, wait) ==
  /\ r \notin probed
  /\ probes' = IF ProbesFor(r) = {}
               THEN <<[record |-> r, wait |-> wait, chosen |-> FALSE]>> \o probes
               ELSE [n \in DOMAIN probes |->
                       IF n \in ProbesFor(r) /\ wait < probes[n].wait
                       THEN [probes[n] EXCEPT !.wait = wait] ELSE probes[n]]
  /\ UNCHANGED <<probed, packet>>

\* Mutant: only the first job has its question in the packet.
packet_add_unasked(p, n) ==
  IF p.full \/ p.jobs[n].chosen \/ p.room < 2 THEN [p EXCEPT !.full = @ \/ ~p.jobs[n].chosen]
  ELSE [p EXCEPT !.questions = IF @ = <<>> THEN <<JobName(p.jobs[n])>> ELSE @,
                 !.room = @ - 2, !.jobs[n].chosen = TRUE]

Positions(jobs) == [k \in DOMAIN jobs |-> k]

\* The jobs that are not in the packet yet and for the same name as job n
Companions(p, n) ==
  FoldLeft(LAMBDA s, k : IF ~p.jobs[k].chosen /\ k # n /\ JobName(p.jobs[k]) = JobName(p.jobs[n])
                         THEN Append(s, k) ELSE s,
           <<>>, Positions(p.jobs))

\* packet_add_probe_query: a question for the name of job n, and room for its record and
\* for those of the jobs with the same name that fit.
packet_add_probe_query(p, n) ==
  IF p.full \/ p.jobs[n].chosen \/ p.room < 2 THEN [p EXCEPT !.full = @ \/ ~p.jobs[n].chosen]
  ELSE LET same == Companions(p, n)
           fit == IF Len(same) <= p.room - 2 THEN Len(same) ELSE p.room - 2
           now == {n} \cup {same[k] : k \in 1..fit}
       IN [p EXCEPT !.questions = Append(@, JobName(p.jobs[n])),
                    !.room = @ - 2 - fit,
                    !.jobs = [k \in DOMAIN p.jobs |-> IF k \in now
                                THEN [p.jobs[k] EXCEPT !.chosen = TRUE] ELSE p.jobs[k]]]

\* The packet for job n: its own question first, then those of the other jobs in the
\* order of the list until one does not fit.
Assembled(n, room) ==
  LET empty == [questions |-> <<>>, room |-> room, full |-> FALSE, jobs |-> probes]
  IN FoldLeft(packet_add_probe_query, packet_add_probe_query(empty, n), Positions(probes))

\* The jobs that stay: those that were not chosen, and those that did not fit although
\* they were.
Left(jobs, sent) ==
  FoldLeft(LAMBDA l, j : IF j.record \in sent THEN l ELSE Append(l, [j EXCEPT !.chosen = FALSE]),
           <<>>, jobs)

ChosenRecords(jobs) == FoldLeft(LAMBDA l, j : IF j.chosen THEN Append(l, j.record) ELSE l, <<>>, jobs)

\* elapse_callback of a scheduled job, whose probe fits into a packet of this host's size:
\* the chosen records are appended until one does not fit.
SendProbes(n, room, fit) ==
  LET p == Assembled(n, room)
      chosen == ChosenRecords(p.jobs)
      records == [k \in 1..(IF fit < Len(chosen) THEN fit ELSE Len(chosen)) |-> chosen[k]]
  IN
  /\ room >= 2
  /\ probes' = Left(p.jobs, Range(records))
  /\ probed' = probed \cup Range(records)
  /\ packet' = [questions |-> p.questions, records |-> records]

\* elapse_callback of a scheduled job whose probe needs a larger packet
SendLargeProbe(n, fits) ==
  LET j == probes[n]
  IN
  /\ probes' = RemoveAt(probes, n)
  /\ probed' = probed \cup {j.record}
  /\ packet' = IF fits THEN [questions |-> <<JobName(j)>>, records |-> <<j.record>>] ELSE NoPacket

ProbeElapse(n) ==
  /\ probes[n].wait = 0
  /\ \/ \E room \in 0..Room, fit \in 0..Room : SendProbes(n, room, fit)
     \/ \E fits \in BOOLEAN : SendLargeProbe(n, fits)

\* elapse_callback of a job in the history
ForgetProbe(r) ==
  /\ r \in probed
  /\ probed' = probed \ {r}
  /\ UNCHANGED <<probes, packet>>

\* avahi_probe_scheduler_clear
avahi_probe_scheduler_clear ==
  /\ probes' = <<>> /\ probed' = {} /\ packet' = NoPacket

ProbeTick ==
  /\ probes # <<>>
  /\ \A n \in DOMAIN probes : probes[n].wait > 0
  /\ probes' = [n \in DOMAIN probes |-> [probes[n] EXCEPT !.wait = @ - 1]]
  /\ UNCHANGED <<probed, packet>>

ProbeInit == probes = <<>> /\ probed = {} /\ packet = NoPacket

ProbeNext ==
  \/ \E r \in ProbeRecord, wait \in 0..1 : avahi_probe_scheduler_post(r, wait)
  \/ \E n \in DOMAIN probes : ProbeElapse(n)
  \/ \E r \in ProbeRecord : ForgetProbe(r)
  \/ avahi_probe_scheduler_clear
  \/ ProbeTick

ProbeSpec == ProbeInit /\ [][ProbeNext]_probeVars

-----------------------------------------------------------------------------
ProbeTypeOK ==
  /\ probes \in Seq(ProbeJob)
  /\ probed \subseteq ProbeRecord
  /\ packet.questions \in Seq({NameOf[r] : r \in ProbeRecord})
  /\ packet.records \in Seq(ProbeRecord)

\* A job waits for its time unchosen: packet_add_probe_query asserts so, and a job left
\* chosen by a packet it did not fit into would end the program when it is due.
WaitingIsUnchosen == \A n \in DOMAIN probes : ~probes[n].chosen

\* Each record has at most one job, scheduled or in the history.
OneProbeEach ==
  \A r \in ProbeRecord : \A m, n \in ProbesFor(r) : m = n /\ r \notin probed

\* A packet asks for the name of every record it carries: a host that defends the name
\* would not see the others.
ProbesAskForTheirNames ==
  \A k \in DOMAIN packet.records : NameOf[packet.records[k]] \in Range(packet.questions)

\* Packing probes together loses none, doubles none and separates none from its question, also
\* when a packet overflows.
ProbeInv == ProbeTypeOK /\ WaitingIsUnchosen /\ OneProbeEach /\ ProbesAskForTheirNames
=============================================================================
