--------------------------- MODULE PlatformProofs ---------------------------
(***************************************************************************)
(* Proofs about what the server publishes and what it stands on, the parts *)
(* that MCPlatform checks on a small instance.                             *)
(*                                                                         *)
(* The registration of an entry group, for any finite set of records and   *)
(* interfaces and any bound on the drift of the counter: the counter       *)
(* invariant is inductive together with a condition on each announcer by   *)
(* itself (Good): whether it is armed follows from its state, and its      *)
(* state is limited by the state of the group and by what is left to do    *)
(* when the client's callbacks return.                                     *)
(*                                                                         *)
(* The reflector, for any clients, links and number of slots, and ids that *)
(* start over any number of times: a packet with the id of a slot is for   *)
(* the query the slot was taken for (SlotsAnswer).                         *)
(*                                                                         *)
(* The poll() loop, for any watches and timeouts: the array given to       *)
(* poll() and the watches are in step, and what is set to wait is what     *)
(* there is to wait for.                                                   *)
(*                                                                         *)
(* The entries, for any groups, services, hosts and bounds: what one call  *)
(* adds, rolls back, marks, rewrites or cleans up is followed through its  *)
(* loops, and leaves lists where every id is at one place and services     *)
(* that are whole.                                                         *)
(*                                                                         *)
(* The queue of time events, for any events and any resolution of the      *)
(* timer: in each change one node is out of order, and what the two loops  *)
(* of a shuffle pass through are trees that are ordered but for that node  *)
(* (NearHeap), then but for it and the nodes below (BelowHeap).            *)
(***************************************************************************)
EXTENDS Announce, Reflector, SimplePoll, Entries, TimeEvents, FiniteSetTheorems, TLAPS

\* One round of a loop that drops the members of p
Sift(p, s, e) == IF e \in p THEN s ELSE Append(s, e)

Sifting == INSTANCE FoldProofs WITH Op <- Sift

-----------------------------------------------------------------------------
(* The registration of a group.                                            *)

ProbingOf(an) == {k \in Match : an[k].state = "PROBING"}

\* Is a wake-up left to do in c?
WakeIn(c) == \E j \in DOMAIN c : c[j] # "announce"

\* What holds of announcer a of pair k, in a group in state st, if wake: a wake-up is to
\* come, and if over: the group was committed again before a wake-up.
Good(k, a, st, wake, over) ==
  /\ a.time_event <=> a.state \in {"PROBING", "ANNOUNCING"}
  /\ a.state = "WAITING" => st = "REGISTERING" \/ wake
  /\ a.state = "ANNOUNCING" => (st = "ESTABLISHED" \/ over) /\ a.n_iteration < 4
  /\ a.state = "ESTABLISHED" => st = "ESTABLISHED" \/ over \/ k[1] \in NoAnnounce
  /\ a # None => st \in {"REGISTERING", "ESTABLISHED"}

Local(an, st, wake, over) == \A k \in Match : Good(k, an[k], st, wake, over)

Quiet == \A k \in Match : announcer[k] = None

IInv ==
  /\ TypeOK
  /\ ProbingIsCounted
  /\ Local(announcer, state, WakeIn(calls), overtaken)
  /\ holdoff => state = "REGISTERING"
  /\ WakeIn(calls) /\ state = "REGISTERING" => overtaken
  /\ group_dead => entries = {} /\ Quiet

-----------------------------------------------------------------------------
(* Counting.                                                               *)

\* The sets of probing announcers are finite.
LEMMA ProbingFinite ==
  ASSUME NEW S \in SUBSET Match
  PROVE  IsFiniteSet(S) /\ Cardinality(S) \in Nat
BY AnnounceAssumption, FS_Subset, FS_CardinalityType

\* Fewer announcers probe: the counter may stay.
LEMMA CountSubset ==
  ASSUME NEW S \in SUBSET Match, NEW T \in SUBSET S
  PROVE  Cardinality(T) <= Cardinality(S)
BY ProbingFinite, FS_Subset

\* One announcer stops probing: the counter is positive and may go down by one.
LEMMA CountMinusOne ==
  ASSUME NEW S \in SUBSET Match, NEW n \in Nat, Cardinality(S) <= n, NEW k \in S
  PROVE  /\ n - 1 \in Nat
         /\ Cardinality(S \ {k}) <= n - 1
<1>1. IsFiniteSet(S) /\ Cardinality(S) \in Nat
  BY ProbingFinite
<1>2. IsFiniteSet(S \ {k}) /\ Cardinality(S \ {k}) = Cardinality(S) - 1
  BY <1>1, FS_RemoveElement
<1>3. Cardinality(S \ {k}) \in Nat
  BY <1>2, FS_CardinalityType
<1> QED
  BY <1>1, <1>2, <1>3

\* Some announcers start probing: the counter goes up by their number.
LEMMA CountPlus ==
  ASSUME NEW S \in SUBSET Match, NEW N \in SUBSET Match, NEW n \in Nat, Cardinality(S) <= n
  PROVE  /\ n + Cardinality(N) \in Nat
         /\ Cardinality(S \cup N) <= n + Cardinality(N)
<1>1. /\ IsFiniteSet(S) /\ Cardinality(S) \in Nat
      /\ IsFiniteSet(N) /\ Cardinality(N) \in Nat
      /\ Cardinality(S \cap N) \in Nat
  BY ProbingFinite
<1>2. Cardinality(S \cup N) = Cardinality(S) + Cardinality(N) - Cardinality(S \cap N)
  BY <1>1, FS_Union
<1> QED
  BY <1>1, <1>2

-----------------------------------------------------------------------------
(* The operators on announcers.                                            *)

\* An announcer that enters a state anew is well formed and armed as it should be.
LEMMA FreshOK ==
  ASSUME NEW s \in {"PROBING", "WAITING", "ANNOUNCING", "ESTABLISHED"}
  PROVE  /\ Fresh(s) \in Announcer
         /\ Fresh(s).state = s
         /\ Fresh(s).n_iteration = 1
         /\ Fresh(s).time_event <=> s \in {"PROBING", "ANNOUNCING"}
<1> DEFINE armed == s \in {"PROBING", "ANNOUNCING"}
<1>1. armed \in BOOLEAN
  OBVIOUS
<1>2. Fresh(s) = [state |-> s, n_iteration |-> 1, time_event |-> armed]
  BY Zenon DEF Fresh
<1> HIDE DEF armed
<1>3. Fresh(s).time_event = armed /\ Fresh(s).state = s /\ Fresh(s).n_iteration = 1
  BY <1>2
<1>4. Fresh(s) \in Announcer
  BY <1>1, <1>2 DEF Announcer
<1> QED
  BY <1>3, <1>4, Zenon DEF armed

\* A new announcer probes iff its record is probed, and announces only in an
\* established group.
LEMMA InitialOK ==
  ASSUME NEW e, NEW gs \in {"REGISTERING", "ESTABLISHED"}
  PROVE  LET a == go_to_initial_state(e, gs) IN
         /\ a \in Announcer
         /\ a.time_event <=> a.state \in {"PROBING", "ANNOUNCING"}
         /\ a.state = "PROBING" <=> e \in Probed
         /\ a.state = "WAITING" => gs = "REGISTERING"
         /\ a.state = "ANNOUNCING" => gs = "ESTABLISHED" /\ a.n_iteration < 4
         /\ a.state = "ESTABLISHED" => e \in NoAnnounce
<1>1. CASE e \in Probed
  BY <1>1, FreshOK DEF go_to_initial_state
<1>2. CASE e \notin Probed /\ e \notin NoAnnounce
  BY <1>2, FreshOK DEF go_to_initial_state
<1>3. CASE e \notin Probed /\ e \in NoAnnounce
  BY <1>3, FreshOK DEF go_to_initial_state
<1> QED
  BY <1>1, <1>2, <1>3

\* New announcers for the missing pairs keep the announcers well formed, and the
\* counter goes up by the ones that probe.
LEMMA AnnounceOK ==
  ASSUME IInv, NEW es, NEW is, NEW gs \in {"REGISTERING", "ESTABLISHED"},
         state \in {"REGISTERING", "ESTABLISHED"} => gs = state
  PROVE  /\ Announce(es, is, gs) \in [Match -> Announcer]
         /\ Local(Announce(es, is, gs), gs, WakeIn(calls), overtaken)
         /\ es = {} => Announce(es, is, gs) = announcer
         /\ n_probing + Cardinality(NewProbing(es, is)) \in Nat
         /\ Cardinality(ProbingOf(Announce(es, is, gs)))
              <= n_probing + Cardinality(NewProbing(es, is))
<1> DEFINE an == Announce(es, is, gs)
<1>1. \A k \in Match : an[k] = IF k \in Missing(es, is) THEN go_to_initial_state(k[1], gs)
                                                       ELSE announcer[k]
  BY DEF Announce
<1>2. an \in [Match -> Announcer]
  BY InitialOK DEF IInv, TypeOK, Announce
<1>3. Local(an, gs, WakeIn(calls), overtaken)
  <2>1. \A k \in Match : /\ Good(k, announcer[k], state, WakeIn(calls), overtaken)
                         /\ announcer[k] \in Announcer
    BY DEF IInv, Local, TypeOK
  <2> SUFFICES ASSUME NEW k \in Match PROVE Good(k, an[k], gs, WakeIn(calls), overtaken)
    BY DEF Local
  <2>2. CASE k \in Missing(es, is)
    BY <1>1, <2>2, InitialOK DEF Good
  <2>3. CASE k \notin Missing(es, is)
    BY <1>1, <2>1, <2>3 DEF Good, None
  <2> QED
    BY <2>2, <2>3
<1>6. es = {} => an = announcer
  BY DEF Announce, Missing, IInv, TypeOK
<1>4. ProbingOf(an) = Probing \cup NewProbing(es, is)
  BY <1>1, InitialOK DEF ProbingOf, Probing, NewProbing, Missing, IsIn
<1>5. Probing \in SUBSET Match /\ NewProbing(es, is) \in SUBSET Match
  BY DEF Probing, NewProbing, Missing
<1> QED
  BY <1>2, <1>3, <1>4, <1>5, <1>6, CountPlus DEF IInv, TypeOK, ProbingIsCounted

\* An updated record's announcer stays well formed; it may probe again.
LEMMA ReannouncedOK ==
  ASSUME NEW e, NEW a \in Announcer, a.state # "none"
  PROVE  LET b == reannounced(e, a) IN
         /\ b \in Announcer /\ b # None
         /\ b.time_event <=> b.state \in {"PROBING", "ANNOUNCING"}
         /\ b.state = "WAITING" => a.state = "WAITING"
         /\ b.state = "ANNOUNCING" => b.n_iteration < 4 /\ a.state \in {"ANNOUNCING", "ESTABLISHED"}
         /\ b.state = "ANNOUNCING" => e \notin NoAnnounce
         /\ b.state = "ESTABLISHED" => e \in NoAnnounce
         /\ a.state = "PROBING" => b.state = "PROBING"
<1>1. CASE a.state = "PROBING"
  BY <1>1, FreshOK DEF reannounced, None
<1>2. CASE a.state = "WAITING"
  BY <1>2, FreshOK DEF reannounced, None
<1>3. CASE a.state \in {"ANNOUNCING", "ESTABLISHED"}
  BY <1>3, FreshOK DEF reannounced, None
<1> QED
  BY <1>1, <1>2, <1>3 DEF Announcer

\* One more continuation.
LEMMA Pushed ==
  ASSUME NEW c \in Seq(Rest), NEW r \in Rest
  PROVE  /\ <<r>> \o c \in Seq(Rest)
         /\ WakeIn(<<r>> \o c) <=> r # "announce" \/ WakeIn(c)
<1> DEFINE d == <<r>> \o c
<1>1. /\ d \in Seq(Rest) /\ Len(d) = Len(c) + 1 /\ d[1] = r
      /\ \A j \in 1..Len(c) : d[j + 1] = c[j]
  OBVIOUS
<1> HIDE DEF d
<1>2. \A j \in DOMAIN d : j = 1 \/ (j - 1 \in DOMAIN c /\ d[j] = c[j - 1])
  BY <1>1
<1>3. \A j \in DOMAIN c : j + 1 \in DOMAIN d /\ d[j + 1] = c[j]
  BY <1>1
<1>4. 1 \in DOMAIN d
  BY <1>1
<1>5. WakeIn(d) <=> r # "announce" \/ WakeIn(c)
  BY <1>1, <1>2, <1>3, <1>4 DEF WakeIn
<1> QED
  BY <1>1, <1>5 DEF d

\* One less.
LEMMA Popped ==
  ASSUME NEW c \in Seq(Rest), c # <<>>
  PROVE  /\ Head(c) \in Rest /\ Tail(c) \in Seq(Rest)
         /\ WakeIn(Tail(c)) => WakeIn(c)
         /\ Head(c) # "announce" => WakeIn(c)
         /\ WakeIn(c) => WakeIn(Tail(c)) \/ Head(c) # "announce"
<1>1. c = <<Head(c)>> \o Tail(c) /\ Head(c) \in Rest /\ Tail(c) \in Seq(Rest)
  OBVIOUS
<1> QED
  BY <1>1, Pushed

\* check_probed keeps the announcers of a group that is being registered in order, and
\* leaves their wake-up to be done when it establishes the group.
LEMMA CheckProbedOK ==
  ASSUME NEW an \in [Match -> Announcer], NEW wake, NEW over,
         Local(an, "REGISTERING", wake, over),
         NEW n \in Nat, Cardinality(ProbingOf(an)) <= n,
         NEW rest \in {"wakeup", "shortcut"}, NEW others \in Seq(Rest),
         WakeIn(others) => over,
         check_probed(an, n, rest, others)
  PROVE  /\ n_probing' = n /\ announcer' = an
         /\ state' \in {"REGISTERING", "ESTABLISHED"}
         /\ calls' \in Seq(Rest)
         /\ Local(an, state', WakeIn(calls'), over)
         /\ WakeIn(calls') /\ state' = "REGISTERING" => over
<1>1. CASE n > 0
  BY <1>1 DEF check_probed, Local, Good
<1>2. CASE ~(n > 0)
  <2>1. /\ n_probing' = n /\ announcer' = an /\ state' = "ESTABLISHED"
        /\ calls' = <<rest>> \o others
    BY <1>2 DEF check_probed
  <2>2. calls' \in Seq(Rest) /\ WakeIn(calls')
    BY <2>1, Pushed DEF Rest
  <2> QED
    BY <2>1, <2>2 DEF Local, Good
<1> QED
  BY <1>1, <1>2

-----------------------------------------------------------------------------
(* The steps.                                                              *)

\* The invariant, put together from what a step makes of its parts.
LEMMA Assemble ==
  ASSUME state' \in {"UNCOMMITED", "REGISTERING", "ESTABLISHED", "COLLISION"},
         n_probing' \in Nat, holdoff' \in BOOLEAN, committed' \in BOOLEAN,
         entries' \subseteq Entry, announcing' \subseteq Interface,
         announcer' \in [Match -> Announcer],
         calls' \in Seq(Rest), group_dead' \in BOOLEAN, overtaken' \in BOOLEAN,
         Local(announcer', state', WakeIn(calls'), overtaken'),
         Cardinality(ProbingOf(announcer')) <= n_probing',
         holdoff' => state' = "REGISTERING",
         WakeIn(calls') /\ state' = "REGISTERING" => overtaken',
         group_dead' => entries' = {} /\ Quiet'
  PROVE  IInv'
<1>1. Probing' = ProbingOf(announcer')
  BY DEF Probing, IsIn, ProbingOf
<1> QED
  BY <1>1 DEF IInv, TypeOK, ProbingIsCounted, Local, Good, WakeIn

\* What the invariant says of the state before a step.
LEMMA Before ==
  ASSUME IInv
  PROVE  /\ TypeOK /\ Local(announcer, state, WakeIn(calls), overtaken)
         /\ ProbingOf(announcer) = Probing /\ Probing \in SUBSET Match
         /\ Cardinality(ProbingOf(announcer)) <= n_probing
         /\ holdoff => state = "REGISTERING"
         /\ WakeIn(calls) /\ state = "REGISTERING" => overtaken
         /\ group_dead => entries = {} /\ Quiet
BY DEF IInv, ProbingIsCounted, ProbingOf, Probing, IsIn

\* What most steps leave alone, and what they must not break.
LEMMA StaysOK ==
  ASSUME IInv, UNCHANGED <<state, holdoff, committed, calls, group_dead, overtaken>>,
         n_probing' \in Nat, entries' \subseteq Entry, announcing' \subseteq Interface,
         announcer' \in [Match -> Announcer],
         Local(announcer', state, WakeIn(calls), overtaken),
         Cardinality(ProbingOf(announcer')) <= n_probing',
         group_dead => entries' = {} /\ Quiet'
  PROVE  IInv'
<1>1. WakeIn(calls') = WakeIn(calls)
  OBVIOUS
<1>2. TypeOK /\ (holdoff => state = "REGISTERING")
      /\ (WakeIn(calls) /\ state = "REGISTERING" => overtaken)
  BY Before
<1> QED
  BY <1>1, <1>2, Assemble DEF TypeOK

\* One announcer k is replaced by b, which does not probe unless k did.
LEMMA ReplaceOne ==
  ASSUME IInv, NEW k \in Match, NEW b \in Announcer,
         announcer[k] # None, b # None => Good(k, b, state, WakeIn(calls), overtaken)
  PROVE  LET an == [announcer EXCEPT ![k] = b] IN
         /\ ~group_dead
         /\ an \in [Match -> Announcer]
         /\ Local(an, state, WakeIn(calls), overtaken)
         /\ ProbingOf(an) = IF b.state = "PROBING" THEN Probing \cup {k} ELSE Probing \ {k}
<1>1. /\ announcer \in [Match -> Announcer] /\ ~group_dead
      /\ Local(announcer, state, WakeIn(calls), overtaken)
  BY DEF IInv, TypeOK, Quiet
<1> DEFINE an == [announcer EXCEPT ![k] = b]
<1>2. \A j \in Match : an[j] = IF j = k THEN b ELSE announcer[j]
  BY <1>1
<1>3. an \in [Match -> Announcer]
  BY <1>1
<1> HIDE DEF an
<1>4. Local(an, state, WakeIn(calls), overtaken)
  <2>1. None.state = "none" /\ ~None.time_event
    BY DEF None
  <2> QED
    BY <1>1, <1>2, <2>1 DEF Local, Good
<1>5. ProbingOf(an) = IF b.state = "PROBING" THEN Probing \cup {k} ELSE Probing \ {k}
  BY <1>2 DEF ProbingOf, Probing, IsIn
<1> QED
  BY <1>1, <1>3, <1>4, <1>5 DEF an

\* The time event of an announcer: a probe or an announcement is sent, or the group is
\* established already.
LEMMA SendOK ==
  ASSUME IInv, NEW k \in Match, elapse_announce(k),
         SendProbe(k) \/ ProbedLate(k) \/ SendAnnouncement(k)
  PROVE  IInv'
<1>0. TypeOK /\ Local(announcer, state, WakeIn(calls), overtaken) /\ Probing \in SUBSET Match
  BY Before
<1>1. /\ announcer[k] \in Announcer /\ announcer[k] # None
      /\ Good(k, announcer[k], state, WakeIn(calls), overtaken)
      /\ UNCHANGED <<state, holdoff, committed, entries, announcing, calls, group_dead, overtaken>>
  BY <1>0 DEF elapse_announce, TypeOK, None, Local, SendProbe, ProbedLate, SendAnnouncement
<1>2. CASE SendProbe(k)
  <2> DEFINE b == [announcer[k] EXCEPT !.n_iteration = @ + 1]
  <2>1. /\ b \in Announcer /\ b.state = "PROBING" /\ b.time_event = announcer[k].time_event
        /\ announcer' = [announcer EXCEPT ![k] = b] /\ n_probing' = n_probing
    BY <1>1, <1>2 DEF SendProbe, IsIn, Announcer
  <2>2. Good(k, b, state, WakeIn(calls), overtaken)
    BY <1>1, <1>2, <2>1 DEF SendProbe, IsIn, Good
  <2>3. Probing \cup {k} = Probing
    BY <1>2 DEF SendProbe, Probing
  <2> HIDE DEF b
  <2>4. /\ announcer' \in [Match -> Announcer]
        /\ Local(announcer', state, WakeIn(calls), overtaken)
        /\ ProbingOf(announcer') = Probing /\ ~group_dead
    BY <1>1, <2>1, <2>2, <2>3, ReplaceOne
  <2> QED
    BY <1>0, <1>1, <2>1, <2>4, Before, StaysOK DEF TypeOK
<1>3. CASE ProbedLate(k)
  <2> DEFINE b == [state |-> "ANNOUNCING", n_iteration |-> 2, time_event |-> TRUE]
  <2>1. b \in Announcer /\ b.state = "ANNOUNCING" /\ b.time_event /\ b.n_iteration < 4
    BY DEF Announcer
  <2>2. k \in Probing /\ state = "ESTABLISHED"
    BY <1>1, <1>3 DEF ProbedLate, Probing, Good
  <2>3. announcer' = [announcer EXCEPT ![k] = b] /\ n_probing' = n_probing - 1
    BY <1>3 DEF ProbedLate
  <2> HIDE DEF b
  <2>4. Good(k, b, state, WakeIn(calls), overtaken)
    BY <2>1, <2>2 DEF Good
  <2>5. /\ announcer' \in [Match -> Announcer]
        /\ Local(announcer', state, WakeIn(calls), overtaken)
        /\ ProbingOf(announcer') = Probing \ {k} /\ ~group_dead
    BY <1>1, <2>1, <2>3, <2>4, ReplaceOne
  <2>6. n_probing - 1 \in Nat /\ Cardinality(ProbingOf(announcer')) <= n_probing - 1
    BY <1>0, <2>2, <2>5, CountMinusOne, Before DEF TypeOK
  <2> QED
    BY <1>0, <1>1, <2>3, <2>5, <2>6, StaysOK DEF TypeOK
<1>4. CASE SendAnnouncement(k)
  <2> DEFINE n == announcer[k].n_iteration + 1
             done == n >= 4
             b == [state |-> IF done THEN "ESTABLISHED" ELSE "ANNOUNCING",
                   n_iteration |-> n, time_event |-> ~done]
  <2>1. /\ state = "ESTABLISHED" \/ overtaken
        /\ n \in 0..4 /\ Probing \ {k} = Probing /\ n_probing' = n_probing
        /\ state \in {"REGISTERING", "ESTABLISHED"}
    BY <1>1, <1>4 DEF SendAnnouncement, IsIn, Good, Announcer, Probing
  <2>2. announcer' = [announcer EXCEPT ![k] = b]
    BY <1>4 DEF SendAnnouncement
  <2>3. /\ b \in Announcer
        /\ b.time_event <=> b.state \in {"PROBING", "ANNOUNCING"}
        /\ b.state \in {"ANNOUNCING", "ESTABLISHED"}
        /\ b.state = "ANNOUNCING" => b.n_iteration < 4
    <3> HIDE DEF n
    <3>1. CASE done
      <4>1. b = [state |-> "ESTABLISHED", n_iteration |-> n, time_event |-> FALSE]
        BY <3>1
      <4> QED
        BY <2>1, <4>1 DEF Announcer
    <3>2. CASE ~done
      <4>1. b = [state |-> "ANNOUNCING", n_iteration |-> n, time_event |-> TRUE]
        BY <3>2
      <4> QED
        BY <2>1, <3>2, <4>1 DEF Announcer
    <3> QED
      BY <3>1, <3>2
  <2> HIDE DEF n, b
  <2>4. Good(k, b, state, WakeIn(calls), overtaken)
    BY <2>1, <2>3 DEF Good
  <2>5. /\ announcer' \in [Match -> Announcer]
        /\ Local(announcer', state, WakeIn(calls), overtaken)
        /\ ProbingOf(announcer') = Probing /\ ~group_dead
    BY <1>1, <2>1, <2>2, <2>3, <2>4, ReplaceOne
  <2> QED
    BY <1>0, <1>1, <2>1, <2>5, Before, StaysOK DEF TypeOK
<1> QED
  BY <1>2, <1>3, <1>4

\* The time event of an announcer: its probing is over and the group is still registering.
LEMMA ElapseOK ==
  ASSUME IInv, NEW k \in Match, elapse_announce(k)
  PROVE  IInv'
<1>0. TypeOK /\ Local(announcer, state, WakeIn(calls), overtaken) /\ Probing \in SUBSET Match
  BY Before
<1>1. CASE ProbedInGroup(k)
  <2> DEFINE b == [announcer[k] EXCEPT !.state = "WAITING", !.time_event = FALSE]
             an == [announcer EXCEPT ![k] = b]
  <2>1. /\ b \in Announcer /\ b.state = "WAITING" /\ ~b.time_event
        /\ announcer[k] # None
    BY <1>0, <1>1 DEF ProbedInGroup, IsIn, TypeOK, Announcer, None
  <2>2. k \in Probing /\ state = "REGISTERING" /\ calls = <<>>
    BY <1>1 DEF ProbedInGroup, Probing, elapse_announce, Idle
  <2>3. /\ check_probed(an, n_probing - 1, "shortcut", <<>>)
        /\ holdoff' = (holdoff /\ state' = "REGISTERING")
        /\ UNCHANGED <<committed, entries, announcing, group_dead, overtaken>>
    BY <1>1 DEF ProbedInGroup, StillHeld, elapse_announce
  <2> HIDE DEF b
  <2>4. Good(k, b, state, WakeIn(calls), overtaken)
    BY <2>1, <2>2 DEF Good
  <2>5. /\ an \in [Match -> Announcer] /\ Local(an, "REGISTERING", WakeIn(calls), overtaken)
        /\ ProbingOf(an) = Probing \ {k} /\ ~group_dead
    BY <2>1, <2>2, <2>4, ReplaceOne
  <2>6. n_probing - 1 \in Nat /\ Cardinality(ProbingOf(an)) <= n_probing - 1
    BY <1>0, <2>2, <2>5, CountMinusOne, Before DEF TypeOK
  <2> HIDE DEF an
  <2>7. <<>> \in Seq(Rest) /\ ~WakeIn(<<>>)
    BY DEF WakeIn
  <2>8. /\ n_probing' = n_probing - 1 /\ announcer' = an
        /\ state' \in {"REGISTERING", "ESTABLISHED"}
        /\ calls' \in Seq(Rest)
        /\ Local(an, state', WakeIn(calls'), overtaken)
        /\ WakeIn(calls') /\ state' = "REGISTERING" => overtaken
    BY <2>3, <2>5, <2>6, <2>7, CheckProbedOK
  <2>9. holdoff' \in BOOLEAN /\ (holdoff' => state' = "REGISTERING")
    BY <2>3
  <2> QED
    BY <1>0, <2>3, <2>5, <2>6, <2>8, <2>9, Assemble DEF TypeOK
<1> QED
  BY <1>1, SendOK DEF elapse_announce

\* The client updates a record.
LEMMA UpdateOK ==
  ASSUME IInv, NEW e \in Entry, avahi_server_update(e)
  PROVE  IInv'
<1>0. TypeOK /\ Local(announcer, state, WakeIn(calls), overtaken) /\ Probing \in SUBSET Match
  BY Before
<1> DEFINE mine == {k \in Match : k[1] = e /\ ~IsIn(k, "none")}
           newly == {k \in mine : ~IsIn(k, "PROBING") /\ reannounced(e, announcer[k]).state = "PROBING"}
<1>1. /\ announcer' = [k \in Match |-> IF k \in mine THEN reannounced(e, announcer[k])
                                                     ELSE announcer[k]]
      /\ n_probing' = n_probing + Cardinality(newly)
      /\ state \in {"REGISTERING", "ESTABLISHED"} /\ ~group_dead
      /\ UNCHANGED <<state, holdoff, committed, entries, announcing, calls, group_dead, overtaken>>
  BY DEF avahi_server_update
<1>2. \A k \in mine : announcer[k] \in Announcer /\ announcer[k].state # "none"
  BY <1>0 DEF TypeOK, IsIn
<1> HIDE DEF mine
<1>3. mine \in SUBSET Match /\ newly \in SUBSET Match
  BY DEF mine
<1>4. announcer' \in [Match -> Announcer]
  BY <1>0, <1>1, <1>2, ReannouncedOK DEF TypeOK
<1>5. Local(announcer', state, WakeIn(calls), overtaken)
  <2> SUFFICES ASSUME NEW k \in Match
               PROVE  Good(k, announcer'[k], state, WakeIn(calls), overtaken)
    BY DEF Local
  <2>0. Good(k, announcer[k], state, WakeIn(calls), overtaken)
    BY <1>0 DEF Local
  <2>1. CASE k \in mine
    <3>1. announcer'[k] = reannounced(e, announcer[k]) /\ k[1] = e
      BY <1>1, <2>1 DEF mine
    <3> QED
      BY <1>1, <1>2, <2>0, <2>1, <3>1, ReannouncedOK DEF Good
  <2>2. CASE k \notin mine
    BY <1>1, <2>0, <2>2
  <2> QED
    BY <2>1, <2>2
<1>6. ProbingOf(announcer') = Probing \cup newly
  BY <1>1, <1>2, <1>3, ReannouncedOK DEF ProbingOf, Probing, IsIn
<1> HIDE DEF newly
<1>7. n_probing' \in Nat /\ Cardinality(ProbingOf(announcer')) <= n_probing'
  BY <1>0, <1>1, <1>3, <1>6, CountPlus, Before DEF TypeOK
<1> QED
  BY <1>0, <1>1, <1>4, <1>5, <1>7, StaysOK DEF TypeOK

\* entry_group_commit_real goes on, in whatever state the group is, with c left to do.
LEMMA AnnounceGroupOK ==
  ASSUME IInv, NEW c \in Seq(Rest), WakeIn(c) => WakeIn(calls), WakeIn(calls) => WakeIn(c),
         AnnounceGroup(c), holdoff' \in BOOLEAN, holdoff' => state' = "REGISTERING",
         committed' \in BOOLEAN, UNCHANGED <<entries, announcing, group_dead, overtaken>>
  PROVE  IInv'
<1> DEFINE an == Announce(entries, announcing, state)
           n == n_probing + Cardinality(NewProbing(entries, announcing))
<1>0. TypeOK /\ Local(announcer, state, WakeIn(calls), overtaken)
      /\ (group_dead => entries = {} /\ Quiet)
  BY Before
<1>1. CASE state \in {"REGISTERING", "ESTABLISHED"}
  <2>1. /\ an \in [Match -> Announcer] /\ Local(an, state, WakeIn(calls), overtaken)
        /\ n \in Nat /\ Cardinality(ProbingOf(an)) <= n
        /\ entries = {} => an = announcer
    BY <1>1, AnnounceOK
  <2>2. CASE state = "REGISTERING"
    <3>1. check_probed(an, n, "wakeup", c)
      BY <2>2 DEF AnnounceGroup, Committed
    <3> HIDE DEF an, n
    <3>2. WakeIn(c) => overtaken
      BY <2>2, Before
    <3>3. /\ n_probing' = n /\ announcer' = an
          /\ state' \in {"REGISTERING", "ESTABLISHED"}
          /\ calls' \in Seq(Rest)
          /\ Local(an, state', WakeIn(calls'), overtaken)
          /\ WakeIn(calls') /\ state' = "REGISTERING" => overtaken
      BY <2>1, <2>2, <3>1, <3>2, CheckProbedOK
    <3>4. group_dead' => entries' = {} /\ Quiet'
      BY <1>0, <2>1, <3>3 DEF Quiet
    <3> QED
      BY <1>0, <2>1, <3>3, <3>4, Assemble DEF TypeOK
  <2>3. CASE state = "ESTABLISHED"
    <3>1. n_probing' = n /\ announcer' = an /\ calls' = c /\ state' = state
      BY <2>3 DEF AnnounceGroup, Committed
    <3> HIDE DEF an, n
    <3>2. Local(announcer', state', WakeIn(calls'), overtaken)
      BY <2>1, <3>1 DEF Local, Good
    <3>3. group_dead' => entries' = {} /\ Quiet'
      BY <1>0, <2>1, <3>1 DEF Quiet
    <3> QED
      BY <1>0, <2>1, <2>3, <3>1, <3>2, <3>3, Assemble DEF TypeOK
  <2> QED
    BY <1>1, <2>2, <2>3
<1>2. CASE state \notin {"REGISTERING", "ESTABLISHED"}
  <2>1. calls' = c /\ UNCHANGED <<state, n_probing, announcer>>
    BY <1>2 DEF AnnounceGroup, Committed
  <2>2. Local(announcer', state', WakeIn(calls'), overtaken)
    BY <1>0, <2>1 DEF Local, Good
  <2>3. group_dead' => entries' = {} /\ Quiet'
    BY <1>0, <2>1 DEF Quiet
  <2> QED
    BY <1>0, <1>2, <2>1, <2>2, <2>3, Before, Assemble DEF TypeOK
<1> QED
  BY <1>1, <1>2

\* The group is committed, to be announced at once or when the holdoff time is over.
LEMMA CommitOK ==
  ASSUME IInv, CommitNow \/ CommitLater
  PROVE  IInv'
<1>0. TypeOK /\ Local(announcer, state, WakeIn(calls), overtaken)
  BY Before
<1>1. /\ ~group_dead /\ state \in {"UNCOMMITED", "COLLISION"} /\ state' = "REGISTERING"
      /\ overtaken' = (overtaken \/ WakeIn(calls))
      /\ UNCHANGED <<n_probing, entries, announcing, announcer, group_dead>>
  BY DEF CommitNow, CommitLater, Committing, WakeIn
<1>2. calls' \in Seq(Rest) /\ (WakeIn(calls') => WakeIn(calls))
  <2>1. calls \in Seq(Rest) /\ "announce" \in Rest
    BY <1>0 DEF TypeOK, Rest
  <2>2. CASE CommitNow
    <3>1. calls' = <<"announce">> \o calls
      BY <2>2 DEF CommitNow
    <3> QED
      BY <2>1, <3>1, Pushed
  <2>3. CASE CommitLater
    BY <2>1, <2>3 DEF CommitLater
  <2> QED
    BY <2>2, <2>3
<1>3. holdoff' \in BOOLEAN /\ committed' \in BOOLEAN
  BY <1>0 DEF CommitNow, CommitLater, TypeOK
<1>4. \A k \in Match : announcer[k] = None
  BY <1>0, <1>1 DEF Local, Good
<1>5. Local(announcer', state', WakeIn(calls'), overtaken')
  BY <1>1, <1>4 DEF Local, Good, None
<1> QED
  BY <1>0, <1>1, <1>2, <1>3, <1>5, Before, Assemble DEF TypeOK

\* The waiting announcers are woken up, whatever has become of the group.
LEMMA WokenOK ==
  ASSUME IInv, CallbackEstablished
  PROVE  IInv'
<1>0. TypeOK /\ Local(announcer, state, WakeIn(calls), overtaken) /\ Probing \in SUBSET Match
  BY Before
<1> DEFINE w == [state |-> "ANNOUNCING",
                 n_iteration |-> IF Head(calls) = "shortcut" THEN 2 ELSE 0,
                 time_event |-> TRUE]
<1>1. /\ announcer' = [k \in Match |-> IF ~IsIn(k, "WAITING") THEN announcer[k] ELSE w]
      /\ calls' = Tail(calls) /\ calls # <<>> /\ Head(calls) # "announce" /\ ~group_dead
      /\ UNCHANGED <<state, n_probing, holdoff, committed, entries, announcing, group_dead, overtaken>>
  BY DEF CallbackEstablished, woken, Idle
<1>2. w \in Announcer /\ w.state = "ANNOUNCING" /\ w.time_event /\ w.n_iteration < 4
  BY DEF Announcer
<1> HIDE DEF w
<1>3. /\ calls' \in Seq(Rest) /\ (WakeIn(calls') => WakeIn(calls)) /\ WakeIn(calls)
  BY <1>0, <1>1, Popped DEF TypeOK
<1>4. state = "REGISTERING" => overtaken
  BY <1>3, Before
<1>5. announcer' \in [Match -> Announcer]
  BY <1>0, <1>1, <1>2 DEF TypeOK
<1>6. Local(announcer', state', WakeIn(calls'), overtaken')
  <2> SUFFICES ASSUME NEW k \in Match
               PROVE  Good(k, announcer'[k], state, WakeIn(calls'), overtaken)
    BY <1>1 DEF Local
  <2>1. Good(k, announcer[k], state, WakeIn(calls), overtaken)
    BY <1>0 DEF Local
  <2>2. CASE IsIn(k, "WAITING")
    <3>1. announcer'[k] = w /\ announcer[k] # None
      BY <1>1, <2>2 DEF IsIn, None
    <3> QED
      BY <1>2, <1>4, <2>1, <3>1 DEF Good
  <2>3. CASE ~IsIn(k, "WAITING")
    BY <1>1, <2>1, <2>3 DEF Good, IsIn
  <2> QED
    BY <2>2, <2>3
<1>7. ProbingOf(announcer') = Probing
  BY <1>1, <1>2 DEF ProbingOf, Probing, IsIn
<1> QED
  BY <1>0, <1>1, <1>3, <1>4, <1>5, <1>6, <1>7, Before, Assemble DEF TypeOK

\* The library goes on when the client's callback returns.
LEMMA CallbackOK ==
  ASSUME IInv, CallbackRegistering \/ CallbackFreed
  PROVE  IInv'
<1>0. TypeOK /\ Local(announcer, state, WakeIn(calls), overtaken)
  BY Before
<1>1. calls # <<>> /\ calls \in Seq(Rest)
  BY <1>0 DEF CallbackRegistering, CallbackFreed, Idle, TypeOK
<1>2. Tail(calls) \in Seq(Rest) /\ (WakeIn(Tail(calls)) => WakeIn(calls))
  BY <1>1, Popped
<1>3. CASE CallbackRegistering
  <2>1. /\ AnnounceGroup(Tail(calls)) /\ holdoff' = (holdoff /\ state' = "REGISTERING")
        /\ UNCHANGED <<committed, entries, announcing, group_dead, overtaken>>
    BY <1>3 DEF CallbackRegistering, StillHeld
  <2>2. WakeIn(calls) => WakeIn(Tail(calls))
    BY <1>1, <1>3, Popped DEF CallbackRegistering
  <2>3. /\ holdoff' \in BOOLEAN /\ (holdoff' => state' = "REGISTERING")
        /\ committed' \in BOOLEAN
    BY <1>0, <2>1 DEF TypeOK
  <2> QED
    BY <1>2, <2>1, <2>2, <2>3, AnnounceGroupOK
<1>4. CASE CallbackFreed
  <2>1. /\ calls' = Tail(calls) /\ group_dead
        /\ UNCHANGED <<state, n_probing, holdoff, committed, entries, announcing, announcer,
                       group_dead, overtaken>>
    BY <1>4 DEF CallbackFreed
  <2>2. Quiet /\ Quiet' /\ entries = {}
    BY <2>1, Before DEF Quiet
  <2>3. Local(announcer', state', WakeIn(calls'), overtaken')
    BY <1>0, <2>1, <2>2 DEF Local, Good, Quiet, None
  <2> QED
    BY <1>0, <1>2, <2>1, <2>2, <2>3, Before, Assemble DEF TypeOK
<1> QED
  BY <1>3, <1>4

\* The holdoff time is over.
LEMMA HoldoffOK ==
  ASSUME IInv, HoldoffPassed
  PROVE  IInv'
<1>1. /\ calls = <<>> /\ AnnounceGroup(<<>>) /\ holdoff' = FALSE /\ committed' = TRUE
      /\ UNCHANGED <<entries, announcing, group_dead, overtaken>>
  BY DEF HoldoffPassed, Idle
<1>2. <<>> \in Seq(Rest)
  OBVIOUS
<1> QED
  BY <1>1, <1>2, AnnounceGroupOK

\* All records of the group are dead.
LEMMA GoneOK ==
  ASSUME IInv, NoRecords, n_probing' \in Nat, group_dead' \in BOOLEAN,
         \/ state' \in {"UNCOMMITED", "COLLISION"} /\ overtaken' = FALSE
         \/ UNCHANGED <<state, overtaken>>
  PROVE  IInv'
<1>0. TypeOK
  BY Before
<1>1. None \in Announcer /\ None.state = "none" /\ ~None.time_event
  BY DEF None, Announcer
<1>2. /\ announcer' = [k \in Match |-> None] /\ entries' = {} /\ holdoff' = FALSE
      /\ UNCHANGED <<committed, announcing, calls>>
  BY DEF NoRecords
<1>3. /\ announcer' \in [Match -> Announcer] /\ Quiet'
      /\ Local(announcer', state', WakeIn(calls'), overtaken')
  BY <1>1, <1>2 DEF Local, Good, Quiet
<1>4. ProbingOf(announcer') = {}
  BY <1>1, <1>2 DEF ProbingOf
<1>5. Cardinality(ProbingOf(announcer')) <= n_probing'
  BY <1>4, FS_EmptySet
<1> QED
  BY <1>0, <1>2, <1>3, <1>5, Before, Assemble DEF TypeOK

\* The whole group is withdrawn.
LEMMA WithdrawOK ==
  ASSUME IInv, NEW s \in {"UNCOMMITED", "COLLISION"}, Withdraw(s)
  PROVE  IInv'
BY Before, GoneOK DEF Withdraw, TypeOK

\* A registered record meets a conflict and is probed again.
LEMMA ReturnOK ==
  ASSUME IInv, NEW k \in Match, avahi_entry_return_to_initial_state(k)
  PROVE  IInv'
<1>0. TypeOK /\ Local(announcer, state, WakeIn(calls), overtaken) /\ Probing \in SUBSET Match
  BY Before
<1>1. announcer[k] # None /\ ~IsIn(k, "PROBING") /\ state \in {"REGISTERING", "ESTABLISHED"}
  BY <1>0 DEF avahi_entry_return_to_initial_state, avahi_entry_is_registered, Local, Good, None, IsIn
<1> DEFINE b == go_to_initial_state(k[1], state)
<1>2. /\ b \in Announcer
      /\ b.time_event <=> b.state \in {"PROBING", "ANNOUNCING"}
      /\ b.state = "PROBING" <=> k[1] \in Probed
      /\ b.state = "WAITING" => state = "REGISTERING"
      /\ b.state = "ANNOUNCING" => state = "ESTABLISHED" /\ b.n_iteration < 4
      /\ b.state = "ESTABLISHED" => k[1] \in NoAnnounce
  BY <1>1, InitialOK
<1>3. /\ announcer' = [announcer EXCEPT ![k] = b]
      /\ n_probing' = IF k[1] \in Probed THEN n_probing + 1 ELSE n_probing
  BY DEF avahi_entry_return_to_initial_state
<1> HIDE DEF b
<1>4. /\ announcer' \in [Match -> Announcer] /\ Local(announcer', state, WakeIn(calls), overtaken)
      /\ ProbingOf(announcer') = IF b.state = "PROBING" THEN Probing \cup {k} ELSE Probing \ {k}
      /\ ~group_dead
  <2>1. Good(k, b, state, WakeIn(calls), overtaken)
    BY <1>1, <1>2 DEF Good
  <2> QED
    BY <1>1, <1>2, <1>3, <2>1, ReplaceOne
<1>5. n_probing' \in Nat /\ Cardinality(ProbingOf(announcer')) <= n_probing'
  <2>1. CASE b.state = "PROBING"
    <3>1. {k} \in SUBSET Match /\ Cardinality({k}) = 1
      BY FS_Singleton
    <3> QED
      BY <1>0, <1>2, <1>3, <1>4, <2>1, <3>1, CountPlus, Before DEF TypeOK
  <2>2. CASE b.state # "PROBING"
    <3>1. Probing \ {k} = Probing
      BY <1>1 DEF Probing
    <3> QED
      BY <1>0, <1>2, <1>3, <1>4, <2>2, <3>1, Before DEF TypeOK
  <2> QED
    BY <2>1, <2>2
<1> QED
  BY <1>0, <1>4, <1>5, StaysOK DEF avahi_entry_return_to_initial_state, TypeOK

\* An interface appears.
LEMMA InterfaceOK ==
  ASSUME IInv, NEW i \in Interface, avahi_announce_interface(i)
  PROVE  IInv'
<1>0. TypeOK /\ Local(announcer, state, WakeIn(calls), overtaken)
      /\ (group_dead => entries = {} /\ Quiet)
  BY Before
<1>1. /\ announcing' \subseteq Interface
      /\ UNCHANGED <<state, holdoff, committed, entries, calls, group_dead, overtaken>>
  BY <1>0 DEF avahi_announce_interface, TypeOK
<1>2. CASE Committed
  <2>1. /\ announcer' = Announce(entries, {i}, state)
        /\ n_probing' = n_probing + Cardinality(NewProbing(entries, {i}))
        /\ state \in {"REGISTERING", "ESTABLISHED"}
    BY <1>2 DEF avahi_announce_interface, Committed
  <2>2. /\ announcer' \in [Match -> Announcer]
        /\ Local(announcer', state, WakeIn(calls), overtaken)
        /\ n_probing' \in Nat
        /\ Cardinality(ProbingOf(announcer')) <= n_probing'
        /\ entries = {} => announcer' = announcer
    BY <2>1, AnnounceOK
  <2>3. group_dead => entries' = {} /\ Quiet'
    BY <1>0, <1>1, <2>2 DEF Quiet
  <2> QED
    BY <1>0, <1>1, <2>2, <2>3, StaysOK DEF TypeOK
<1>3. CASE ~Committed
  <2>1. announcer' = announcer /\ n_probing' = n_probing
    BY <1>3 DEF avahi_announce_interface
  <2>2. group_dead => entries' = {} /\ Quiet'
    BY <1>0, <1>1, <2>1 DEF Quiet
  <2> QED
    BY <1>0, <1>1, <2>1, <2>2, Before, StaysOK DEF TypeOK
<1> QED
  BY <1>2, <1>3

\* An interface goes away: fewer announcers probe, the counter stays.
LEMMA GoodbyeOK ==
  ASSUME IInv, NEW i \in Interface, avahi_goodbye_interface(i)
  PROVE  IInv'
<1>0. TypeOK /\ Local(announcer, state, WakeIn(calls), overtaken) /\ Probing \in SUBSET Match
  BY Before
<1>1. None \in Announcer /\ None.state = "none" /\ ~None.time_event
  BY DEF None, Announcer
<1>2. /\ announcer' = [k \in Match |-> IF k[2] = i THEN None ELSE announcer[k]]
      /\ announcing' \subseteq Interface
      /\ UNCHANGED <<state, n_probing, holdoff, committed, entries, calls, group_dead, overtaken>>
  BY <1>0 DEF avahi_goodbye_interface, TypeOK
<1>3. announcer' \in [Match -> Announcer] /\ Local(announcer', state, WakeIn(calls), overtaken)
  BY <1>0, <1>1, <1>2 DEF Local, Good, TypeOK
<1>4. ProbingOf(announcer') \in SUBSET Probing
  BY <1>1, <1>2 DEF ProbingOf, Probing, IsIn
<1>5. Cardinality(ProbingOf(announcer')) <= Cardinality(Probing)
  BY <1>0, <1>4, CountSubset
<1>6. ProbingOf(announcer') \in SUBSET Match
  BY <1>0, <1>4
<1>7. Cardinality(ProbingOf(announcer')) <= n_probing
  BY <1>0, <1>5, <1>6, ProbingFinite, Before DEF TypeOK
<1>8. group_dead => entries' = {} /\ Quiet'
  BY <1>2, Before DEF Quiet
<1> QED
  BY <1>0, <1>2, <1>3, <1>7, <1>8, StaysOK DEF TypeOK

-----------------------------------------------------------------------------
(* The theorems.                                                           *)

\* The invariant holds of a new group.
LEMMA InitIInv == Init => IInv
<1> SUFFICES ASSUME Init PROVE IInv
  OBVIOUS
<1>1. None \in Announcer /\ None.state = "none" /\ ~None.time_event
  BY DEF None, Announcer
<1>2. Probing = {}
  BY <1>1 DEF Init, Probing, IsIn
<1>3. ProbingIsCounted
  BY <1>2, FS_EmptySet DEF Init, ProbingIsCounted
<1>4. \A k \in Match : announcer[k] = None
  BY DEF Init
<1>5. \A w, o : Local(announcer, state, w, o)
  BY <1>1, <1>4 DEF Local, Good
<1>6. announcer \in [Match -> Announcer]
  BY <1>1 DEF Init
<1>7. n_probing \in Nat /\ calls \in Seq(Rest) /\ entries \subseteq Entry /\ announcing \subseteq Interface
  BY DEF Init
<1>8. /\ state \in {"UNCOMMITED", "REGISTERING", "ESTABLISHED", "COLLISION"}
      /\ holdoff \in BOOLEAN /\ committed \in BOOLEAN
      /\ group_dead \in BOOLEAN /\ overtaken \in BOOLEAN
  BY DEF Init
<1>9. TypeOK
  BY <1>6, <1>7, <1>8 DEF TypeOK
<1> QED
  BY <1>3, <1>5, <1>9 DEF Init, IInv

\* Every step preserves the invariant.
LEMMA StepIInv == IInv /\ [Next]_vars => IInv'
<1> SUFFICES ASSUME IInv, [Next]_vars PROVE IInv'
  OBVIOUS
<1>0. TypeOK /\ Local(announcer, state, WakeIn(calls), overtaken)
  BY Before
<1>1. CASE \E k \in Match : elapse_announce(k)
  BY <1>1, ElapseOK
<1>2. CASE \E k \in Match : LoseConflict(k)
  BY <1>2, WithdrawOK DEF LoseConflict
<1>3. CASE \E k \in Match : avahi_entry_return_to_initial_state(k)
  BY <1>3, ReturnOK
<1>4. CASE \E e \in Entry : avahi_server_add(e)
  BY <1>0, <1>4, Before, StaysOK DEF avahi_server_add, TypeOK
<1>5. CASE \E e \in Entry : avahi_server_update(e)
  BY <1>5, UpdateOK
<1>6. CASE CommitNow \/ CommitLater
  BY <1>6, CommitOK
<1>7. CASE HoldoffPassed
  BY <1>7, HoldoffOK
<1>8. CASE avahi_s_entry_group_reset
  BY <1>8, WithdrawOK DEF avahi_s_entry_group_reset
<1>9. CASE FreeGroup
  <2>1. /\ NoRecords /\ group_dead' \in BOOLEAN /\ n_probing' \in Nat
        /\ UNCHANGED <<state, overtaken>>
    BY <1>0, <1>9 DEF FreeGroup, TypeOK
  <2> QED
    BY <2>1, GoneOK
<1>10. CASE CallbackRegistering \/ CallbackFreed
  BY <1>10, CallbackOK
<1>11. CASE CallbackEstablished
  BY <1>11, WokenOK
<1>12. CASE \E i \in Interface : avahi_announce_interface(i)
  BY <1>12, InterfaceOK
<1>13. CASE \E i \in Interface : avahi_goodbye_interface(i)
  BY <1>13, GoodbyeOK
<1>14. CASE UNCHANGED vars
  <2>1. group_dead => entries' = {} /\ Quiet'
    BY <1>14, Before DEF vars, Quiet
  <2>2. UNCHANGED <<state, n_probing, holdoff, committed, entries, announcing, announcer, calls,
                    group_dead, overtaken>>
    BY <1>14 DEF vars
  <2> QED
    BY <1>0, <2>1, <2>2, Before, StaysOK DEF TypeOK
<1> QED
  BY <1>1, <1>2, <1>3, <1>4, <1>5, <1>6, <1>7, <1>8, <1>9, <1>10, <1>11, <1>12, <1>13, <1>14
     DEF Next

\* The invariant says everything the four properties say.
LEMMA IInvEnough ==
  IInv => TypeOK /\ ProbingIsCounted /\ NobodyIsStranded /\ PublishedTogether
<1> SUFFICES ASSUME IInv PROVE NobodyIsStranded /\ PublishedTogether
  BY DEF IInv
<1>1. /\ TypeOK /\ Local(announcer, state, WakeIn(calls), overtaken)
      /\ (group_dead => entries = {} /\ Quiet)
  BY Before
<1>2. WakeIn(calls) => ~Idle
  BY DEF WakeIn, Idle
<1>3. NobodyIsStranded
  BY <1>1, <1>2 DEF Local, Good, NobodyIsStranded, IsIn
<1>4. PublishedTogether
  BY <1>1 DEF Local, Good, PublishedTogether, IsIn, Committed, TypeOK, Quiet
<1> QED
  BY <1>3, <1>4

\* The group, its counter and its announcers have their types.
THEOREM AnnounceTypes == Spec => []TypeOK
BY InitIInv, StepIInv, IInvEnough, PTL DEF Spec

\* The counter of the group covers all probing announcers, so that it never wraps and
\* assert(n_probing) in next_state never fails, however often interfaces come and go,
\* records are updated and conflicts are met.
THEOREM CounterCoversProbes == Spec => []ProbingIsCounted
BY InitIInv, StepIInv, IInvEnough, PTL DEF Spec

\* No announcer is left without a time event although it has something to send, and
\* none waits for a group that has stopped registering, whatever the client does in the
\* callbacks that come before the wake-up.
THEOREM NoAnnouncerStranded == Spec => []NobodyIsStranded
BY InitIInv, StepIInv, IInvEnough, PTL DEF Spec

\* No record of a group is announced before the group is established, unless the client
\* committed the group again in the callback that comes before a wake-up, and none after
\* it was withdrawn or freed.
THEOREM GroupsPublishedTogether == Spec => []PublishedTogether
BY InitIInv, StepIInv, IInvEnough, PTL DEF Spec

-----------------------------------------------------------------------------
(* Reflection.                                                             *)

\* Counting past IdModulus starts over.
LEMMA StartsOver ==
  ASSUME NEW x \in Nat
  PROVE  x % IdModulus \in 0..IdModulus - 1
<1>1. IdModulus \in Nat \ {0}
  BY ReflectorAssumption
<1> QED
  BY <1>1

Packet == [kind : {"query", "answer"}, src : Client \cup {"self"},
           id : QueryId \cup (0..IdModulus - 1), net : Net, asker : Client, asked_id : QueryId]

\* The packets on their way: those of clients are queries, those of the server have its ids.
PacketsOK ==
  /\ on_air \subseteq Packet
  /\ \A p \in on_air : IF p.src = "self" THEN p.id \in 0..IdModulus - 1
                       ELSE p.kind = "query" /\ p.asker = p.src /\ p.asked_id = p.id

\* What the server sent, and what is answered to it
Reflected == {p \in on_air : p.src = "self"}

\* A packet with the id of a slot is for the query the slot was taken for.
SlotsAnswer ==
  \A p \in Reflected, s \in Slots :
    p.id = s.id => s.client = p.asker /\ s.original_id = p.asked_id

Slot == [id : 0..IdModulus - 1, original_id : QueryId, client : Client, interface : Net]

ReflectIInv ==
  /\ slots \in [Indexes -> Slot \cup {NoSlot}]
  /\ reflect_id \in 0..IdModulus - 1 /\ up \subseteq Net
  /\ SlotsInPlace /\ AnswersRoutedBack
  /\ PacketsOK /\ SlotsAnswer

LEMMA SlotIsNone == NoSlot \notin Slot
BY ReflectorAssumption DEF NoSlot, Slot

LEMMA ReflectImplies == ReflectIInv => ReflectInv
<1> SUFFICES ASSUME ReflectIInv PROVE ReflectInv
  OBVIOUS
<1>1. Slots \subseteq Slot
  BY SlotIsNone DEF ReflectIInv, Slots
<1> QED
  BY <1>1 DEF ReflectIInv, ReflectInv, ReflectTypeOK, NoReflectionLoop, Slot

LEMMA ReflectStart == ReflectInit => ReflectIInv
<1> SUFFICES ASSUME ReflectInit PROVE ReflectIInv
  OBVIOUS
<1>1. on_air = {} /\ answered = {} /\ slots = [i \in Indexes |-> NoSlot] /\ reflect_id = 0
  BY DEF ReflectInit
<1>2. PacketsOK /\ SlotsAnswer
  BY <1>1 DEF PacketsOK, SlotsAnswer, Reflected
<1>3. SlotsInPlace /\ AnswersRoutedBack
  BY <1>1 DEF SlotsInPlace, AnswersRoutedBack
<1>4. reflect_id \in 0..IdModulus - 1
  BY <1>1, ReflectorAssumption
<1> QED
  BY <1>1, <1>2, <1>3, <1>4 DEF ReflectInit, ReflectIInv

\* A step that takes no slot, sends nothing under a new id and keeps what was answered
LEMMA PacketsKeep ==
  ASSUME ReflectIInv, UNCHANGED <<slots, reflect_id>>, up' \subseteq Net,
         PacketsOK', AnswersRoutedBack',
         \A p \in Reflected' : \E q \in Reflected :
           p.id = q.id /\ p.asker = q.asker /\ p.asked_id = q.asked_id
  PROVE  ReflectIInv'
<1>1. SlotsAnswer'
  BY DEF ReflectIInv, SlotsAnswer, Slots
<1> QED
  BY <1>1 DEF ReflectIInv, SlotsInPlace

LEMMA AskKeeps ==
  ASSUME ReflectIInv, NEW c \in Client, NEW id \in QueryId, Ask(c, id)
  PROVE  ReflectIInv'
<1> DEFINE q == Query(c, id, LinkOf[c], c, id)
<1>1. /\ q.kind = "query" /\ q.src = c /\ q.id = id /\ q.asker = c /\ q.asked_id = id
      /\ q \in Packet
  BY ReflectorAssumption DEF Query, Packet
<1> HIDE DEF q
<1>2. on_air' = on_air \cup {q} /\ UNCHANGED <<slots, reflect_id, up, answered>>
  BY DEF Ask, q
<1>3. c # "self"
  BY ReflectorAssumption
<1>4. Reflected' = Reflected
  BY <1>1, <1>2, <1>3 DEF Reflected
<1>5. PacketsOK'
  BY <1>1, <1>2, <1>3 DEF ReflectIInv, PacketsOK
<1>6. AnswersRoutedBack' /\ up' \subseteq Net
  BY <1>2 DEF ReflectIInv, AnswersRoutedBack
<1> QED
  BY <1>2, <1>4, <1>5, <1>6, PacketsKeep

LEMMA PacketGone ==
  ASSUME ReflectIInv, NEW p \in on_air, IgnoreQuery(p) \/ Lose(p)
  PROVE  ReflectIInv'
<1>1. on_air' = on_air \ {p} /\ UNCHANGED <<slots, reflect_id, up, answered>>
  BY DEF IgnoreQuery, Lose
<1>2. PacketsOK' /\ Reflected' \subseteq Reflected
  BY <1>1 DEF ReflectIInv, PacketsOK, Reflected
<1>3. AnswersRoutedBack' /\ up' \subseteq Net
  BY <1>1 DEF ReflectIInv, AnswersRoutedBack
<1> QED
  BY <1>1, <1>2, <1>3, PacketsKeep

LEMMA HostKeeps ==
  ASSUME ReflectIInv, NEW p \in on_air, HostAnswers(p)
  PROVE  ReflectIInv'
<1> DEFINE a == Answer(p)
<1>1. PacketsOK /\ p \in Packet /\ p.src = "self"
  BY DEF ReflectIInv, PacketsOK, HostAnswers
<1>2. /\ a \in Packet /\ a.src = "self" /\ a.id = p.id
      /\ a.asker = p.asker /\ a.asked_id = p.asked_id
  BY <1>1 DEF Packet, Answer
<1> HIDE DEF a
<1>3. on_air' = on_air \cup {a} /\ UNCHANGED <<slots, reflect_id, up, answered>>
  BY DEF HostAnswers, a
<1>4. PacketsOK'
  BY <1>1, <1>2, <1>3 DEF PacketsOK
<1>5. p \in Reflected /\ Reflected' \subseteq Reflected \cup {a}
  BY <1>1, <1>3 DEF Reflected
<1>6. \A r \in Reflected' : \E q \in Reflected :
        r.id = q.id /\ r.asker = q.asker /\ r.asked_id = q.asked_id
  BY <1>2, <1>5
<1>7. AnswersRoutedBack' /\ up' \subseteq Net
  BY <1>3 DEF ReflectIInv, AnswersRoutedBack
<1> QED
  BY <1>3, <1>4, <1>6, <1>7, PacketsKeep

LEMMA AnswerKeeps ==
  ASSUME ReflectIInv, NEW p \in on_air, ReceiveAnswer(p)
  PROVE  ReflectIInv'
<1> DEFINE slot == find_slot(p.id)
           passed == [client |-> slot.client, id |-> slot.original_id,
                      asker |-> p.asker, asked_id |-> p.asked_id]
<1>1. PacketsOK /\ p \in Packet /\ p.kind = "answer" /\ SlotsAnswer
  BY DEF ReflectIInv, PacketsOK, ReceiveAnswer
<1>2. p \in Reflected /\ p.id \in Nat
  BY <1>1 DEF PacketsOK, Reflected
<1>3. slot = NoSlot \/ (slot \in Slots /\ slot.id = p.id)
  <2> DEFINE i == p.id % SlotsMax
  <2>1. i \in Indexes
    BY <1>2, ReflectorAssumption DEF Indexes
  <2> QED
    BY <2>1 DEF find_slot, Slots
<1> HIDE DEF slot
<1>4. slot # NoSlot => slot.client = p.asker /\ slot.original_id = p.asked_id
  BY <1>1, <1>2, <1>3 DEF SlotsAnswer
<1>5. answered' = answered \/ (answered' = answered \cup {passed} /\ slot # NoSlot)
  BY DEF ReceiveAnswer, slot
<1>6. AnswersRoutedBack'
  BY <1>4, <1>5 DEF ReflectIInv, AnswersRoutedBack
<1>7. on_air' = on_air \ {p} /\ UNCHANGED <<slots, reflect_id, up>>
  BY DEF ReceiveAnswer
<1>8. PacketsOK' /\ Reflected' \subseteq Reflected
  BY <1>1, <1>7 DEF PacketsOK, Reflected
<1>9. up' \subseteq Net
  BY <1>7 DEF ReflectIInv
<1> QED
  BY <1>6, <1>7, <1>8, <1>9, PacketsKeep

LEMMA TimeoutKeeps ==
  ASSUME ReflectIInv, NEW i \in Indexes, SlotTimeout(i)
  PROVE  ReflectIInv'
<1>1. /\ slots[i] # NoSlot /\ UNCHANGED <<reflect_id, on_air, up, answered>>
      /\ slots' = [slots EXCEPT ![i] = NoSlot]
  BY DEF SlotTimeout, deallocate_slot, ReflectIInv, SlotsInPlace
<1>2. slots' \in [Indexes -> Slot \cup {NoSlot}]
  BY <1>1 DEF ReflectIInv
<1>3. Slots' \subseteq Slots /\ SlotsInPlace'
  BY <1>1 DEF ReflectIInv, Slots, SlotsInPlace
<1>4. SlotsAnswer'
  BY <1>1, <1>3 DEF ReflectIInv, SlotsAnswer, Reflected
<1>5. PacketsOK' /\ AnswersRoutedBack'
  BY <1>1 DEF ReflectIInv, PacketsOK, AnswersRoutedBack
<1> QED
  BY <1>1, <1>2, <1>3, <1>4, <1>5 DEF ReflectIInv

LEMMA ToggleKeeps ==
  ASSUME ReflectIInv, NEW n \in Net, Toggle(n)
  PROVE  ReflectIInv'
<1>1. UNCHANGED <<slots, reflect_id, on_air, answered>> /\ up' \subseteq Net
  BY DEF Toggle, ReflectIInv
<1>2. PacketsOK' /\ AnswersRoutedBack' /\ Reflected' = Reflected
  BY <1>1 DEF ReflectIInv, PacketsOK, AnswersRoutedBack, Reflected
<1> QED
  BY <1>1, <1>2, PacketsKeep

LEMMA DropKeeps ==
  ASSUME ReflectIInv, NEW p \in on_air, DropQuery(p)
  PROVE  ReflectIInv'
<1>1. /\ on_air' = on_air \ {p} /\ UNCHANGED <<slots, up, answered>>
      /\ reflect_id' = NextId(SlotsMax)
  BY DEF DropQuery
<1>2. reflect_id' \in 0..IdModulus - 1
  <2>1. reflect_id + SlotsMax \in Nat
    BY ReflectorAssumption DEF ReflectIInv
  <2> QED
    BY <1>1, <2>1, StartsOver DEF NextId
<1>3. PacketsOK' /\ SlotsAnswer'
  BY <1>1 DEF ReflectIInv, PacketsOK, SlotsAnswer, Slots, Reflected
<1>4. SlotsInPlace' /\ AnswersRoutedBack'
  BY <1>1 DEF ReflectIInv, SlotsInPlace, AnswersRoutedBack
<1> QED
  BY <1>1, <1>2, <1>3, <1>4 DEF ReflectIInv

\* The query taken has the slot of its id to itself, and the packets with that id are the
\* ones it is repeated in.
LEMMA QueryKeeps ==
  ASSUME ReflectIInv, NEW p \in on_air, ReceiveQuery(p)
  PROVE  ReflectIInv'
<1> DEFINE n == Min(Tried)
           id == NextId(n)
           i == SlotIndex(n)
           s == [id |-> id, original_id |-> p.id, client |-> p.src, interface |-> p.net]
           R == Repeated(p, id)
<1>1. /\ p.src # "self" /\ on_air' = (on_air \ {p}) \cup R /\ UNCHANGED <<up, answered>>
      /\ slots' = [slots EXCEPT ![i] = s] /\ reflect_id' = NextId(n + 1) /\ Tried # {}
      /\ NotOnAir(id)
  BY DEF ReceiveQuery, Ignored
<1>2. /\ PacketsOK /\ SlotsAnswer /\ SlotsInPlace /\ reflect_id \in 0..IdModulus - 1
      /\ up \subseteq Net /\ slots \in [Indexes -> Slot \cup {NoSlot}]
  BY DEF ReflectIInv
<1>3. IdModulus \in Nat \ {0} /\ SlotsMax \in Nat \ {0}
  BY ReflectorAssumption
<1>4. n \in Tried /\ n \in 0..SlotsMax - 1
  <2>1. Tried \in SUBSET Nat /\ Tried \subseteq 0..SlotsMax - 1
    BY <1>3 DEF Tried, Indexes
  <2>2. PICK k \in Tried : \A m \in Tried : ~(m < k)
    BY <1>1, <2>1, Sifting!LeastNat
  <2>3. \A m \in Tried : k <= m
    BY <2>1, <2>2
  <2> QED
    BY <2>1, <2>3 DEF Min
<1>5. id \in 0..IdModulus - 1 /\ i \in Indexes /\ i = id % SlotsMax
  <2>1. reflect_id + n \in Nat
    BY <1>2, <1>4
  <2>2. id \in 0..IdModulus - 1
    BY <2>1, StartsOver DEF NextId
  <2> QED
    BY <2>2, <1>3 DEF SlotIndex, Indexes
<1>6. reflect_id' \in 0..IdModulus - 1
  <2>1. reflect_id + (n + 1) \in Nat
    BY <1>2, <1>4
  <2> QED
    BY <1>1, <2>1, StartsOver DEF NextId
<1>7. /\ p \in Packet /\ p.src \in Client /\ p.asker = p.src /\ p.asked_id = p.id /\ p.net \in Net
  BY <1>1, <1>2 DEF PacketsOK, Packet
<1>8. s \in Slot /\ s.id = id /\ s.client = p.asker /\ s.original_id = p.asked_id
  BY <1>5, <1>7 DEF Slot, Packet
<1>9. /\ R \subseteq Packet
      /\ \A q \in R : q.src = "self" /\ q.id = id /\ q.asker = p.asker /\ q.asked_id = p.asked_id
  BY <1>2, <1>5, <1>7 DEF Repeated, Packet, Query
<1> HIDE DEF n, id, i, s, R
<1>10. PacketsOK'
  BY <1>1, <1>2, <1>5, <1>9 DEF PacketsOK
<1>11. Reflected' \subseteq Reflected \cup R
  BY <1>1 DEF Reflected
<1>12. \A t \in Slots' : t = s \/ (t \in Slots /\ t.id # id)
  <2> SUFFICES ASSUME NEW j \in Indexes, slots'[j] # NoSlot, j # i
               PROVE  slots'[j] \in Slots /\ slots'[j].id # id
    BY <1>1, <1>2, <1>5 DEF Slots
  <2>1. slots'[j] = slots[j]
    BY <1>1, <1>2, <1>5
  <2>2. slots[j].id % SlotsMax = j
    BY <1>2, <2>1 DEF SlotsInPlace
  <2> QED
    BY <1>5, <2>1, <2>2 DEF Slots
<1>13. SlotsAnswer'
  <2> SUFFICES ASSUME NEW q \in Reflected', NEW t \in Slots', q.id = t.id
               PROVE  t.client = q.asker /\ t.original_id = q.asked_id
    BY DEF SlotsAnswer
  <2>1. CASE q \in R
    BY <1>8, <1>9, <1>12, <2>1
  <2>2. CASE q \in Reflected
    <3>1. q.id # id
      BY <1>1, <2>2 DEF NotOnAir, Reflected
    <3> QED
      BY <1>2, <1>8, <1>12, <2>2, <3>1 DEF SlotsAnswer
  <2> QED
    BY <1>11, <2>1, <2>2
<1>14. slots' \in [Indexes -> Slot \cup {NoSlot}]
  BY <1>1, <1>2, <1>5, <1>8
<1>15. SlotsInPlace'
  BY <1>1, <1>2, <1>5, <1>8 DEF SlotsInPlace
<1>16. AnswersRoutedBack'
  BY <1>1 DEF ReflectIInv, AnswersRoutedBack
<1> QED
  BY <1>1, <1>2, <1>6, <1>10, <1>13, <1>14, <1>15, <1>16 DEF ReflectIInv

LEMMA ReflectStep == ReflectIInv /\ [ReflectNext]_reflectVars => ReflectIInv'
<1> SUFFICES ASSUME ReflectIInv, [ReflectNext]_reflectVars PROVE ReflectIInv'
  OBVIOUS
<1>1. CASE UNCHANGED reflectVars
  BY <1>1 DEF reflectVars, ReflectIInv, SlotsInPlace, AnswersRoutedBack, PacketsOK, Reflected,
              Slots, SlotsAnswer
<1>2. ASSUME NEW c \in Client, NEW id \in QueryId, Ask(c, id) PROVE ReflectIInv'
  BY <1>2, AskKeeps
<1>3. ASSUME NEW p \in on_air, ReceiveQuery(p) PROVE ReflectIInv'
  BY <1>3, QueryKeeps
<1>4. ASSUME NEW p \in on_air, DropQuery(p) PROVE ReflectIInv'
  BY <1>4, DropKeeps
<1>5. ASSUME NEW p \in on_air, IgnoreQuery(p) \/ Lose(p) PROVE ReflectIInv'
  BY <1>5, PacketGone
<1>6. ASSUME NEW p \in on_air, HostAnswers(p) PROVE ReflectIInv'
  BY <1>6, HostKeeps
<1>7. ASSUME NEW p \in on_air, ReceiveAnswer(p) PROVE ReflectIInv'
  BY <1>7, AnswerKeeps
<1>8. ASSUME NEW i \in Indexes, SlotTimeout(i) PROVE ReflectIInv'
  BY <1>8, TimeoutKeeps
<1>9. ASSUME NEW n \in Net, Toggle(n) PROVE ReflectIInv'
  BY <1>9, ToggleKeeps
<1> QED
  BY <1>1, <1>2, <1>3, <1>4, <1>5, <1>6, <1>7, <1>8, <1>9 DEF ReflectNext

\* An answer reaches the client whose query it answers, with that client's id, and nobody
\* else, however late it comes and however often slots and ids are used again: an id is not
\* given again while something sent with it is on its way, and not while its slot is taken.
THEOREM AnswersReachAskers == ReflectSpec => []ReflectInv
<1>1. ReflectSpec => []ReflectIInv
  BY ReflectStart, ReflectStep, PTL DEF ReflectSpec
<1> QED
  BY <1>1, ReflectImplies, PTL

-----------------------------------------------------------------------------
(* The main loop.                                                          *)

LEMMA AliveSifts ==
  ASSUME NEW S, NEW seq \in Seq(S)
  PROVE  /\ Alive(seq) \in Seq(S) /\ Members(Alive(seq)) = Members(seq) \ dead
         /\ IsInjective(seq) => IsInjective(Alive(seq))
<1> DEFINE n == Len(seq)
           a == Sifting!Folded(dead, <<>>, seq)
<1>1. Alive(seq) = a
  BY DEF Alive, Sift, FoldLeft, MapThenFoldSet, Max, Sifting!Folded, Sifting!FoldLeft,
         Sifting!MapThenFoldSet, Sifting!Max
<1>2. n \in Nat /\ seq \in [1..n -> S] /\ DOMAIN seq = 1..n
  OBVIOUS
<1>3. \A s \in Seq(S) : \A e \in S : Sift(dead, s, e) = IF e \in dead THEN s ELSE Append(s, e)
  BY DEF Sift
<1> HIDE DEF n, a
<1>4. a \in Seq(S) /\ Sifting!Sifted(a, dead, n, seq)
  BY <1>2, <1>3, Sifting!FoldSifts DEF a
<1>5. Sifting!Range(a) = Sifting!Range(seq) \ dead /\ (Sifting!IsInjective(seq) => Sifting!IsInjective(a))
  BY <1>2, <1>4, Sifting!SiftedMembers
<1> QED
  BY <1>1, <1>4, <1>5 DEF Members, IsInjective, Sifting!Range, Sifting!IsInjective

\* A new one comes first.
LEMMA PrependedIsNew ==
  ASSUME NEW S, NEW seq \in Seq(S), NEW x \in S, IsInjective(seq), x \notin Members(seq)
  PROVE  /\ <<x>> \o seq \in Seq(S) /\ Members(<<x>> \o seq) = Members(seq) \cup {x}
         /\ IsInjective(<<x>> \o seq)
<1> DEFINE t == <<x>> \o seq
           n == Len(seq)
<1>1. /\ t \in Seq(S) /\ n \in Nat /\ DOMAIN t = 1..(n + 1) /\ DOMAIN seq = 1..n /\ t[1] = x
      /\ \A i \in 1..(n + 1) : i # 1 => i - 1 \in 1..n /\ t[i] = seq[i - 1]
  OBVIOUS
<1>2. \A i \in 1..n : i + 1 \in 1..(n + 1) /\ t[i + 1] = seq[i]
  OBVIOUS
<1> HIDE DEF t, n
<1>3. Members(t) \subseteq Members(seq) \cup {x}
  BY <1>1 DEF Members
<1>4. Members(seq) \cup {x} \subseteq Members(t)
  <2>1. x \in Members(t)
    <3>1. 1 \in 1..(n + 1)
      BY <1>1
    <3> QED
      BY <1>1, <3>1, Zenon DEF Members
  <2>2. \A y \in Members(seq) : y \in Members(t)
    <3> TAKE y \in Members(seq)
    <3>1. PICK i \in 1..n : y = seq[i]
      BY <1>1 DEF Members
    <3>2. y = t[i + 1] /\ i + 1 \in DOMAIN t
      BY <1>1, <1>2, <3>1
    <3> QED
      BY <3>2 DEF Members
  <2> QED
    BY <2>1, <2>2
<1>5. IsInjective(t)
  <2> SUFFICES ASSUME NEW i \in 1..(n + 1), NEW j \in 1..(n + 1), t[i] = t[j] PROVE i = j
    BY <1>1 DEF IsInjective
  <2>1. \A k \in 1..(n + 1) : k # 1 => t[k] \in Members(seq)
    BY <1>1 DEF Members
  <2>2. CASE i = 1 \/ j = 1
    BY <1>1, <2>1, <2>2
  <2>3. CASE i # 1 /\ j # 1
    <3>1. i - 1 \in 1..n /\ j - 1 \in 1..n /\ seq[i - 1] = seq[j - 1]
      BY <1>1, <2>3
    <3>2. i - 1 = j - 1
      BY <1>1, <3>1, Zenon DEF IsInjective
    <3> QED
      BY <1>1, <3>2
  <2> QED
    BY <2>2, <2>3
<1> QED
  BY <1>1, <1>3, <1>4, <1>5 DEF t

LEMMA CountMembers ==
  ASSUME NEW S, IsFiniteSet(S), NEW seq \in Seq(S), IsInjective(seq)
  PROVE  Len(seq) = Cardinality(Members(seq)) /\ Len(seq) <= Cardinality(S)
<1>1. seq \in Bijection(1..Len(seq), Members(seq))
  BY DEF Members, IsInjective, Bijection, Injection, Surjection
<1>2. ExistsBijection(1..Len(seq), Members(seq))
  BY <1>1 DEF ExistsBijection
<1>3. PICK n \in Nat : n = Len(seq) /\ ExistsBijection(1..n, Members(seq))
  BY <1>2
<1>4. Cardinality(Members(seq)) = n
  BY <1>3, FS_CountingElements
<1>5. Members(seq) \subseteq S
  BY DEF Members
<1>6. Cardinality(Members(seq)) <= Cardinality(S)
  BY <1>5, FS_Subset
<1> QED
  BY <1>3, <1>4, <1>6

Pollfd == [watch : Watch, events : Events, revents : BOOLEAN]

\* The array is in step with the watches, unless a rebuild is asked for.
ArrayInStep ==
  ~rebuild_pollfds =>
    /\ dead \cap Members(watches) = {}
    /\ Len(pollfds) = Cardinality(Members(watches))
    /\ \A w \in Members(watches) :
         /\ idx[w] # 0
         /\ pollfds[idx[w]].watch = w /\ pollfds[idx[w]].events = events[w]

PollTypes ==
  /\ poll_state \in PollStates /\ clock \in Nat /\ wakeup \in BOOLEAN
  /\ watches \in Seq(Watch) /\ IsInjective(watches)
  /\ timeouts \in Seq(Timeout) /\ IsInjective(timeouts)
  /\ dead \subseteq Members(watches) \cup Members(timeouts)
  /\ events \in [Watch -> Events] /\ timeout_expiry \in [Timeout -> Expiries]
  /\ pollfds \in Seq(Pollfd) /\ Len(pollfds) <= Cardinality(Watch)
  /\ idx \in [Watch -> Nat] /\ \A w \in Members(watches) : idx[w] <= Len(pollfds)

\* While poll() waits, either it has been woken up or nothing changed.
Waits ==
  poll_state \in {"PREPARED", "RUNNING"} /\ ~wakeup =>
    /\ ~rebuild_pollfds
    /\ \A t \in Live(timeouts) :
         timeout_expiry[t] # Disabled /\ NearEnough(timeout_expiry[t]) => WakesFor(timeout_expiry[t])

PollIInv ==
  /\ PollTypes /\ ArrayInStep /\ Waits
  /\ dead \cap Members(watches) # {} => watch_req_cleanup

LEMMA PollImplies == PollIInv => PollInv
<1> SUFFICES ASSUME PollIInv PROVE PollInv
  OBVIOUS
<1>1. Members(watches) \subseteq Watch /\ Members(timeouts) \subseteq Timeout
  BY DEF PollIInv, PollTypes, Members
<1>2. \A i \in DOMAIN pollfds : pollfds[i] \in Pollfd
  BY DEF PollIInv, PollTypes
<1>3. \A w \in Members(watches) : idx[w] \in 0..Len(pollfds)
  BY <1>1 DEF PollIInv, PollTypes
<1>4. PollTypeOK
  BY <1>1, <1>2, <1>3 DEF PollIInv, PollTypes, PollTypeOK, Pollfd
<1>5. ~rebuild_pollfds => Live(watches) = Members(watches)
  BY DEF PollIInv, ArrayInStep, Live
<1> QED
  BY <1>4, <1>5 DEF PollIInv, ArrayInStep, Waits, PollInv, PollsWhatIsAsked, NoTimeoutOverslept

LEMMA PollStart == PollInit => PollIInv
<1> SUFFICES ASSUME PollInit PROVE PollIInv
  OBVIOUS
<1>1. /\ poll_state = "INIT" /\ clock = 0 /\ wakeup = TRUE /\ rebuild_pollfds = TRUE
      /\ watches = <<>> /\ timeouts = <<>> /\ pollfds = <<>> /\ dead = {}
      /\ events = [w \in Watch |-> "in"] /\ idx = [w \in Watch |-> 0]
      /\ timeout_expiry = [t \in Timeout |-> Disabled]
  BY DEF PollInit, PollCreated
<1>2. Members(<<>>) = {} /\ IsInjective(<<>>) /\ Len(<<>>) = 0
  BY DEF Members, IsInjective
<1>3. <<>> \in Seq(Watch) /\ <<>> \in Seq(Timeout) /\ <<>> \in Seq(Pollfd)
  OBVIOUS
<1>4. Disabled \in Expiries /\ 0 <= Cardinality(Watch)
  BY PollAssumption, FS_CardinalityType DEF Disabled, Expiries
<1>5. events \in [Watch -> Events] /\ idx \in [Watch -> Nat] /\ timeout_expiry \in [Timeout -> Expiries]
  BY <1>1, <1>4 DEF Events
<1>6. PollTypes
  BY <1>1, <1>2, <1>3, <1>4, <1>5 DEF PollTypes, PollStates
<1> QED
  BY <1>1, <1>2, <1>6 DEF PollIInv, ArrayInStep, Waits

LEMMA CleanupDrops ==
  ASSUME PollIInv, Cleanup
  PROVE  /\ watches' \in Seq(Watch) /\ IsInjective(watches') /\ Members(watches') = Live(watches)
         /\ timeouts' \in Seq(Timeout) /\ IsInjective(timeouts')
         /\ Members(timeouts') \ dead' \subseteq Live(timeouts)
         /\ dead' \subseteq Members(watches') \cup Members(timeouts')
         /\ dead' \cap Members(watches') = {}
<1> DEFINE ct == timeout_req_cleanup /\ ~watch_req_cleanup
<1>1. /\ watches' = IF watch_req_cleanup THEN Alive(watches) ELSE watches
      /\ timeouts' = IF ct THEN Alive(timeouts) ELSE timeouts
      /\ dead' = dead \ ((IF watch_req_cleanup THEN Members(watches) ELSE {})
                         \cup (IF ct THEN Members(timeouts) ELSE {}))
  BY DEF Cleanup
<1> HIDE DEF ct
<1>2. /\ watches \in Seq(Watch) /\ IsInjective(watches)
      /\ timeouts \in Seq(Timeout) /\ IsInjective(timeouts)
      /\ dead \subseteq Members(watches) \cup Members(timeouts)
      /\ dead \cap Members(watches) # {} => watch_req_cleanup
  BY DEF PollIInv, PollTypes
<1>3. Members(watches) \cap Members(timeouts) = {}
  <2>1. Members(watches) \subseteq Watch /\ Members(timeouts) \subseteq Timeout
    BY <1>2 DEF Members
  <2> QED
    BY <2>1, PollAssumption
<1>4. /\ Alive(watches) \in Seq(Watch) /\ Members(Alive(watches)) = Live(watches)
      /\ IsInjective(Alive(watches))
  BY <1>2, AliveSifts DEF Live
<1>5. /\ Alive(timeouts) \in Seq(Timeout) /\ Members(Alive(timeouts)) = Live(timeouts)
      /\ IsInjective(Alive(timeouts))
  BY <1>2, AliveSifts DEF Live
<1>6. watches' \in Seq(Watch) /\ IsInjective(watches') /\ Members(watches') = Live(watches)
  BY <1>1, <1>2, <1>4 DEF Live
<1>7. timeouts' \in Seq(Timeout) /\ IsInjective(timeouts')
  BY <1>1, <1>2, <1>5
<1>8. Members(timeouts') \ dead' \subseteq Live(timeouts)
  BY <1>1, <1>2, <1>3, <1>5 DEF Live
<1>9. dead' \subseteq Members(watches') \cup Members(timeouts') /\ dead' \cap Members(watches') = {}
  BY <1>1, <1>2, <1>3, <1>5, <1>6 DEF Live
<1> QED
  BY <1>6, <1>7, <1>8, <1>9

\* Actions that leave the watches alone and keep poll() from waiting, or wake it up
LEMMA WatchesAlone ==
  ASSUME PollIInv, UNCHANGED watchVars, poll_state' \in PollStates, clock' \in Nat,
         wakeup' \in BOOLEAN, timeouts' \in Seq(Timeout), IsInjective(timeouts'),
         timeout_expiry' \in [Timeout -> Expiries],
         dead' \subseteq Members(watches) \cup Members(timeouts'),
         dead' \cap Members(watches) = dead \cap Members(watches), Waits'
  PROVE  PollIInv'
<1>1. UNCHANGED <<watches, events, idx, pollfds, rebuild_pollfds, watch_req_cleanup>>
  BY DEF watchVars
<1>2. PollTypes'
  BY <1>1 DEF PollIInv, PollTypes
<1>3. ArrayInStep'
  BY <1>1 DEF PollIInv, ArrayInStep
<1> QED
  BY <1>1, <1>2, <1>3 DEF PollIInv

LEMMA LoopKeeps ==
  ASSUME PollIInv,
         avahi_simple_poll_run \/ PollInterrupted \/ PollFails \/ DispatchWatches \/ CallbackReturns
           \/ avahi_simple_poll_quit \/ ClockTick
  PROVE  PollIInv'
<1>1. /\ UNCHANGED <<watchVars, timeouts, timeout_expiry, dead>>
      /\ wakeup' = wakeup \/ wakeup' = TRUE
      /\ UNCHANGED clock \/ clock' = clock + 1
      /\ poll_state' \in PollStates
  BY DEF avahi_simple_poll_run, PollInterrupted, PollFails, DispatchWatches, CallbackReturns,
         avahi_simple_poll_quit, avahi_simple_poll_wakeup, ClockTick, timeoutVars, PollStates, PollIInv, PollTypes
<1>2. UNCHANGED <<prepared_timeout, prepared_at, rebuild_pollfds>>
  BY DEF avahi_simple_poll_run, PollInterrupted, PollFails, DispatchWatches, CallbackReturns,
         avahi_simple_poll_quit, ClockTick, watchVars, sleepVars
<1>3. poll_state' \in {"PREPARED", "RUNNING"} => poll_state \in {"PREPARED", "RUNNING"}
  BY DEF avahi_simple_poll_run, PollInterrupted, PollFails, DispatchWatches, CallbackReturns,
         avahi_simple_poll_quit, ClockTick
<1>4. clock' \in Nat
  BY <1>1 DEF PollIInv, PollTypes
<1>5. Waits'
  BY <1>1, <1>2, <1>3 DEF PollIInv, Waits, Live, NearEnough, WakesFor
<1>6. wakeup' \in BOOLEAN
  BY <1>1 DEF PollIInv, PollTypes
<1> QED
  BY <1>1, <1>2, <1>4, <1>5, <1>6, WatchesAlone DEF PollIInv, PollTypes

\* Calls of the API wake poll() up.
LEMMA TimeoutsKeep ==
  ASSUME PollIInv, NEW t \in Timeout, NEW e \in Expiries,
         timeout_new(t, e) \/ timeout_update(t, e) \/ timeout_free(t)
  PROVE  PollIInv'
<1>1. /\ UNCHANGED <<watchVars, loopVars>> /\ wakeup' = TRUE
      /\ timeout_expiry' = timeout_expiry \/ timeout_expiry' = [timeout_expiry EXCEPT ![t] = e]
  BY DEF timeout_new, timeout_update, timeout_free, avahi_simple_poll_wakeup
<1>2. UNCHANGED <<poll_state, clock, watches>>
  BY <1>1 DEF loopVars, watchVars
<1>3. /\ watches \in Seq(Watch) /\ timeouts \in Seq(Timeout) /\ IsInjective(timeouts)
      /\ dead \subseteq Members(watches) \cup Members(timeouts)
      /\ timeout_expiry \in [Timeout -> Expiries]
  BY DEF PollIInv, PollTypes
<1>4. t \notin Members(watches)
  BY <1>3, PollAssumption DEF Members
<1>5. /\ timeouts' \in Seq(Timeout) /\ IsInjective(timeouts')
      /\ dead' \subseteq Members(watches) \cup Members(timeouts')
      /\ dead' \cap Members(watches) = dead \cap Members(watches)
  <2>1. CASE timeout_new(t, e)
    <3>1. timeouts' = <<t>> \o timeouts /\ dead' = dead /\ t \notin Members(timeouts)
      BY <2>1 DEF timeout_new
    <3> QED
      BY <1>3, <3>1, PrependedIsNew
  <2>2. CASE timeout_update(t, e)
    BY <1>3, <2>2 DEF timeout_update
  <2>3. CASE timeout_free(t)
    BY <1>3, <1>4, <2>3 DEF timeout_free, Live
  <2> QED
    BY <2>1, <2>2, <2>3
<1>6. timeout_expiry' \in [Timeout -> Expiries]
  BY <1>1, <1>3
<1>7. Waits'
  BY <1>1 DEF Waits
<1> QED
  BY <1>1, <1>2, <1>5, <1>6, <1>7, WatchesAlone DEF PollIInv, PollTypes

LEMMA WatchNewKeeps ==
  ASSUME PollIInv, NEW w \in Watch, NEW ev \in Events, watch_new(w, ev)
  PROVE  PollIInv'
<1>1. /\ w \notin Members(watches) /\ wakeup' = TRUE /\ watches' = <<w>> \o watches
      /\ events' = [events EXCEPT ![w] = ev] /\ idx' = [idx EXCEPT ![w] = 0]
      /\ rebuild_pollfds' = TRUE
      /\ UNCHANGED <<dead, pollfds, watch_req_cleanup, timeouts, timeout_expiry, poll_state, clock>>
  BY DEF watch_new, avahi_simple_poll_wakeup, timeoutVars, loopVars
<1>2. PollTypes
  BY DEF PollIInv
<1>3. /\ watches' \in Seq(Watch) /\ IsInjective(watches')
      /\ Members(watches') = Members(watches) \cup {w}
  BY <1>1, <1>2, PrependedIsNew DEF PollTypes
<1>4. idx' \in [Watch -> Nat] /\ \A v \in Members(watches') : idx'[v] <= Len(pollfds)
  <2>1. idx' \in [Watch -> Nat] /\ Members(watches) \subseteq Watch
    BY <1>1, <1>2 DEF PollTypes, Members
  <2>2. Len(pollfds) \in Nat
    BY <1>2 DEF PollTypes
  <2>3. \A v \in Members(watches) : idx'[v] = idx[v] /\ idx[v] <= Len(pollfds)
    BY <1>1, <1>2, <2>1 DEF PollTypes
  <2>4. idx'[w] = 0
    BY <1>1, <1>2 DEF PollTypes
  <2> QED
    BY <1>3, <2>1, <2>2, <2>3, <2>4
<1>5. PollTypes'
  BY <1>1, <1>2, <1>3, <1>4 DEF PollTypes
<1>6. w \notin dead
  <2>1. w \notin Members(timeouts)
    BY <1>2, PollAssumption DEF PollTypes, Members
  <2> QED
    BY <1>1, <1>2, <2>1 DEF PollTypes
<1>7. (dead \cap Members(watches) # {} => watch_req_cleanup)'
  BY <1>1, <1>3, <1>6 DEF PollIInv
<1> QED
  BY <1>1, <1>5, <1>7 DEF PollIInv, ArrayInStep, Waits

LEMMA WatchUpdateKeeps ==
  ASSUME PollIInv, NEW w \in Watch, NEW ev \in Events, watch_update(w, ev)
  PROVE  PollIInv'
<1> DEFINE fd == Fd(w, ev, FALSE)
<1>1. /\ w \in Members(watches) \ dead /\ wakeup' = TRUE
      /\ events' = [events EXCEPT ![w] = ev]
      /\ UNCHANGED <<dead, watches, idx, watch_req_cleanup, timeouts, timeout_expiry, poll_state, clock>>
  BY DEF watch_update, avahi_simple_poll_wakeup, timeoutVars, loopVars, Live
<1>2. PollTypes /\ ArrayInStep /\ (dead \cap Members(watches) # {} => watch_req_cleanup)
  BY DEF PollIInv
<1>3. fd \in Pollfd /\ fd.watch = w /\ fd.events = ev
  BY DEF Fd, Pollfd
<1>4. \/ idx[w] # 0 /\ pollfds' = [pollfds EXCEPT ![idx[w]] = fd] /\ UNCHANGED rebuild_pollfds
      \/ idx[w] = 0 /\ rebuild_pollfds' = TRUE /\ UNCHANGED pollfds
  BY DEF watch_update
<1> HIDE DEF fd
<1>5. pollfds' \in Seq(Pollfd) /\ Len(pollfds') = Len(pollfds)
  BY <1>2, <1>3, <1>4 DEF PollTypes
<1>6. events' \in [Watch -> Events]
  BY <1>1, <1>2 DEF PollTypes
<1>7. PollTypes'
  BY <1>1, <1>2, <1>5, <1>6 DEF PollTypes
<1>8. ArrayInStep'
  <2> SUFFICES ASSUME ~rebuild_pollfds'
               PROVE  /\ Len(pollfds') = Cardinality(Members(watches))
                      /\ dead \cap Members(watches) = {}
                      /\ \A v \in Members(watches) :
                           /\ idx[v] # 0
                           /\ pollfds'[idx[v]].watch = v /\ pollfds'[idx[v]].events = events'[v]
    BY <1>1 DEF ArrayInStep
  <2>1. idx[w] # 0 /\ pollfds' = [pollfds EXCEPT ![idx[w]] = fd] /\ ~rebuild_pollfds
    BY <1>4
  <2>2. \A v \in Members(watches) : v \in Watch /\ idx[v] # 0 /\ idx[v] \in DOMAIN pollfds
                                    /\ pollfds[idx[v]].watch = v /\ pollfds[idx[v]].events = events[v]
    <3>1. Members(watches) \subseteq Watch /\ DOMAIN pollfds = 1..Len(pollfds) /\ Len(pollfds) \in Nat
      BY <1>2 DEF PollTypes, Members
    <3> QED
      BY <1>2, <2>1, <3>1 DEF PollTypes, ArrayInStep
  <2>3. ASSUME NEW v \in Members(watches)
        PROVE  pollfds'[idx[v]].watch = v /\ pollfds'[idx[v]].events = events'[v]
    <3>1. CASE v = w
      BY <1>1, <1>2, <1>3, <2>1, <2>2, <3>1 DEF PollTypes
    <3>2. CASE v # w
      <4>1. idx[v] # idx[w]
        BY <1>1, <2>2, <3>2
      <4>2. pollfds'[idx[v]] = pollfds[idx[v]] /\ events'[v] = events[v]
        BY <1>1, <1>2, <2>1, <2>2, <3>2, <4>1 DEF PollTypes
      <4> QED
        BY <2>2, <4>2
    <3> QED
      BY <3>1, <3>2
  <2> QED
    BY <1>2, <1>5, <2>1, <2>2, <2>3 DEF ArrayInStep
<1> QED
  BY <1>1, <1>2, <1>7, <1>8 DEF PollIInv, Waits

LEMMA WatchFreeKeeps ==
  ASSUME PollIInv, NEW w \in Watch, watch_free(w)
  PROVE  PollIInv'
<1>1. /\ w \in Members(watches) /\ wakeup' = TRUE /\ dead' = dead \cup {w} /\ watch_req_cleanup' = TRUE
      /\ rebuild_pollfds' = (idx[w] # 0 \/ rebuild_pollfds)
      /\ UNCHANGED <<watches, events, idx, pollfds, timeouts, timeout_expiry, poll_state, clock>>
  BY DEF watch_free, avahi_simple_poll_wakeup, timeoutVars, loopVars, Live
<1>2. PollTypes'
  BY <1>1 DEF PollIInv, PollTypes
<1>3. ArrayInStep'
  BY <1>1 DEF PollIInv, ArrayInStep
<1> QED
  BY <1>1, <1>2, <1>3 DEF PollIInv, Waits

LEMMA ReturnKeeps ==
  ASSUME PollIInv, NEW ready, PollReturns(ready)
  PROVE  PollIInv'
<1>1. /\ pollfds' = [i \in DOMAIN pollfds |-> [pollfds[i] EXCEPT !.revents = i \in ready]]
      /\ poll_state' = "RAN"
      /\ UNCHANGED <<watches, dead, events, idx, rebuild_pollfds, wakeup, watch_req_cleanup, clock,
                     timeouts, timeout_expiry>>
  BY DEF PollReturns, timeoutVars
<1>2. PollTypes /\ ArrayInStep
  BY DEF PollIInv
<1>3. /\ pollfds' \in Seq(Pollfd) /\ Len(pollfds') = Len(pollfds)
      /\ \A i \in 1..Len(pollfds) : pollfds'[i].watch = pollfds[i].watch /\ pollfds'[i].events = pollfds[i].events
  <2>1. Len(pollfds) \in Nat /\ pollfds \in [1..Len(pollfds) -> Pollfd] /\ DOMAIN pollfds = 1..Len(pollfds)
    BY <1>2 DEF PollTypes
  <2>2. \A f \in Pollfd, b \in BOOLEAN :
          /\ [f EXCEPT !.revents = b] \in Pollfd
          /\ [f EXCEPT !.revents = b].watch = f.watch /\ [f EXCEPT !.revents = b].events = f.events
    BY DEF Pollfd
  <2> DEFINE n == Len(pollfds)
  <2> HIDE DEF n
  <2>3. DOMAIN pollfds = 1..n /\ \A i \in 1..n : pollfds[i] \in Pollfd
    BY <2>1 DEF n
  <2>4. DOMAIN pollfds' = 1..n /\ \A i \in 1..n : pollfds'[i] = [pollfds[i] EXCEPT !.revents = i \in ready]
    BY <1>1, <2>3, Zenon
  <2>5. \A i \in 1..n : (i \in ready) \in BOOLEAN
    OBVIOUS
  <2>6. \A i \in 1..n : /\ pollfds'[i] \in Pollfd
                       /\ pollfds'[i].watch = pollfds[i].watch /\ pollfds'[i].events = pollfds[i].events
    <3> TAKE i \in 1..n
    <3>1. PICK b \in BOOLEAN : b = (i \in ready)
      BY <2>5
    <3>2. pollfds[i] \in Pollfd /\ pollfds'[i] = [pollfds[i] EXCEPT !.revents = b]
      BY <2>3, <2>4, <3>1, Zenon
    <3> QED
      BY <2>2, <3>2, Zenon
  <2>7. pollfds' = [i \in 1..n |-> pollfds'[i]]
    BY <1>1, <2>3, <2>4, Zenon
  <2>8. pollfds' \in [1..n -> Pollfd]
    BY <2>6, <2>7, Zenon
  <2>9. n \in Nat
    BY <2>1 DEF n
  <2>10. pollfds' \in Seq(Pollfd) /\ Len(pollfds') = n
    BY <2>8, <2>9
  <2> QED
    BY <2>6, <2>10 DEF n
<1>4. PollTypes'
  BY <1>1, <1>2, <1>3 DEF PollTypes, PollStates
<1>5. ArrayInStep'
  <2>1. \A v \in Members(watches) : v \in Watch /\ idx[v] \in Nat /\ idx[v] <= Len(pollfds)
    BY <1>2 DEF PollTypes, Members
  <2>2. Len(pollfds) \in Nat
    BY <1>2 DEF PollTypes
  <2>3. \A v \in Members(watches) : idx[v] # 0 => idx[v] \in 1..Len(pollfds)
    BY <2>1, <2>2
  <2> QED
    BY <1>1, <1>2, <1>3, <2>3 DEF ArrayInStep
<1> QED
  BY <1>1, <1>4, <1>5 DEF PollIInv, Waits

\* The earliest of the enabled timeouts
LEMMA NextTimeout ==
  ASSUME PollIInv, Enabled # {}
  PROVE  /\ find_next_timeout \in Timeout /\ timeout_expiry[find_next_timeout] \in Nat
         /\ \A i \in Enabled : timeout_expiry[find_next_timeout] <= timeout_expiry[timeouts[i]]
<1> DEFINE x(i) == timeout_expiry[timeouts[i]]
           First(i) == \A j \in Enabled : x(i) < x(j) \/ (x(i) = x(j) /\ i <= j)
           X == {x(i) : i \in Enabled}
<1>1. /\ timeouts \in [1..Len(timeouts) -> Timeout] /\ Enabled \subseteq 1..Len(timeouts)
      /\ timeout_expiry \in [Timeout -> Expiries] /\ Expiry \subseteq Nat
  BY PollAssumption DEF PollIInv, PollTypes, Enabled
<1>2. Enabled \in SUBSET Nat /\ \A i \in Enabled : timeouts[i] \in Timeout /\ x(i) \in Nat
  <2> SUFFICES ASSUME NEW i \in Enabled PROVE timeouts[i] \in Timeout /\ x(i) \in Nat
    BY <1>1
  <2>1. timeouts[i] \in Timeout /\ x(i) \in Expiries /\ x(i) # Disabled
    BY <1>1 DEF Enabled
  <2>2. \A e \in Expiries : e = Disabled \/ e \in Nat
    BY <1>1 DEF Expiries
  <2> QED
    BY <2>1, <2>2
<1>3. find_next_timeout = timeouts[CHOOSE i \in Enabled : First(i)]
  BY DEF find_next_timeout
<1> HIDE DEF x, X
<1>4. PICK m \in X : \A k \in X : ~(k < m)
  <2>1. X \in SUBSET Nat /\ X # {}
    BY <1>2 DEF X
  <2> QED
    BY <2>1, Sifting!LeastNat
<1> DEFINE Y == {i \in Enabled : x(i) = m}
<1>5. PICK i \in Y : \A j \in Y : ~(j < i)
  <2>1. Y \in SUBSET Nat /\ Y # {}
    BY <1>2, <1>4 DEF X
  <2> QED
    BY <2>1, Sifting!LeastNat
<1>6. First(i)
  <2> SUFFICES ASSUME NEW j \in Enabled PROVE x(i) < x(j) \/ (x(i) = x(j) /\ i <= j)
    OBVIOUS
  <2>1. x(j) \in Nat /\ x(j) \in X /\ x(i) = m /\ m \in Nat /\ i \in Nat /\ j \in Nat
    BY <1>2, <1>4, <1>5 DEF X
  <2>2. ~(x(j) < m)
    BY <1>4, <2>1
  <2>3. x(j) = m => ~(j < i)
    BY <1>5
  <2> QED
    BY <2>1, <2>2, <2>3
<1> HIDE DEF First
<1>7. PICK l : l = CHOOSE k \in Enabled : First(k)
  OBVIOUS
<1>8. l \in Enabled /\ First(l)
  BY <1>5, <1>6, <1>7
<1>9. find_next_timeout = timeouts[l]
  BY <1>3, <1>7
<1>10. \A j \in Enabled : x(l) <= x(j)
  <2> TAKE j \in Enabled
  <2>1. x(l) \in Nat /\ x(j) \in Nat /\ (x(l) < x(j) \/ x(l) = x(j))
    BY <1>2, <1>8 DEF First
  <2> QED
    BY <2>1
<1> QED
  BY <1>2, <1>8, <1>9, <1>10 DEF x

LEMMA QuitKeeps ==
  ASSUME PollIInv, PrepareQuit
  PROVE  PollIInv'
<1>1. /\ Cleanup /\ poll_state' = "QUIT" /\ wakeup' = FALSE
      /\ UNCHANGED <<idx, pollfds, rebuild_pollfds, clock, events, timeout_expiry>>
  BY DEF PrepareQuit, Cleanup
<1>2. PollTypes /\ ArrayInStep
  BY DEF PollIInv
<1>3. /\ watches' \in Seq(Watch) /\ IsInjective(watches') /\ Members(watches') = Live(watches)
      /\ timeouts' \in Seq(Timeout) /\ IsInjective(timeouts')
      /\ dead' \subseteq Members(watches') \cup Members(timeouts')
      /\ dead' \cap Members(watches') = {}
  BY <1>1, CleanupDrops
<1>4. PollTypes'
  BY <1>1, <1>2, <1>3 DEF PollTypes, PollStates, Live
<1>5. ~rebuild_pollfds => Live(watches) = Members(watches)
  BY <1>2 DEF ArrayInStep, Live
<1>6. ArrayInStep'
  BY <1>1, <1>2, <1>3, <1>5 DEF ArrayInStep
<1> QED
  BY <1>1, <1>3, <1>4, <1>6 DEF PollIInv, Waits

\* The array built from the live watches
LEMMA RebuiltInStep ==
  ASSUME PollIInv, rebuild_pollfds, NEW ws, ws = Alive(watches), rebuild(ws)
  PROVE  /\ pollfds' \in Seq(Pollfd) /\ Len(pollfds') = Cardinality(Live(watches))
         /\ Len(pollfds') <= Cardinality(Watch) /\ idx' \in [Watch -> Nat]
         /\ \A w \in Live(watches) :
              /\ idx'[w] # 0 /\ idx'[w] <= Len(pollfds')
              /\ pollfds'[idx'[w]].watch = w /\ pollfds'[idx'[w]].events = events[w]
<1>1. /\ ws \in Seq(Watch) /\ Members(ws) = Live(watches) /\ IsInjective(ws)
      /\ events \in [Watch -> Events] /\ idx \in [Watch -> Nat]
  BY AliveSifts DEF PollIInv, PollTypes, Live
<1> DEFINE n == Len(ws)
<1>2. n \in Nat /\ DOMAIN ws = 1..n /\ \A i \in 1..n : ws[i] \in Watch
  BY <1>1
<1>3. n = Cardinality(Live(watches)) /\ n <= Cardinality(Watch)
  BY <1>1, PollAssumption, CountMembers
<1> HIDE DEF n
<1>4. \A i \in 1..n : /\ Fd(ws[i], events[ws[i]], FALSE) \in Pollfd
                      /\ Fd(ws[i], events[ws[i]], FALSE).watch = ws[i]
                      /\ Fd(ws[i], events[ws[i]], FALSE).events = events[ws[i]]
  BY <1>1, <1>2 DEF Fd, Pollfd
<1>5. pollfds' = [i \in 1..n |-> Fd(ws[i], events[ws[i]], FALSE)]
  BY DEF rebuild, Rebuilt, n
<1>6. pollfds' \in Seq(Pollfd) /\ Len(pollfds') = n
  <2>1. \A i \in 1..n : pollfds'[i] \in Pollfd
    BY <1>4, <1>5, Zenon
  <2>2. pollfds' = [i \in 1..n |-> pollfds'[i]]
    BY <1>5, Zenon
  <2>3. pollfds' \in [1..n -> Pollfd]
    BY <2>1, <2>2, Zenon
  <2> QED
    BY <1>2, <2>3
<1>7. \A i \in 1..n : pollfds'[i].watch = ws[i] /\ pollfds'[i].events = events[ws[i]]
  BY <1>4, <1>5, Zenon
<1>8. \A w \in Members(ws) : idx'[w] \in 1..n /\ ws[idx'[w]] = w
  <2> TAKE w \in Members(ws)
  <2>1. PICK i \in DOMAIN ws : ws[i] = w
    BY DEF Members
  <2>2. w \in Watch
    BY <1>2, <2>1
  <2>3. idx'[w] = CHOOSE k \in DOMAIN ws : ws[k] = w
    BY <2>2 DEF rebuild
  <2>4. idx'[w] \in DOMAIN ws /\ ws[idx'[w]] = w
    BY <2>1, <2>3, Zenon
  <2> QED
    BY <1>2, <2>4
<1>9. idx' \in [Watch -> Nat]
  <2>1. \A w \in Watch : idx'[w] \in Nat
    <3> TAKE w \in Watch
    <3>1. CASE w \in Members(ws)
      BY <1>2, <1>8, <3>1
    <3>2. CASE w \notin Members(ws)
      <4>1. idx'[w] = idx[w]
        BY <3>2 DEF rebuild
      <4> QED
        BY <1>1, <4>1
    <3> QED
      BY <3>1, <3>2
  <2>2. idx' = [w \in Watch |-> idx'[w]]
    BY DEF rebuild
  <2> QED
    BY <2>1, <2>2
<1>10. \A w \in Live(watches) : idx'[w] # 0 /\ idx'[w] <= n
  BY <1>1, <1>2, <1>8
<1> QED
  BY <1>1, <1>3, <1>6, <1>7, <1>8, <1>9, <1>10

LEMMA QuotientOf ==
  ASSUME NEW d \in Nat, NEW m \in Nat \ {0}
  PROVE  d \div m \in Nat /\ (d \div m) * m <= d /\ d < (d \div m + 1) * m
OBVIOUS

LEMMA QuotientGrows ==
  ASSUME NEW c \in Nat, NEW d \in Nat, c <= d, NEW m \in Nat \ {0}
  PROVE  c \div m <= d \div m
<1>1. PICK p, q \in Nat : p = c \div m /\ q = d \div m
  BY QuotientOf
<1>2. p * m <= c /\ d < (q + 1) * m
  BY <1>1, QuotientOf
<1>3. p * m < (q + 1) * m
  BY <1>2
<1>4. p < q + 1
  BY <1>3
<1> QED
  BY <1>1, <1>4

LEMMA FitsInInt ==
  ASSUME NEW n \in Nat, n <= IntMax
  PROVE  InInt(n) = n
BY PollAssumption DEF InInt

\* A sleep of the computed length ends in time for any timeout that is no earlier than the
\* one it is computed for, and not too far.
LEMMA SleepsInTime ==
  ASSUME NEW first \in Nat, NEW e \in Nat, NEW at \in Nat, first <= e,
         (e - at) \div PollMillisecond < IntMax
  PROVE  LET t == SleepTime(first - at) IN
         t \in Nat /\ (t = 0 \/ t * PollMillisecond <= e - at + PollMillisecond)
<1> DEFINE d == first - at
           ms == PollMillisecond
           q == d \div ms
<1>1. ms \in Nat \ {0} /\ IntMax \in Nat
  BY PollAssumption
<1>2. CASE d <= 0
  BY <1>2 DEF SleepTime
<1>3. CASE d > 0
  <2> HIDE DEF ms
  <2>1. d \in Nat /\ d <= e - at /\ e - at \in Nat
    BY <1>3
  <2>2. q \in Nat /\ q * ms <= d
    BY <1>1, <2>1, QuotientOf
  <2>3. q < IntMax
    <3>1. q <= (e - at) \div ms
      BY <1>1, <2>1, QuotientGrows
    <3>2. (e - at) \div ms \in Nat
      BY <1>1, <2>1, QuotientOf
    <3> QED
      BY <1>1, <2>2, <3>1, <3>2 DEF ms
  <2> HIDE DEF q
  <2>4. InInt(q) = q /\ InInt(q + 1) = q + 1
    BY <1>1, <2>2, <2>3, FitsInInt
  <2>5. SleepTime(d) = q + 1
    BY <1>3, <2>4 DEF SleepTime, q, ms
  <2>6. (q + 1) * ms <= e - at + ms
    <3>1. (q + 1) * ms = q * ms + ms /\ q * ms \in Nat
      BY <1>1, <2>2
    <3> QED
      BY <1>1, <2>1, <2>2, <3>1
  <2> QED
    BY <2>2, <2>5, <2>6 DEF ms
<1> QED
  BY <1>2, <1>3

LEMMA PrepareKeeps ==
  ASSUME PollIInv, avahi_simple_poll_prepare
  PROVE  PollIInv'
<1>1. /\ Cleanup /\ poll_state' = "PREPARED" /\ wakeup' = FALSE /\ rebuild_pollfds' = FALSE
      /\ prepared_timeout' = IF Enabled = {} THEN -1
                             ELSE SleepTime(timeout_expiry[find_next_timeout] - clock)
      /\ prepared_at' = clock
      /\ rebuild(Alive(watches))
      /\ UNCHANGED <<clock, events, timeout_expiry>>
  BY DEF avahi_simple_poll_prepare, Cleanup
<1>2. PollTypes /\ ArrayInStep
  BY DEF PollIInv
<1>3. /\ watches' \in Seq(Watch) /\ IsInjective(watches') /\ Members(watches') = Live(watches)
      /\ timeouts' \in Seq(Timeout) /\ IsInjective(timeouts')
      /\ Members(timeouts') \ dead' \subseteq Live(timeouts)
      /\ dead' \subseteq Members(watches') \cup Members(timeouts')
      /\ dead' \cap Members(watches') = {}
  BY <1>1, CleanupDrops
<1>4. /\ pollfds' \in Seq(Pollfd) /\ Len(pollfds') = Cardinality(Live(watches))
      /\ Len(pollfds') <= Cardinality(Watch) /\ idx' \in [Watch -> Nat]
      /\ \A w \in Live(watches) :
           /\ idx'[w] # 0 /\ idx'[w] <= Len(pollfds')
           /\ pollfds'[idx'[w]].watch = w /\ pollfds'[idx'[w]].events = events[w]
  <2>1. CASE rebuild_pollfds
    <3>1. PICK ws : ws = Alive(watches)
      OBVIOUS
    <3>2. rebuild(ws)
      BY <1>1, <3>1
    <3> QED
      BY <2>1, <3>1, <3>2, RebuiltInStep
  <2>2. CASE ~rebuild_pollfds
    <3>1. UNCHANGED <<pollfds, idx>>
      BY <1>1, <2>2 DEF rebuild
    <3>2. Live(watches) = Members(watches)
      BY <1>2, <2>2 DEF ArrayInStep, Live
    <3> QED
      BY <1>2, <2>2, <3>1, <3>2 DEF ArrayInStep, PollTypes
  <2> QED
    BY <2>1, <2>2
<1>5. \A t \in Live(timeouts) :
        timeout_expiry[t] # Disabled /\ NearEnough(timeout_expiry[t])' => WakesFor(timeout_expiry[t])'
  <2> SUFFICES ASSUME NEW t \in Live(timeouts), timeout_expiry[t] # Disabled,
                      NearEnough(timeout_expiry[t])'
               PROVE  WakesFor(timeout_expiry[t])'
    OBVIOUS
  <2>1. PICK i \in Enabled : timeouts[i] = t
    BY DEF Live, Members, Enabled
  <2> DEFINE first == timeout_expiry[find_next_timeout]
             e == timeout_expiry[t]
  <2>2. first \in Nat /\ first <= e /\ clock \in Nat
    BY <1>2, <2>1, NextTimeout DEF PollTypes
  <2>3. e \in Nat /\ timeout_expiry' = timeout_expiry
    <3>1. timeout_expiry \in [Timeout -> Expiries] /\ t \in Timeout
      BY <1>2 DEF PollTypes, Live, Members
    <3> QED
      BY <1>1, <3>1, PollAssumption DEF Expiries
  <2>4. prepared_timeout' = SleepTime(first - clock) /\ prepared_at' = clock
    BY <1>1, <2>1
  <2>5. (e - clock) \div PollMillisecond < IntMax
    BY <2>3, <2>4 DEF NearEnough
  <2> HIDE DEF first, e
  <2>6. /\ SleepTime(first - clock) \in Nat
        /\ \/ SleepTime(first - clock) = 0
           \/ SleepTime(first - clock) * PollMillisecond <= e - clock + PollMillisecond
    BY <2>2, <2>3, <2>5, SleepsInTime
  <2>7. PollMillisecond \in Nat
    BY PollAssumption
  <2>8. PICK slept \in Int : slept = SleepTime(first - clock) * PollMillisecond
    BY <2>6, <2>7
  <2> QED
    BY <2>2, <2>3, <2>4, <2>6, <2>7, <2>8 DEF WakesFor, e
<1>6. Waits'
  BY <1>1, <1>3, <1>5 DEF Waits, Live, NearEnough, WakesFor
<1>7. PollTypes'
  BY <1>1, <1>2, <1>3, <1>4, <1>5 DEF PollTypes, PollStates
<1>8. ArrayInStep'
  BY <1>1, <1>3, <1>4 DEF ArrayInStep
<1> QED
  BY <1>3, <1>6, <1>7, <1>8 DEF PollIInv

LEMMA TimeoutDispatched ==
  ASSUME PollIInv, DispatchTimeout
  PROVE  PollIInv'
<1>1. /\ timeout_expiry' = [timeout_expiry EXCEPT ![find_next_timeout] = Disabled]
      /\ poll_state' = "DISPATCHING" /\ UNCHANGED <<wakeup, dead, timeouts, clock, watchVars>>
  BY DEF DispatchTimeout
<1>2. /\ PollTypes /\ Disabled \in Expiries
  BY PollAssumption DEF PollIInv, Expiries, Disabled
<1>3. timeout_expiry' \in [Timeout -> Expiries]
  BY <1>1, <1>2 DEF PollTypes
<1>4. Waits'
  BY <1>1 DEF Waits
<1>5. poll_state' \in PollStates /\ watches' = watches
  BY <1>1 DEF PollStates, watchVars
<1> QED
  BY <1>1, <1>2, <1>3, <1>4, <1>5, WatchesAlone DEF PollTypes

LEMMA PollStep == PollIInv /\ [PollNext]_pollVars => PollIInv'
<1> SUFFICES ASSUME PollIInv, [PollNext]_pollVars PROVE PollIInv'
  OBVIOUS
<1>1. CASE UNCHANGED pollVars
  <2>1. /\ UNCHANGED <<poll_state, watches, dead, events, idx, pollfds, rebuild_pollfds, timeouts>>
        /\ UNCHANGED <<timeout_expiry, wakeup, watch_req_cleanup, clock, prepared_timeout, prepared_at>>
    BY <1>1 DEF pollVars, sleepVars
  <2>2. PollTypes'
    BY <2>1 DEF PollIInv, PollTypes, Members
  <2>3. ArrayInStep'
    BY <2>1 DEF PollIInv, ArrayInStep, Members
  <2>4. Waits'
    BY <2>1 DEF PollIInv, Waits, Live, Members, NearEnough, WakesFor
  <2> QED
    BY <2>1, <2>2, <2>3, <2>4 DEF PollIInv, Members
<1>2. ASSUME NEW w \in Watch, NEW ev \in Events, watch_new(w, ev) PROVE PollIInv'
  BY <1>2, WatchNewKeeps
<1>3. ASSUME NEW w \in Watch, NEW ev \in Events, watch_update(w, ev) PROVE PollIInv'
  BY <1>3, WatchUpdateKeeps
<1>4. ASSUME NEW w \in Watch, watch_free(w) PROVE PollIInv'
  BY <1>4, WatchFreeKeeps
<1>5. ASSUME NEW t \in Timeout, NEW e \in Expiries, timeout_new(t, e) \/ timeout_update(t, e)
      PROVE  PollIInv'
  BY <1>5, TimeoutsKeep
<1>6. ASSUME NEW t \in Timeout, timeout_free(t) PROVE PollIInv'
  <2>1. Disabled \in Expiries
    BY PollAssumption DEF Disabled, Expiries
  <2> QED
    BY <1>6, <2>1, TimeoutsKeep
<1>7. CASE PrepareQuit
  BY <1>7, QuitKeeps
<1>8. CASE avahi_simple_poll_prepare
  BY <1>8, PrepareKeeps
<1>9. ASSUME NEW ready, PollReturns(ready) PROVE PollIInv'
  BY <1>9, ReturnKeeps
<1>10. CASE DispatchTimeout
  BY <1>10, TimeoutDispatched
<1>11. CASE avahi_simple_poll_run \/ PollInterrupted \/ PollFails \/ DispatchWatches
            \/ CallbackReturns \/ avahi_simple_poll_quit \/ ClockTick
  BY <1>11, LoopKeeps
<1> QED
  BY <1>1, <1>2, <1>3, <1>4, <1>5, <1>6, <1>7, <1>8, <1>9, <1>10, <1>11 DEF PollNext

\* poll() waits for exactly what the live watches ask for, and what it is told to sleep ends
\* at most a millisecond past any timeout less than INT_MAX milliseconds away, for any number
\* of watches and timeouts and any resolution of the clock: while it waits, either nothing
\* has changed or it has been woken up.
THEOREM PollSleepsInTime == PollSpec => []PollInv
<1>1. PollSpec => []PollIInv
  BY PollStart, PollStep, PTL DEF PollSpec
<1> QED
  BY <1>1, PollImplies, PTL

-----------------------------------------------------------------------------
(* The records of the clients.                                             *)

Data == Svc \cup Port \cup Text \cup {"type"} \cup Host \cup IP

EntryRec == [id : Ids, version : 0..1, group : Grp, dead : BOOLEAN, key : Key, data : Data,
             unique : BOOLEAN, multiple : BOOLEAN]

DBs == [by_key : [Key -> Seq(EntryRec)], key_of : [Key -> (Ids \X (0..1)) \cup {NoRecord}]]

\* The lists and the hash map are in order: each id is at one place.
GoodDB(db) ==
  /\ db \in DBs
  /\ \A k \in Key : \A i \in DOMAIN db.by_key[k] : db.by_key[k][i].key = k
  /\ \A k, l \in Key : \A i \in DOMAIN db.by_key[k], j \in DOMAIN db.by_key[l] :
       db.by_key[k][i].id = db.by_key[l][j].id => k = l /\ i = j
  /\ \A k \in Key :
       db.key_of[k] = IF db.by_key[k] = <<>> THEN NoRecord ELSE RecordOf(db.by_key[k][1])

UsedIds(db) == {e.id : e \in EntriesOf(db)}

LEMMA EntryHasPlace ==
  ASSUME NEW db, GoodDB(db), NEW e \in EntriesOf(db)
  PROVE  /\ e \in EntryRec
         /\ \E i \in DOMAIN db.by_key[e.key] : db.by_key[e.key][i] = e
<1>1. PICK k \in Key : \E i \in DOMAIN db.by_key[k] : db.by_key[k][i] = e
  BY DEF EntriesOf
<1>2. db.by_key[k] \in Seq(EntryRec)
  BY DEF GoodDB, DBs
<1>3. e.key = k /\ e \in EntryRec
  BY <1>1, <1>2 DEF GoodDB
<1> QED
  BY <1>1, <1>3

LEMMA PlaceHasEntry ==
  ASSUME NEW db, GoodDB(db), NEW k \in Key, NEW i \in DOMAIN db.by_key[k]
  PROVE  /\ db.by_key[k][i] \in EntriesOf(db) /\ db.by_key[k][i] \in EntryRec
         /\ db.by_key[k][i].key = k
<1>1. db.by_key[k] \in Seq(EntryRec)
  BY DEF GoodDB, DBs
<1> QED
  BY <1>1 DEF GoodDB, EntriesOf

LEMMA IdsAreUnique ==
  ASSUME NEW db, GoodDB(db), NEW e \in EntriesOf(db), NEW f \in EntriesOf(db), e.id = f.id
  PROVE  e = f
<1>1. e.key \in Key /\ f.key \in Key
  BY EntryHasPlace DEF EntryRec
<1>2. PICK i \in DOMAIN db.by_key[e.key] : db.by_key[e.key][i] = e
  BY EntryHasPlace
<1>3. PICK j \in DOMAIN db.by_key[f.key] : db.by_key[f.key][j] = f
  BY EntryHasPlace
<1> QED
  BY <1>1, <1>2, <1>3 DEF GoodDB

\* One round of taking an entry out of its list
DropId(p, l, x) == IF x.id = p THEN l ELSE Append(l, x)

Unlinking == INSTANCE FoldProofs WITH Op <- DropId

\* What is left of a list without an entry
LEMMA RestOfList ==
  ASSUME NEW l \in Seq(EntryRec), NEW id,
         \A i, j \in DOMAIN l : l[i].id = l[j].id => i = j,
         NEW rest, rest = ListWithout(l, id)
  PROVE  /\ rest \in Seq(EntryRec)
         /\ \A j \in DOMAIN rest : \E i \in DOMAIN l : rest[j] = l[i] /\ l[i].id # id
         /\ \A i \in DOMAIN l : l[i].id # id => \E j \in DOMAIN rest : rest[j] = l[i]
         /\ \A i, j \in DOMAIN rest : rest[i].id = rest[j].id => i = j
<1> DEFINE n == Len(l)
           q == {x \in EntryRec : x.id = id}
           a == Unlinking!Folded(id, <<>>, l)
<1>1. rest = a
  BY DEF ListWithout, DropId, FoldLeft, MapThenFoldSet, Max, Unlinking!Folded, Unlinking!FoldLeft,
         Unlinking!MapThenFoldSet, Unlinking!Max
<1>2. n \in Nat /\ l \in [1..n -> EntryRec] /\ DOMAIN l = 1..n
  OBVIOUS
<1>3. \A s \in Seq(EntryRec) : \A x \in EntryRec :
        DropId(id, s, x) = IF x \in q THEN s ELSE Append(s, x)
  BY DEF DropId
<1>4. \A x \in EntryRec : x \in q <=> x.id = id
  OBVIOUS
<1> HIDE DEF n, a, q
<1>5. a \in Seq(EntryRec) /\ Unlinking!Sifted(a, q, n, l)
  BY <1>2, <1>3, Unlinking!FoldSifts DEF a
<1>6. rest \in Seq(EntryRec) /\ DOMAIN rest = 1..Len(rest) /\ Len(rest) \in Nat
  BY <1>1, <1>5
<1>7. PICK h \in [1..Len(rest) -> 1..n] :
        /\ \A j \in 1..Len(rest) : rest[j] = l[h[j]] /\ rest[j] \notin q
        /\ \A j, k \in 1..Len(rest) : j < k => h[j] < h[k]
        /\ \A i \in 1..n : l[i] \notin q => \E j \in 1..Len(rest) : h[j] = i
  BY <1>1, <1>5 DEF Unlinking!Sifted, Unlinking!SiftedTo
<1>8. \A j \in DOMAIN rest : \E i \in DOMAIN l : rest[j] = l[i] /\ l[i].id # id
  BY <1>2, <1>4, <1>6, <1>7
<1>9. \A i \in DOMAIN l : l[i].id # id => \E j \in DOMAIN rest : rest[j] = l[i]
  <2> SUFFICES ASSUME NEW i \in 1..n, l[i].id # id PROVE \E j \in 1..Len(rest) : rest[j] = l[i]
    BY <1>2, <1>6
  <2>1. l[i] \notin q
    BY <1>2, <1>4
  <2>2. PICK j \in 1..Len(rest) : h[j] = i
    BY <1>7, <2>1
  <2> QED
    BY <1>7, <2>2
<1>10. \A i, j \in DOMAIN rest : rest[i].id = rest[j].id => i = j
  <2> SUFFICES ASSUME NEW i \in 1..Len(rest), NEW j \in 1..Len(rest), rest[i].id = rest[j].id
               PROVE  i = j
    BY <1>6
  <2>1. h[i] = h[j]
    BY <1>2, <1>7
  <2>2. ~(i < j) /\ ~(j < i)
    BY <1>2, <1>7, <2>1
  <2> QED
    BY <1>6, <2>2
<1> QED
  BY <1>6, <1>8, <1>9, <1>10

\* The first of the list is the one the hash map refers to.
LEMMA UnlinkGood ==
  ASSUME NEW db, GoodDB(db), NEW e \in EntriesOf(db)
  PROVE  /\ GoodDB(avahi_entry_free(db, e))
         /\ EntriesOf(avahi_entry_free(db, e)) = EntriesOf(db) \ {e}
<1> DEFINE k == e.key
           l == db.by_key[k]
           rest == ListWithout(l, e.id)
           ref == IF rest = <<>> THEN NoRecord ELSE RecordOf(rest[1])
           d == [by_key |-> [db.by_key EXCEPT ![k] = rest], key_of |-> [db.key_of EXCEPT ![k] = ref]]
<1>1. avahi_entry_free(db, e) = d
  BY DEF avahi_entry_free, Unlinked
<1>2. e \in EntryRec /\ k \in Key
  BY EntryHasPlace DEF EntryRec
<1>3. PICK m \in DOMAIN l : l[m] = e
  BY EntryHasPlace
<1>4. l \in Seq(EntryRec) /\ \A i, j \in DOMAIN l : l[i].id = l[j].id => i = j
  BY <1>2 DEF GoodDB, DBs
<1>5. /\ rest \in Seq(EntryRec)
      /\ \A j \in DOMAIN rest : \E i \in DOMAIN l : rest[j] = l[i] /\ l[i].id # e.id
      /\ \A i \in DOMAIN l : l[i].id # e.id => \E j \in DOMAIN rest : rest[j] = l[i]
      /\ \A i, j \in DOMAIN rest : rest[i].id = rest[j].id => i = j
  <2>1. PICK r, s, x : r = ListWithout(s, x) /\ s = l /\ x = e.id
    OBVIOUS
  <2> HIDE DEF l, rest
  <2>3. s \in Seq(EntryRec) /\ \A i, j \in DOMAIN s : s[i].id = s[j].id => i = j
    BY <1>4, <2>1
  <2>4. r = ListWithout(s, x)
    BY <2>1
  <2>2. /\ r \in Seq(EntryRec)
        /\ \A j \in DOMAIN r : \E i \in DOMAIN s : r[j] = s[i] /\ s[i].id # x
        /\ \A i \in DOMAIN s : s[i].id # x => \E j \in DOMAIN r : r[j] = s[i]
        /\ \A i, j \in DOMAIN r : r[i].id = r[j].id => i = j
    BY <2>3, <2>4, RestOfList
  <2> QED
    BY <2>1, <2>2 DEF rest
<1> HIDE DEF rest
<1>6. ref \in (Ids \X (0..1)) \cup {NoRecord}
  <2>1. rest # <<>> => rest[1] \in EntryRec
    BY <1>5
  <2> QED
    BY <2>1 DEF RecordOf, EntryRec
<1> HIDE DEF ref
<1>7. /\ d \in DBs
      /\ d.by_key[k] = rest /\ d.key_of[k] = ref
      /\ \A j \in Key : j # k => d.by_key[j] = db.by_key[j] /\ d.key_of[j] = db.key_of[j]
  BY <1>2, <1>5, <1>6 DEF GoodDB, DBs
<1> HIDE DEF d
<1>8. \A j \in Key : \A i \in DOMAIN d.by_key[j] :
        \E h \in DOMAIN db.by_key[j] : d.by_key[j][i] = db.by_key[j][h] /\ (j = k => db.by_key[j][h].id # e.id)
  <2> TAKE j \in Key
  <2>1. CASE j = k
    <3>1. d.by_key[j] = rest /\ db.by_key[j] = l
      BY <1>7, <2>1
    <3> HIDE DEF l, k
    <3> QED
      BY <1>5, <3>1
  <2>2. CASE j # k
    BY <1>7, <2>2
  <2> QED
    BY <2>1, <2>2
<1>9. \A j \in Key : \A i \in DOMAIN d.by_key[j] : d.by_key[j][i].key = j
  BY <1>8 DEF GoodDB
<1>10. ASSUME NEW j1 \in Key, NEW j2 \in Key, NEW i1 \in DOMAIN d.by_key[j1], NEW i2 \in DOMAIN d.by_key[j2],
              d.by_key[j1][i1].id = d.by_key[j2][i2].id
       PROVE  j1 = j2 /\ i1 = i2
  <2>1. PICK h1 \in DOMAIN db.by_key[j1] : d.by_key[j1][i1] = db.by_key[j1][h1]
    BY <1>8
  <2>2. PICK h2 \in DOMAIN db.by_key[j2] : d.by_key[j2][i2] = db.by_key[j2][h2]
    BY <1>8
  <2>3. j1 = j2 /\ h1 = h2
    BY <1>10, <2>1, <2>2 DEF GoodDB
  <2>4. CASE j1 = k
    BY <1>5, <1>7, <1>10, <2>3, <2>4
  <2>5. CASE j1 # k
    BY <1>7, <1>10, <2>3, <2>5 DEF GoodDB
  <2> QED
    BY <2>3, <2>4, <2>5
<1>11. \A j \in Key : d.key_of[j] = IF d.by_key[j] = <<>> THEN NoRecord ELSE RecordOf(d.by_key[j][1])
  BY <1>7 DEF GoodDB, ref
<1>12. GoodDB(d)
  BY <1>7, <1>9, <1>10, <1>11 DEF GoodDB
<1>13. EntriesOf(d) \subseteq EntriesOf(db) \ {e}
  <2> SUFFICES ASSUME NEW f \in EntriesOf(d) PROVE f \in EntriesOf(db) /\ f # e
    OBVIOUS
  <2>1. PICK j \in Key : \E i \in DOMAIN d.by_key[j] : d.by_key[j][i] = f
    BY DEF EntriesOf
  <2>2. PICK h \in DOMAIN db.by_key[j] : f = db.by_key[j][h] /\ (j = k => f.id # e.id)
    BY <1>8, <2>1
  <2>3. f \in EntriesOf(db) /\ f.key = j
    BY <2>2, PlaceHasEntry
  <2> QED
    BY <2>2, <2>3
<1>14. EntriesOf(db) \ {e} \subseteq EntriesOf(d)
  <2> SUFFICES ASSUME NEW f \in EntriesOf(db), f # e PROVE f \in EntriesOf(d)
    OBVIOUS
  <2>1. f.id # e.id
    BY IdsAreUnique
  <2>2. f.key \in Key
    BY EntryHasPlace DEF EntryRec
  <2>3. PICK i \in DOMAIN db.by_key[f.key] : db.by_key[f.key][i] = f
    BY EntryHasPlace
  <2>4. \E j \in DOMAIN d.by_key[f.key] : d.by_key[f.key][j] = f
    BY <1>5, <1>7, <2>1, <2>2, <2>3
  <2> QED
    BY <2>2, <2>4 DEF EntriesOf
<1> QED
  BY <1>1, <1>12, <1>13, <1>14

Record == [key : Key, data : Data, unique : BOOLEAN, multiple : BOOLEAN]

LEMMA UsedIdsBound ==
  ASSUME NEW db, GoodDB(db)
  PROVE  /\ UsedIds(db) \subseteq Ids /\ IsFiniteSet(UsedIds(db)) /\ IsFiniteSet(EntriesOf(db))
         /\ Cardinality(UsedIds(db)) \in Nat
         /\ Cardinality(UsedIds(db)) <= Cardinality(EntriesOf(db))
<1>1. IsFiniteSet(Ids)
  BY EntriesAssumption, FS_Interval DEF Ids
<1>2. UsedIds(db) \subseteq Ids
  BY EntryHasPlace DEF UsedIds, EntryRec
<1>3. IsFiniteSet(UsedIds(db))
  BY <1>1, <1>2, FS_Subset
<1> DEFINE f == [e \in EntriesOf(db) |-> e.id]
<1>4. f \in Injection(EntriesOf(db), UsedIds(db)) /\ f \in Surjection(EntriesOf(db), UsedIds(db))
  BY IdsAreUnique DEF Injection, Surjection, UsedIds, IsInjective
<1> HIDE DEF f
<1>5. IsFiniteSet(EntriesOf(db))
  BY <1>3, <1>4, FS_Injection
<1>6. Cardinality(UsedIds(db)) <= Cardinality(EntriesOf(db))
  BY <1>4, <1>5, FS_Surjection
<1> QED
  BY <1>2, <1>3, <1>5, <1>6, FS_CardinalityType

\* There is an id left.
LEMMA FreshIdIsFree ==
  ASSUME NEW db, GoodDB(db), Cardinality(UsedIds(db)) < MaxServiceEntries + 4
  PROVE  FreshId(db) \in Ids \ UsedIds(db)
<1> DEFINE F == Ids \ UsedIds(db)
           n == MaxServiceEntries + 4
<1>1. n \in Nat /\ Ids = 1..n
  BY EntriesAssumption DEF Ids
<1>2. IsFiniteSet(Ids) /\ Cardinality(Ids) = n
  BY <1>1, FS_Interval
<1>3. F # {}
  <2>1. UsedIds(db) # Ids
    BY <1>1, <1>2, UsedIdsBound
  <2> QED
    BY <2>1, UsedIdsBound
<1>4. F \in SUBSET Nat
  BY <1>1
<1>5. PICK m \in F : \A k \in F : ~(k < m)
  BY <1>3, <1>4, Unlinking!LeastNat
<1>6. \A k \in F : m <= k
  BY <1>4, <1>5
<1>7. FreshId(db) = Min(F)
  BY DEF FreshId, UsedIds
<1> QED
  BY <1>5, <1>6, <1>7 DEF Min

LEMMA AddedGood ==
  ASSUME NEW db, GoodDB(db), Cardinality(UsedIds(db)) < MaxServiceEntries + 4,
         NEW g \in Grp, NEW r \in Record, NEW e, e = Added(db, g, r).entry
  PROVE  /\ GoodDB(Added(db, g, r).db) /\ EntriesOf(Added(db, g, r).db) = EntriesOf(db) \cup {e}
         /\ e \in EntryRec /\ e.id \notin UsedIds(db) /\ e.group = g /\ ~e.dead
         /\ e.key = r.key /\ e.data = r.data /\ e.unique = r.unique /\ e.multiple = r.multiple
<1> DEFINE k == r.key
           l == db.by_key[k]
           t == <<e>> \o l
           ref == RecordOf(e)
           d == [by_key |-> [db.by_key EXCEPT ![k] = t], key_of |-> [db.key_of EXCEPT ![k] = ref]]
<1>1. e = [id |-> FreshId(db), version |-> 0, group |-> g, dead |-> FALSE, key |-> r.key,
           data |-> r.data, unique |-> r.unique, multiple |-> r.multiple]
  BY DEF Added
<1>2. FreshId(db) \in Ids \ UsedIds(db)
  BY FreshIdIsFree
<1>3. 0 \in 0..1
  OBVIOUS
<1>4. /\ e \in EntryRec /\ e.id \notin UsedIds(db) /\ e.group = g /\ ~e.dead
      /\ e.key = r.key /\ e.data = r.data /\ e.unique = r.unique /\ e.multiple = r.multiple
      /\ e.id \in Ids /\ e.version \in 0..1
  BY <1>1, <1>2, <1>3 DEF Record, EntryRec
<1>5. Added(db, g, r).db = d
  BY <1>1 DEF Added
<1>6. k \in Key /\ l \in Seq(EntryRec)
  BY DEF Record, GoodDB, DBs
<1>7. /\ t \in Seq(EntryRec) /\ t # <<>> /\ t[1] = e /\ 1 \in DOMAIN t
      /\ \A i \in DOMAIN t : i # 1 => i - 1 \in DOMAIN l /\ t[i] = l[i - 1]
      /\ \A i \in DOMAIN l : i + 1 \in DOMAIN t /\ t[i + 1] = l[i]
      /\ DOMAIN t \subseteq Nat
  <2>1. PICK s \in Seq(EntryRec) : s = l
    BY <1>6
  <2>2. PICK x \in EntryRec : x = e
    BY <1>4
  <2>3. /\ <<x>> \o s \in Seq(EntryRec) /\ <<x>> \o s # <<>> /\ (<<x>> \o s)[1] = x /\ 1 \in DOMAIN (<<x>> \o s)
        /\ \A i \in DOMAIN (<<x>> \o s) : i # 1 => i - 1 \in DOMAIN s /\ (<<x>> \o s)[i] = s[i - 1]
        /\ \A i \in DOMAIN s : i + 1 \in DOMAIN (<<x>> \o s) /\ (<<x>> \o s)[i + 1] = s[i]
        /\ DOMAIN (<<x>> \o s) \subseteq Nat
    OBVIOUS
  <2> QED
    BY <2>1, <2>2, <2>3
<1> HIDE DEF t
<1>8. ref \in Ids \X (0..1)
  BY <1>4 DEF RecordOf
<1> HIDE DEF ref
<1>9. /\ d \in DBs /\ d.by_key[k] = t /\ d.key_of[k] = ref
      /\ \A j \in Key : j # k => d.by_key[j] = db.by_key[j] /\ d.key_of[j] = db.key_of[j]
  BY <1>6, <1>7, <1>8 DEF GoodDB, DBs
<1> HIDE DEF d
<1>10. \A j \in Key : \A i \in DOMAIN d.by_key[j] :
         \/ j = k /\ i = 1 /\ d.by_key[j][i] = e
         \/ \E h \in DOMAIN db.by_key[j] : d.by_key[j][i] = db.by_key[j][h] /\ h = IF j = k THEN i - 1 ELSE i
  <2> TAKE j \in Key
  <2>1. CASE j = k
    BY <1>7, <1>9, <2>1
  <2>2. CASE j # k
    BY <1>9, <2>2
  <2> QED
    BY <2>1, <2>2
<1>11. \A j \in Key : \A i \in DOMAIN d.by_key[j] : d.by_key[j][i].key = j
  BY <1>4, <1>10 DEF GoodDB
<1>12. \A j \in Key : \A h \in DOMAIN db.by_key[j] : db.by_key[j][h].id # e.id
  BY <1>4, PlaceHasEntry DEF UsedIds
<1>13. ASSUME NEW j1 \in Key, NEW j2 \in Key, NEW i1 \in DOMAIN d.by_key[j1], NEW i2 \in DOMAIN d.by_key[j2],
              d.by_key[j1][i1].id = d.by_key[j2][i2].id
       PROVE  j1 = j2 /\ i1 = i2
  <2>1. CASE j1 = k /\ i1 = 1 /\ d.by_key[j1][i1] = e
    BY <1>10, <1>12, <1>13, <2>1
  <2>2. CASE j2 = k /\ i2 = 1 /\ d.by_key[j2][i2] = e
    BY <1>10, <1>12, <1>13, <2>2
  <2>3. ASSUME NEW h1 \in DOMAIN db.by_key[j1], NEW h2 \in DOMAIN db.by_key[j2],
               d.by_key[j1][i1] = db.by_key[j1][h1], h1 = IF j1 = k THEN i1 - 1 ELSE i1,
               d.by_key[j2][i2] = db.by_key[j2][h2], h2 = IF j2 = k THEN i2 - 1 ELSE i2
        PROVE  j1 = j2 /\ i1 = i2
    <3>1. j1 = j2 /\ h1 = h2
      BY <1>13, <2>3 DEF GoodDB
    <3>2. CASE j1 = k
      <4>1. i1 \in Nat /\ i2 \in Nat /\ i1 - 1 = i2 - 1
        BY <1>7, <1>9, <2>3, <3>1, <3>2
      <4> QED
        BY <3>1, <4>1
    <3>3. CASE j1 # k
      BY <2>3, <3>1, <3>3
    <3> QED
      BY <3>2, <3>3
  <2> QED
    BY <1>10, <2>1, <2>2, <2>3
<1>14. \A j \in Key : d.key_of[j] = IF d.by_key[j] = <<>> THEN NoRecord ELSE RecordOf(d.by_key[j][1])
  BY <1>7, <1>9 DEF GoodDB, ref
<1>15. GoodDB(d)
  BY <1>9, <1>11, <1>13, <1>14 DEF GoodDB
<1>16. EntriesOf(d) \subseteq EntriesOf(db) \cup {e}
  BY <1>10 DEF EntriesOf
<1>17. e \in EntriesOf(d)
  BY <1>6, <1>7, <1>9 DEF EntriesOf
<1>18. ASSUME NEW f \in EntriesOf(db) PROVE f \in EntriesOf(d)
  <2>1. PICK j \in Key : \E i \in DOMAIN db.by_key[j] : db.by_key[j][i] = f
    BY DEF EntriesOf
  <2>2. \E i \in DOMAIN d.by_key[j] : d.by_key[j][i] = f
    BY <1>7, <1>9, <2>1
  <2> QED
    BY <2>2 DEF EntriesOf
<1> QED
  BY <1>4, <1>5, <1>15, <1>16, <1>17, <1>18

-----------------------------------------------------------------------------
(* Adding the records of a service one by one, and taking them back.       *)

\* Services and reverse lookup entries belong to one owner.
Strict(x) == x.key[1] \in {"SRV", "REV"} => x.unique /\ ~x.multiple

Agreeing(E) == \A e1, e2 \in E : ~e1.dead /\ ~e2.dead /\ e1.key = e2.key /\ e1.key[1] \in {"SRV", "REV"} => e1.data = e2.data

Sound(db) == GoodDB(db) /\ (\A e \in EntriesOf(db) : Strict(e)) /\ Agreeing(EntriesOf(db))

ElementsOf(s) == {s[i] : i \in DOMAIN s}

Accs == [ok : BOOLEAN, db : DBs, new : Seq(EntryRec)]

\* What is there after k of the records were tried
AddedSoFar(acc, db, g, recs, k) ==
  /\ Sound(acc.db) /\ EntriesOf(acc.db) = EntriesOf(db) \cup ElementsOf(acc.new)
  /\ ElementsOf(acc.new) \cap EntriesOf(db) = {}
  /\ \A i, j \in DOMAIN acc.new : acc.new[i] = acc.new[j] => i = j
  /\ Cardinality(UsedIds(acc.db)) <= Cardinality(UsedIds(db)) + k
  /\ \A e \in ElementsOf(acc.new) : e.group = g /\ ~e.dead
  /\ acc.ok =>
       /\ \A j \in 1..k : \E e \in ElementsOf(acc.new) : e.key = recs[j].key /\ e.data = recs[j].data
       /\ \A e \in ElementsOf(acc.new) : \E j \in 1..k : e.key = recs[j].key /\ e.data = recs[j].data

LEMMA TriesOne ==
  ASSUME NEW db, GoodDB(db), NEW g \in Grp, NEW recs, NEW k \in 1..4, recs[k] \in Record, Strict(recs[k]),
         Cardinality(UsedIds(db)) <= MaxServiceEntries,
         NEW acc \in Accs, AddedSoFar(acc, db, g, recs, k - 1)
  PROVE  AddNext(g, acc, recs[k]) \in Accs /\ AddedSoFar(AddNext(g, acc, recs[k]), db, g, recs, k)
<1>1. PICK r \in Record : r = recs[k] /\ Strict(r)
  OBVIOUS
<1> DEFINE u == Cardinality(UsedIds(acc.db))
           v == Cardinality(UsedIds(db))
<1>2. u \in Nat /\ v \in Nat /\ u <= v + (k - 1)
  BY UsedIdsBound DEF AddedSoFar, Sound
<1>3. CASE ~acc.ok \/ check_record_conflict(acc.db, g, r)
  <2> DEFINE c == [acc EXCEPT !.ok = FALSE]
  <2>1. ~c.ok /\ c.db = acc.db /\ c.new = acc.new
    BY DEF Accs
  <2>5. c \in Accs
    BY Zenon DEF Accs
  <2>2. AddNext(g, acc, r) = c
    BY <1>3 DEF AddNext
  <2> HIDE DEF c
  <2>3. u <= v + k
    BY <1>2
  <2>4. AddedSoFar(c, db, g, recs, k)
    BY <2>1, <2>3 DEF AddedSoFar
  <2> QED
    BY <1>1, <2>2, <2>4, <2>5
<1>4. CASE acc.ok /\ ~check_record_conflict(acc.db, g, r)
  <2>1. PICK a : a = Added(acc.db, g, r)
    OBVIOUS
  <2>2. PICK e : e = a.entry
    OBVIOUS
  <2>3. PICK d : d = a.db
    OBVIOUS
  <2>4. u < MaxServiceEntries + 4
    BY <1>2, EntriesAssumption
  <2>5. /\ GoodDB(d) /\ EntriesOf(d) = EntriesOf(acc.db) \cup {e}
        /\ e \in EntryRec /\ e.id \notin UsedIds(acc.db) /\ e.group = g /\ ~e.dead
        /\ e.key = r.key /\ e.data = r.data /\ e.unique = r.unique /\ e.multiple = r.multiple
    <3>1. GoodDB(acc.db)
      BY DEF AddedSoFar, Sound
    <3> HIDE DEF u
    <3>2. u < MaxServiceEntries + 4 /\ u = Cardinality(UsedIds(acc.db))
      BY <2>4 DEF u
    <3>3. PICK b : b = acc.db
      OBVIOUS
    <3>4. GoodDB(b) /\ Cardinality(UsedIds(b)) < MaxServiceEntries + 4
      BY <3>1, <3>2, <3>3
    <3>5. e = Added(b, g, r).entry
      BY <2>1, <2>2, <3>3
    <3>6. /\ GoodDB(Added(b, g, r).db) /\ EntriesOf(Added(b, g, r).db) = EntriesOf(b) \cup {e}
          /\ e \in EntryRec /\ e.id \notin UsedIds(b) /\ e.group = g /\ ~e.dead
          /\ e.key = r.key /\ e.data = r.data /\ e.unique = r.unique /\ e.multiple = r.multiple
      BY <3>4, <3>5, AddedGood
    <3> QED
      BY <2>1, <2>3, <3>3, <3>6
  <2>6. PICK c : c = [ok |-> TRUE, db |-> d, new |-> Append(acc.new, e)]
    OBVIOUS
  <2>7. AddNext(g, acc, r) = c
    BY <1>4, <2>1, <2>2, <2>3, <2>6 DEF AddNext
  <2>8. acc.new \in Seq(EntryRec)
    BY DEF Accs
  <2>9. /\ c \in Accs /\ c.db = d /\ c.new = Append(acc.new, e) /\ c.ok
    BY <2>5, <2>6, <2>8 DEF Accs, GoodDB
  <2>10. /\ ElementsOf(c.new) = ElementsOf(acc.new) \cup {e}
         /\ e \notin EntriesOf(acc.db)
         /\ \A i, j \in DOMAIN c.new : c.new[i] = c.new[j] => i = j
    <3>1. PICK s \in Seq(EntryRec) : s = acc.new
      BY <2>8
    <3>2. PICK t : t = Append(s, e) /\ t = c.new
      BY <2>9, <3>1
    <3>3. /\ \A i \in DOMAIN t : (i \in DOMAIN s /\ t[i] = s[i]) \/ (i = Len(s) + 1 /\ t[i] = e)
          /\ \A i \in DOMAIN s : i \in DOMAIN t /\ t[i] = s[i]
          /\ Len(s) + 1 \in DOMAIN t /\ t[Len(s) + 1] = e
      <4>1. PICK x \in EntryRec : x = e
        BY <2>5
      <4>2. t = Append(s, x)
        BY <3>2, <4>1
      <4>3. /\ t \in Seq(EntryRec) /\ Len(t) = Len(s) + 1 /\ t[Len(s) + 1] = x
            /\ \A i \in 1..Len(s) : t[i] = s[i]
        BY <4>2
      <4>4. Len(s) \in Nat /\ DOMAIN s = 1..Len(s) /\ DOMAIN t = 1..(Len(s) + 1)
        BY <4>3
      <4> QED
        BY <4>1, <4>3, <4>4
    <3>4. e \notin EntriesOf(acc.db)
      BY <2>5 DEF UsedIds
    <3>5. e \notin ElementsOf(s)
      BY <3>1, <3>4 DEF AddedSoFar
    <3>6. ElementsOf(t) = ElementsOf(s) \cup {e}
      BY <3>3 DEF ElementsOf
    <3>7. \A i, j \in DOMAIN s : s[i] = s[j] => i = j
      BY <3>1 DEF AddedSoFar
    <3>8. \A i \in DOMAIN s : s[i] # e
      BY <3>5 DEF ElementsOf
    <3>9. \A i, j \in DOMAIN t : t[i] = t[j] => i = j
      BY <3>3, <3>7, <3>8
    <3> QED
      BY <3>1, <3>2, <3>4, <3>6, <3>9
  <2>11. Cardinality(UsedIds(d)) <= v + k
    <3>1. UsedIds(d) = UsedIds(acc.db) \cup {e.id}
      BY <2>5 DEF UsedIds
    <3>2. IsFiniteSet(UsedIds(acc.db))
      BY UsedIdsBound DEF AddedSoFar, Sound
    <3>3. Cardinality(UsedIds(d)) = u + 1
      BY <2>5, <3>1, <3>2, FS_AddElement
    <3> QED
      BY <1>2, <3>3
  <2>12. Strict(e)
    BY <1>1, <2>5 DEF Strict
  <2>13. Agreeing(EntriesOf(d))
    <3>1. ASSUME NEW f \in EntriesOf(acc.db), ~f.dead, f.key = e.key, e.key[1] \in {"SRV", "REV"}
          PROVE  f.data = e.data
      <4>1. GoodDB(acc.db)
        BY DEF AddedSoFar, Sound
      <4>2. PICK i \in DOMAIN acc.db.by_key[f.key] : acc.db.by_key[f.key][i] = f
        BY <4>1, EntryHasPlace
      <4>3. r.unique /\ ~r.multiple /\ r.key = f.key /\ r.data = e.data
        BY <1>1, <2>5, <3>1 DEF Strict
      <4> QED
        BY <1>4, <3>1, <4>2, <4>3 DEF check_record_conflict
    <3> QED
      BY <2>5, <3>1 DEF AddedSoFar, Sound, Agreeing
  <2>14. Sound(d)
    BY <2>5, <2>12, <2>13 DEF AddedSoFar, Sound
  <2>15. ElementsOf(c.new) \cap EntriesOf(db) = {} /\ EntriesOf(d) = EntriesOf(db) \cup ElementsOf(c.new)
    BY <2>5, <2>10 DEF AddedSoFar
  <2>16. \A f \in ElementsOf(c.new) : f.group = g /\ ~f.dead
    BY <2>5, <2>10 DEF AddedSoFar
  <2>17. \A j \in 1..k : j = k \/ j \in 1..(k - 1)
    OBVIOUS
  <2>18. \A j \in 1..(k - 1) : j \in 1..k
    OBVIOUS
  <2>19. \A j \in 1..k : \E f \in ElementsOf(c.new) : f.key = recs[j].key /\ f.data = recs[j].data
    BY <1>1, <1>4, <2>5, <2>10, <2>17 DEF AddedSoFar
  <2>20. \A f \in ElementsOf(c.new) : \E j \in 1..k : f.key = recs[j].key /\ f.data = recs[j].data
    BY <1>1, <1>4, <2>5, <2>10, <2>18 DEF AddedSoFar
  <2>21. AddedSoFar(c, db, g, recs, k)
    BY <2>9, <2>10, <2>11, <2>14, <2>15, <2>16, <2>19, <2>20 DEF AddedSoFar
  <2> QED
    BY <1>1, <2>7, <2>9, <2>21
<1> QED
  BY <1>3, <1>4

Adding == INSTANCE FoldProofs WITH Op <- AddNext

LEMMA AddEachTries ==
  ASSUME NEW db, Sound(db), Cardinality(UsedIds(db)) <= MaxServiceEntries, NEW g \in Grp,
         NEW recs \in Seq(Record), Len(recs) <= 4, \A j \in DOMAIN recs : Strict(recs[j]),
         NEW acc, acc = AddEach(db, g, recs)
  PROVE  acc \in Accs /\ AddedSoFar(acc, db, g, recs, Len(recs))
<1> DEFINE base == [ok |-> TRUE, db |-> db, new |-> <<>>]
           n == Len(recs)
           G == [k \in 0..n |-> {c \in Accs : AddedSoFar(c, db, g, recs, k)}]
           a == Adding!Folded(g, base, recs)
<1>1. acc = a
  BY DEF AddEach, FoldLeft, MapThenFoldSet, Max, Adding!Folded, Adding!FoldLeft, Adding!MapThenFoldSet, Adding!Max
<1>2. n \in 0..4 /\ DOMAIN recs = 1..n
  <2>1. n \in Nat /\ n <= 4 /\ DOMAIN recs = 1..n
    OBVIOUS
  <2> HIDE DEF n
  <2> QED
    BY <2>1
<1>3. base \in Accs /\ base.ok /\ base.db = db /\ base.new = <<>>
  BY DEF Accs, Sound, GoodDB
<1> HIDE DEF base
<1>4. ElementsOf(base.new) = {}
  BY <1>3 DEF ElementsOf
<1>5. Cardinality(UsedIds(db)) \in Nat
  BY UsedIdsBound DEF Sound
<1>6. AddedSoFar(base, db, g, recs, 0)
  BY <1>3, <1>4, <1>5 DEF AddedSoFar
<1>7. \A k \in 0..n : G[k] = {c \in Accs : AddedSoFar(c, db, g, recs, k)}
  OBVIOUS
<1> HIDE DEF n, G
<1>8. base \in G[0]
  BY <1>2, <1>3, <1>6, <1>7
<1>9. ASSUME NEW k \in 1..n, NEW s \in G[k - 1] PROVE AddNext(g, s, recs[k]) \in G[k]
  <2>1. k - 1 \in 0..n /\ k \in 0..n /\ k \in 1..4
    BY <1>2
  <2>2. s \in Accs /\ AddedSoFar(s, db, g, recs, k - 1)
    BY <1>7, <2>1
  <2>3. recs[k] \in Record /\ Strict(recs[k])
    BY <1>2
  <2>4. AddNext(g, s, recs[k]) \in Accs /\ AddedSoFar(AddNext(g, s, recs[k]), db, g, recs, k)
    BY <2>1, <2>2, <2>3, TriesOne DEF Sound
  <2> QED
    BY <1>7, <2>1, <2>4
<1> HIDE DEF a
<1>10. a \in G[n]
  BY <1>2, <1>8, <1>9, Adding!FoldKeepsEach DEF a
<1> QED
  BY <1>1, <1>2, <1>7, <1>10 DEF n

\* One round of freeing entries
FreeNext(p, d, e) == avahi_entry_free(d, e)

Freeing == INSTANCE FoldProofs WITH Op <- FreeNext

\* Rolling back leaves what there was.
LEMMA RollBackRestores ==
  ASSUME NEW db, NEW g, NEW recs, NEW k, NEW acc \in Accs, AddedSoFar(acc, db, g, recs, k)
  PROVE  GoodDB(RolledBack(acc)) /\ EntriesOf(RolledBack(acc)) = EntriesOf(db)
<1>1. PICK new \in Seq(EntryRec) : new = acc.new
  BY DEF Accs
<1> DEFINE n == Len(new)
           E == EntriesOf(acc.db)
           Gone(j) == {new[i] : i \in 1..j}
           G == [j \in 0..n |-> {d \in DBs : GoodDB(d) /\ EntriesOf(d) = E \ Gone(j)}]
           a == Freeing!Folded(0, acc.db, new)
<1>2. RolledBack(acc) = a
  BY <1>1 DEF RolledBack, FreeNext, FoldLeft, MapThenFoldSet, Max, Freeing!Folded, Freeing!FoldLeft,
              Freeing!MapThenFoldSet, Freeing!Max
<1>3. n \in Nat /\ DOMAIN new = 1..n
  OBVIOUS
<1>4. Gone(0) = {} /\ Gone(n) = ElementsOf(new)
  BY <1>3 DEF ElementsOf
<1>5. \A j \in 1..n : Gone(j) = Gone(j - 1) \cup {new[j]}
  <2> SUFFICES ASSUME NEW j \in 1..n PROVE Gone(j) = Gone(j - 1) \cup {new[j]}
    OBVIOUS
  <2>1. \A i \in 1..j : i = j \/ i \in 1..(j - 1)
    OBVIOUS
  <2>2. j \in 1..j /\ \A i \in 1..(j - 1) : i \in 1..j
    OBVIOUS
  <2> QED
    BY <2>1, <2>2
<1>6. ASSUME NEW j \in 1..n PROVE new[j] \in E \ Gone(j - 1)
  <2>1. new[j] \in E
    BY <1>1, <1>3 DEF AddedSoFar, ElementsOf
  <2>2. \A i \in 1..(j - 1) : i \in 1..n /\ i # j
    BY <1>3
  <2>3. \A i \in 1..(j - 1) : new[i] # new[j]
    BY <1>1, <1>3, <2>2 DEF AddedSoFar
  <2> QED
    BY <2>1, <2>3
<1>7. \A j \in 0..n : G[j] = {d \in DBs : GoodDB(d) /\ EntriesOf(d) = E \ Gone(j)}
  OBVIOUS
<1> HIDE DEF n, Gone, G
<1>8. acc.db \in G[0]
  <2>1. 0 \in 0..n /\ acc.db \in DBs /\ GoodDB(acc.db)
    BY <1>3 DEF Accs, AddedSoFar, Sound
  <2> QED
    BY <1>4, <1>7, <2>1
<1>9. ASSUME NEW j \in 1..n, NEW d \in G[j - 1] PROVE FreeNext(0, d, new[j]) \in G[j]
  <2>1. j - 1 \in 0..n /\ j \in 0..n
    BY <1>3
  <2>2. GoodDB(d) /\ EntriesOf(d) = E \ Gone(j - 1)
    BY <1>7, <2>1
  <2>3. PICK e \in EntriesOf(d) : e = new[j]
    BY <1>6, <2>2
  <2>4. GoodDB(avahi_entry_free(d, e)) /\ EntriesOf(avahi_entry_free(d, e)) = EntriesOf(d) \ {e}
    BY <2>2, UnlinkGood
  <2>5. GoodDB(FreeNext(0, d, new[j])) /\ EntriesOf(FreeNext(0, d, new[j])) = EntriesOf(d) \ {e}
    BY <2>3, <2>4 DEF FreeNext
  <2>6. EntriesOf(d) \ {e} = E \ Gone(j)
    BY <1>5, <2>2, <2>3
  <2> QED
    BY <1>7, <2>1, <2>5, <2>6 DEF GoodDB
<1> HIDE DEF a
<1>10. a \in G[n]
  BY <1>3, <1>8, <1>9, Freeing!FoldKeepsEach DEF a
<1>11. GoodDB(a) /\ EntriesOf(a) = E \ ElementsOf(new)
  BY <1>3, <1>4, <1>7, <1>10
<1>12. E = EntriesOf(db) \cup ElementsOf(new) /\ ElementsOf(new) \cap EntriesOf(db) = {}
  BY <1>1 DEF AddedSoFar
<1> QED
  BY <1>2, <1>11, <1>12

Swept(db, freed) == FoldSet(LAMBDA e, d : avahi_entry_free(d, e), db, freed)

\* A cleanup frees the entries it is for.
LEMMA CleanupFrees ==
  ASSUME NEW db, GoodDB(db), NEW freed \in SUBSET EntriesOf(db),
         NEW d, d = Swept(db, freed)
  PROVE  GoodDB(d) /\ EntriesOf(d) = EntriesOf(db) \ freed
<1> DEFINE G == [T \in SUBSET freed |-> {x \in DBs : GoodDB(x) /\ EntriesOf(x) = EntriesOf(db) \ T}]
           a == Freeing!FoldedSet(0, db, freed)
<1>1. d = a
  BY DEF Swept, FreeNext, FoldSet, MapThenFoldSet, Freeing!FoldedSet, Freeing!FoldSet, Freeing!MapThenFoldSet
<1>2. IsFiniteSet(freed)
  BY UsedIdsBound, FS_Subset
<1>3. \A T \in SUBSET freed : G[T] = {x \in DBs : GoodDB(x) /\ EntriesOf(x) = EntriesOf(db) \ T}
  OBVIOUS
<1> HIDE DEF G
<1>4. db \in G[{}]
  BY <1>3 DEF GoodDB
<1>5. ASSUME NEW T \in SUBSET freed, NEW e \in freed \ T, NEW x \in G[T]
      PROVE  FreeNext(0, x, e) \in G[T \cup {e}]
  <2>1. GoodDB(x) /\ EntriesOf(x) = EntriesOf(db) \ T
    BY <1>3
  <2>2. e \in EntriesOf(x)
    BY <2>1
  <2>3. GoodDB(avahi_entry_free(x, e)) /\ EntriesOf(avahi_entry_free(x, e)) = EntriesOf(x) \ {e}
    BY <2>1, <2>2, UnlinkGood
  <2>4. EntriesOf(x) \ {e} = EntriesOf(db) \ (T \cup {e}) /\ T \cup {e} \in SUBSET freed
    BY <2>1
  <2> QED
    BY <1>3, <2>3, <2>4 DEF FreeNext, GoodDB
<1>6. a \in G[freed]
  <2>1. Freeing!SetKept(G, freed, 0, db)
    BY <1>4, <1>5 DEF Freeing!SetKept
  <2>2. Freeing!IsFiniteSet(freed)
    BY <1>2 DEF IsFiniteSet, Freeing!IsFiniteSet
  <2> QED
    BY <2>1, <2>2, Freeing!FoldSetKeeps DEF a
<1> QED
  BY <1>1, <1>3, <1>6

-----------------------------------------------------------------------------
(* Entries that are written over in place.                                 *)

Mapped(m, s) == [i \in DOMAIN s |-> m[s[i]]]

Refs == [Key -> (Ids \X (0..1)) \cup {NoRecord}]

LEMMA RewriteGood ==
  ASSUME NEW db, GoodDB(db), NEW m \in [EntriesOf(db) -> EntryRec],
         \A e \in EntriesOf(db) : m[e].id = e.id /\ m[e].key = e.key,
         NEW d, d = [by_key |-> [k \in Key |-> Mapped(m, db.by_key[k])], key_of |-> d.key_of],
         d.key_of \in Refs,
         \A k \in Key : d.key_of[k] = IF d.by_key[k] = <<>> THEN NoRecord ELSE RecordOf(d.by_key[k][1])
  PROVE  /\ GoodDB(d) /\ EntriesOf(d) = {m[e] : e \in EntriesOf(db)} /\ UsedIds(d) = UsedIds(db)
<1>1. ASSUME NEW k \in Key
      PROVE  /\ d.by_key[k] \in Seq(EntryRec) /\ DOMAIN d.by_key[k] = DOMAIN db.by_key[k]
             /\ \A i \in DOMAIN db.by_key[k] : d.by_key[k][i] = m[db.by_key[k][i]]
  <2>1. PICK s \in Seq(EntryRec) : s = db.by_key[k]
    BY DEF GoodDB, DBs
  <2>2. \A i \in DOMAIN s : m[s[i]] \in EntryRec
    BY <2>1, PlaceHasEntry
  <2>3. PICK n \in Nat : DOMAIN s = 1..n
    BY <2>1
  <2>4. PICK t : t = Mapped(m, s)
    OBVIOUS
  <2>5. t \in [1..n -> EntryRec] /\ \A i \in 1..n : t[i] = m[s[i]]
    BY <2>2, <2>3, <2>4 DEF Mapped
  <2>6. t \in Seq(EntryRec) /\ DOMAIN t = 1..n
    BY <2>5
  <2>7. d.by_key[k] = t
    BY <2>1, <2>4
  <2> QED
    BY <2>1, <2>3, <2>5, <2>6, <2>7
<1>2. d \in DBs
  <2>1. PICK b : b = d.by_key
    OBVIOUS
  <2>2. b = [k \in Key |-> b[k]]
    BY <2>1
  <2>3. b \in [Key -> Seq(EntryRec)]
    BY <1>1, <2>1, <2>2
  <2>4. d = [by_key |-> b, key_of |-> d.key_of]
    BY <2>1
  <2> QED
    BY <2>3, <2>4 DEF DBs, Refs
<1>3. \A k \in Key : \A i \in DOMAIN db.by_key[k] :
        /\ db.by_key[k][i] \in EntriesOf(db) /\ db.by_key[k][i].key = k
        /\ d.by_key[k][i].id = db.by_key[k][i].id /\ d.by_key[k][i].key = k
  BY <1>1, PlaceHasEntry
<1>4. GoodDB(d)
  <2>1. ASSUME NEW k \in Key, NEW i \in DOMAIN d.by_key[k] PROVE d.by_key[k][i].key = k
    BY <1>1, <1>3
  <2>2. ASSUME NEW k \in Key, NEW l \in Key, NEW i \in DOMAIN d.by_key[k], NEW j \in DOMAIN d.by_key[l],
               d.by_key[k][i].id = d.by_key[l][j].id
        PROVE  k = l /\ i = j
    BY <1>1, <1>3, <2>2 DEF GoodDB
  <2> QED
    BY <1>2, <2>1, <2>2 DEF GoodDB
<1>5. EntriesOf(d) = {m[e] : e \in EntriesOf(db)}
  <2>1. ASSUME NEW f \in EntriesOf(d) PROVE \E e \in EntriesOf(db) : f = m[e]
    <3>1. PICK k \in Key : \E i \in DOMAIN d.by_key[k] : d.by_key[k][i] = f
      BY DEF EntriesOf
    <3> QED
      BY <1>1, <1>3, <3>1
  <2>2. ASSUME NEW e \in EntriesOf(db) PROVE m[e] \in EntriesOf(d)
    <3>1. PICK k \in Key : \E i \in DOMAIN db.by_key[k] : db.by_key[k][i] = e
      BY DEF EntriesOf
    <3>2. \E i \in DOMAIN d.by_key[k] : d.by_key[k][i] = m[e]
      BY <1>1, <3>1
    <3> QED
      BY <3>2 DEF EntriesOf
  <2> QED
    BY <2>1, <2>2
<1>6. UsedIds(d) = UsedIds(db)
  BY <1>5 DEF UsedIds
<1> QED
  BY <1>4, <1>5, <1>6

-----------------------------------------------------------------------------
(* What holds of the lists, the groups and the flags of the cleanup.       *)

LiveIn(db, g) == {e \in EntriesOf(db) : ~e.dead /\ e.group = g}

\* The records of a service are there together.
Whole(E) ==
  \A n \in Svc :
    /\ (\E e \in E : e.key[1] = "PTR" /\ e.data = n) =>
         \A k \in {<<"SRV", n>>, <<"TXT", n>>, <<"ENUM", "all">>} : \E e \in E : e.key = k
    /\ (\E e \in E : e.key \in {<<"SRV", n>>, <<"TXT", n>>}) => \E e \in E : e.key[1] = "PTR" /\ e.data = n

GroupState == [Grp -> {"none", "UNCOMMITED", "COMMITED", "dead"}]

Owned(db, grp) == \A e \in EntriesOf(db) : ~e.dead => grp[e.group] \in {"UNCOMMITED", "COMMITED"}

StateOK(db, grp, ec, gc, ce) ==
  /\ Sound(db) /\ grp \in GroupState /\ {ec, gc, ce} \subseteq BOOLEAN
  /\ Owned(db, grp)
  /\ Cardinality(UsedIds(db)) <= MaxServiceEntries
  /\ \A g \in Grp : Whole(LiveIn(db, g))
  /\ (\E e \in EntriesOf(db) : e.dead) => ec /\ ce
  /\ (\E g \in Grp : grp[g] = "dead") => gc /\ ce

LEMMA WholeTogether ==
  ASSUME NEW E, NEW F, Whole(E), Whole(F) PROVE Whole(E \cup F)
<1> SUFFICES ASSUME NEW n \in Svc
             PROVE  /\ (\E e \in E \cup F : e.key[1] = "PTR" /\ e.data = n) =>
                         \A k \in {<<"SRV", n>>, <<"TXT", n>>, <<"ENUM", "all">>} : \E e \in E \cup F : e.key = k
                    /\ (\E e \in E \cup F : e.key \in {<<"SRV", n>>, <<"TXT", n>>}) =>
                         \E e \in E \cup F : e.key[1] = "PTR" /\ e.data = n
  BY DEF Whole
<1>1. ASSUME NEW G \in {E, F}
      PROVE  /\ (\E e \in G : e.key[1] = "PTR" /\ e.data = n) =>
                  \A k \in {<<"SRV", n>>, <<"TXT", n>>, <<"ENUM", "all">>} : \E e \in G : e.key = k
             /\ (\E e \in G : e.key \in {<<"SRV", n>>, <<"TXT", n>>}) => \E e \in G : e.key[1] = "PTR" /\ e.data = n
  BY DEF Whole
<1> QED
  BY <1>1, Zenon

\* Whether a set of records is whole depends on their keys and data alone.
LEMMA WholeLike ==
  ASSUME NEW E, NEW F, Whole(E),
         \A e \in E : \E f \in F : f.key = e.key /\ f.data = e.data,
         \A f \in F : \E e \in E : f.key = e.key /\ f.data = e.data
  PROVE  Whole(F)
<1>1. ASSUME NEW n \in Svc, NEW f \in F, f.key[1] = "PTR", f.data = n,
             NEW k \in {<<"SRV", n>>, <<"TXT", n>>, <<"ENUM", "all">>}
      PROVE  \E e \in F : e.key = k
  <2>1. PICK e \in E : f.key = e.key /\ f.data = e.data
    OBVIOUS
  <2>2. e.key[1] = "PTR" /\ e.data = n
    BY <1>1, <2>1
  <2>3. \A l \in {<<"SRV", n>>, <<"TXT", n>>, <<"ENUM", "all">>} : \E x \in E : x.key = l
    BY <2>2, Zenon DEF Whole
  <2>4. PICK x \in E : x.key = k
    BY <2>3
  <2> QED
    BY <2>4
<1>2. ASSUME NEW n \in Svc, NEW f \in F, f.key \in {<<"SRV", n>>, <<"TXT", n>>}
      PROVE  \E e \in F : e.key[1] = "PTR" /\ e.data = n
  <2>1. PICK e \in E : f.key = e.key
    OBVIOUS
  <2>2. e.key \in {<<"SRV", n>>, <<"TXT", n>>}
    BY <1>2, <2>1
  <2>3. PICK x \in E : x.key[1] = "PTR" /\ x.data = n
    BY <2>2, Zenon DEF Whole
  <2>4. PICK h \in F : h.key = x.key /\ h.data = x.data
    OBVIOUS
  <2> QED
    BY <2>3, <2>4
<1> QED
  BY <1>1, <1>2, Zenon DEF Whole

LEMMA AddKeeps ==
  ASSUME NEW db, NEW grp, NEW ec, NEW gc, NEW ce, StateOK(db, grp, ec, gc, ce), NEW g \in Grp, grp[g] = "UNCOMMITED",
         NEW recs \in Seq(Record), Len(recs) <= 4, \A j \in DOMAIN recs : Strict(recs[j]), Whole(ElementsOf(recs)),
         NEW acc, acc = AddEach(db, g, recs), NEW d, d = IF acc.ok THEN acc.db ELSE RolledBack(acc), Bounded(d)
  PROVE  StateOK(d, grp, ec, gc, ce)
<1>0. Sound(db) /\ GoodDB(db) /\ Cardinality(UsedIds(db)) <= MaxServiceEntries
  BY DEF StateOK, Sound
<1>1. acc \in Accs /\ AddedSoFar(acc, db, g, recs, Len(recs))
  BY <1>0, AddEachTries
<1>2. Len(recs) \in Nat /\ DOMAIN recs = 1..Len(recs)
  OBVIOUS
<1>3. CASE ~acc.ok
  <2>1. GoodDB(d) /\ EntriesOf(d) = EntriesOf(db)
    BY <1>1, <1>2, <1>3, RollBackRestores
  <2> QED
    BY <2>1 DEF StateOK, Sound, LiveIn, UsedIds, Owned
<1>4. CASE acc.ok
  <2> DEFINE new == ElementsOf(acc.new)
  <2>1. d = acc.db
    BY <1>4
  <2>2. Sound(d) /\ EntriesOf(d) = EntriesOf(db) \cup new /\ \A e \in new : e.group = g /\ ~e.dead
    BY <1>1, <2>1 DEF AddedSoFar
  <2>3. Owned(d, grp)
    BY <2>2 DEF StateOK, Owned
  <2>4. Whole(new)
    <3>1. ASSUME NEW f \in ElementsOf(recs) PROVE \E e \in new : e.key = f.key /\ e.data = f.data
      <4>1. PICK j \in 1..Len(recs) : f = recs[j]
        BY <1>2 DEF ElementsOf
      <4> QED
        BY <1>1, <1>4, <4>1 DEF AddedSoFar
    <3>2. ASSUME NEW e \in new PROVE \E f \in ElementsOf(recs) : e.key = f.key /\ e.data = f.data
      <4>1. PICK j \in 1..Len(recs) : e.key = recs[j].key /\ e.data = recs[j].data
        BY <1>1, <1>4 DEF AddedSoFar
      <4>2. recs[j] \in ElementsOf(recs)
        BY <1>2 DEF ElementsOf
      <4> QED
        BY <4>1, <4>2
    <3> HIDE DEF new
    <3> QED
      BY <3>1, <3>2, WholeLike
  <2>5. ASSUME NEW h \in Grp PROVE Whole(LiveIn(d, h))
    <3> HIDE DEF new
    <3>1. Whole(LiveIn(db, h))
      BY DEF StateOK
    <3>2. CASE h = g
      <4>1. LiveIn(d, h) = LiveIn(db, h) \cup new
        BY <2>2, <3>2 DEF LiveIn
      <4>2. PICK E : E = LiveIn(db, h)
        OBVIOUS
      <4>3. Whole(E \cup new)
        BY <2>4, <3>1, <4>2, WholeTogether
      <4> QED
        BY <4>1, <4>2, <4>3
    <3>3. CASE h # g
      <4>1. LiveIn(d, h) = LiveIn(db, h)
        BY <2>2, <3>3 DEF LiveIn
      <4> QED
        BY <3>1, <4>1
    <3> QED
      BY <3>2, <3>3
  <2>6. Cardinality(UsedIds(d)) <= MaxServiceEntries
    <3> DEFINE u == Cardinality(UsedIds(d))
               n == Cardinality(EntriesOf(d))
    <3>1. u \in Nat /\ IsFiniteSet(EntriesOf(d)) /\ u <= n
      BY <2>2, UsedIdsBound DEF Sound
    <3>2. n \in Nat
      BY <3>1, FS_CardinalityType
    <3>3. n <= MaxEntries \/ n <= MaxServiceEntries
      BY DEF Bounded
    <3> HIDE DEF u, n
    <3>4. u <= MaxServiceEntries
      BY <3>1, <3>2, <3>3, EntriesAssumption
    <3> QED
      BY <3>4 DEF u
  <2> QED
    BY <2>2, <2>3, <2>5, <2>6 DEF StateOK
<1> QED
  BY <1>3, <1>4

\* The lists with the entries of a group marked as dead
MarkedIn(db, g) ==
  [by_key |-> [k \in Key |-> [i \in DOMAIN db.by_key[k] |->
                [db.by_key[k][i] EXCEPT !.dead = @ \/ db.by_key[k][i].group = g]]],
   key_of |-> db.key_of]

Regrouped(grp, g, s) == [grp EXCEPT ![g] = s]

\* A cleanup looks for a group that is freed.
Remembered(s, gc, gc2) == gc2 \in BOOLEAN /\ (gc => gc2) /\ (s = "dead" => gc2)

\* A group is reset or freed.
LEMMA MarkKeeps ==
  ASSUME NEW db, NEW grp, NEW ec, NEW gc, NEW ce, StateOK(db, grp, ec, gc, ce), NEW g \in Grp,
         NEW d, d = MarkedIn(db, g),
         NEW s \in {"UNCOMMITED", "dead"}, NEW gs, gs = Regrouped(grp, g, s),
         NEW gc2, Remembered(s, gc, gc2)
  PROVE  StateOK(d, gs, TRUE, gc2, TRUE)
<1> DEFINE m == [e \in EntriesOf(db) |-> [e EXCEPT !.dead = @ \/ e.group = g]]
<1>0. Sound(db) /\ GoodDB(db)
  BY DEF StateOK, Sound
<1>1. ASSUME NEW e \in EntriesOf(db)
      PROVE  /\ m[e] \in EntryRec /\ m[e].id = e.id /\ m[e].version = e.version /\ m[e].key = e.key
             /\ m[e].group = e.group /\ m[e].data = e.data /\ m[e].unique = e.unique /\ m[e].multiple = e.multiple
             /\ m[e].dead <=> e.dead \/ e.group = g
  <2>1. e \in EntryRec
    BY <1>0, EntryHasPlace
  <2>2. m[e] = [e EXCEPT !.dead = e.dead \/ e.group = g]
    OBVIOUS
  <2>3. PICK b \in BOOLEAN : b = (e.dead \/ e.group = g)
    OBVIOUS
  <2>4. m[e] = [e EXCEPT !.dead = b]
    BY <2>2, <2>3, Zenon
  <2> HIDE DEF m
  <2>5. m[e] \in EntryRec
    BY <2>1, <2>4, Zenon DEF EntryRec
  <2>6. /\ m[e].id = e.id /\ m[e].version = e.version /\ m[e].key = e.key
        /\ m[e].group = e.group /\ m[e].data = e.data /\ m[e].unique = e.unique /\ m[e].multiple = e.multiple
        /\ m[e].dead = b
    BY <2>1, <2>4 DEF EntryRec
  <2> QED
    BY <2>3, <2>5, <2>6
<1>2. \A k \in Key : Mapped(m, db.by_key[k]) =
        [i \in DOMAIN db.by_key[k] |-> [db.by_key[k][i] EXCEPT !.dead = @ \/ db.by_key[k][i].group = g]]
  <2> TAKE k \in Key
  <2>1. ASSUME NEW i \in DOMAIN db.by_key[k]
        PROVE  m[db.by_key[k][i]] = [db.by_key[k][i] EXCEPT !.dead = @ \/ db.by_key[k][i].group = g]
    <3>1. db.by_key[k][i] \in EntriesOf(db)
      BY <1>0, PlaceHasEntry
    <3> QED
      BY <3>1, Zenon
  <2> HIDE DEF m
  <2> QED
    BY <2>1, Zenon DEF Mapped
<1>3. d = [by_key |-> [k \in Key |-> Mapped(m, db.by_key[k])], key_of |-> d.key_of]
  <2>1. [k \in Key |-> Mapped(m, db.by_key[k])] =
         [k \in Key |-> [i \in DOMAIN db.by_key[k] |->
           [db.by_key[k][i] EXCEPT !.dead = @ \/ db.by_key[k][i].group = g]]]
    BY <1>2, Zenon
  <2>2. d.key_of = db.key_of
    BY DEF MarkedIn
  <2> QED
    BY <2>1, <2>2, Zenon DEF MarkedIn
<1>4. m \in [EntriesOf(db) -> EntryRec]
  <2>1. m = [e \in EntriesOf(db) |-> m[e]]
    OBVIOUS
  <2> HIDE DEF m
  <2> QED
    BY <1>1, <2>1
<1> HIDE DEF m
<1>5. \A k \in Key : d.key_of[k] = IF d.by_key[k] = <<>> THEN NoRecord ELSE RecordOf(d.by_key[k][1])
  <2> TAKE k \in Key
  <2>1. /\ d.by_key[k] = Mapped(m, db.by_key[k]) /\ db.by_key[k] \in Seq(EntryRec)
        /\ d.key_of = db.key_of
    BY <1>0, <1>3 DEF GoodDB, DBs, MarkedIn
  <2>2. CASE db.by_key[k] = <<>>
    <3>1. DOMAIN d.by_key[k] = DOMAIN db.by_key[k]
      BY <2>1 DEF Mapped
    <3>2. d.by_key[k] = [i \in DOMAIN d.by_key[k] |-> d.by_key[k][i]]
      BY <2>1 DEF Mapped
    <3>3. d.by_key[k] = <<>>
      BY <2>2, <3>1, <3>2
    <3> QED
      BY <1>0, <2>1, <2>2, <3>3 DEF GoodDB
  <2>3. CASE db.by_key[k] # <<>>
    <3>1. 1 \in DOMAIN db.by_key[k]
      BY <2>1, <2>3
    <3>2. DOMAIN d.by_key[k] = DOMAIN db.by_key[k] /\ d.by_key[k][1] = m[db.by_key[k][1]]
      BY <2>1, <3>1 DEF Mapped
    <3>3. d.by_key[k] # <<>>
      BY <3>1, <3>2
    <3>4. RecordOf(m[db.by_key[k][1]]) = RecordOf(db.by_key[k][1])
      BY <1>0, <1>1, <3>1, PlaceHasEntry DEF RecordOf
    <3> QED
      BY <1>0, <2>1, <2>3, <3>2, <3>3, <3>4 DEF GoodDB
  <2> QED
    BY <2>2, <2>3
<1>6. d.key_of \in Refs
  BY <1>0 DEF GoodDB, DBs, Refs, MarkedIn
<1>7. GoodDB(d) /\ EntriesOf(d) = {m[e] : e \in EntriesOf(db)} /\ UsedIds(d) = UsedIds(db)
  <2>1. \A e \in EntriesOf(db) : m[e].id = e.id /\ m[e].key = e.key
    BY <1>1
  <2> QED
    BY <1>0, <1>3, <1>4, <1>5, <1>6, <2>1, RewriteGood
<1>8. Sound(d)
  <2>1. \A f \in EntriesOf(d) : Strict(f)
    BY <1>0, <1>1, <1>7 DEF Sound, Strict
  <2>2. Agreeing(EntriesOf(d))
    BY <1>0, <1>1, <1>7 DEF Sound, Agreeing
  <2> QED
    BY <1>7, <2>1, <2>2 DEF Sound
<1>9. gc2 \in BOOLEAN /\ (gc => gc2) /\ (s = "dead" => gc2)
  BY Zenon DEF Remembered
<1>10. gs \in GroupState /\ gs[g] = s /\ \A h \in Grp : h # g => gs[h] = grp[h]
  BY DEF StateOK, GroupState, Regrouped
<1>11. \A e \in EntriesOf(db) : e.group \in Grp
  BY <1>0, EntryHasPlace DEF EntryRec
<1>12. Owned(d, gs)
  <2> SUFFICES ASSUME NEW f \in EntriesOf(d), ~f.dead PROVE gs[f.group] \in {"UNCOMMITED", "COMMITED"}
    BY DEF Owned
  <2>1. PICK e \in EntriesOf(db) : f = m[e]
    BY <1>7
  <2>2. ~e.dead /\ e.group # g /\ f.group = e.group
    BY <1>1, <2>1
  <2> QED
    BY <1>10, <1>11, <2>2 DEF StateOK, Owned
<1>13. ASSUME NEW h \in Grp PROVE Whole(LiveIn(d, h))
  <2>1. CASE h = g
    <3>1. LiveIn(d, h) = {}
      BY <1>1, <1>7, <2>1 DEF LiveIn
    <3> QED
      BY <3>1, Zenon DEF Whole
  <2>2. CASE h # g
    <3> DEFINE E == LiveIn(db, h)
               F == LiveIn(d, h)
    <3>0. Whole(E)
      BY DEF StateOK
    <3>1. ASSUME NEW e \in E PROVE \E f \in F : f.key = e.key /\ f.data = e.data
      <4>1. m[e] \in F
        BY <1>1, <1>7, <2>2 DEF LiveIn
      <4> QED
        BY <1>1, <4>1 DEF LiveIn
    <3>2. ASSUME NEW f \in F PROVE \E e \in E : f.key = e.key /\ f.data = e.data
      <4>1. PICK e \in EntriesOf(db) : f = m[e]
        BY <1>7 DEF LiveIn
      <4>2. e \in E
        BY <1>1, <4>1 DEF LiveIn
      <4> QED
        BY <1>1, <4>1, <4>2
    <3> HIDE DEF E, F
    <3>3. Whole(F)
      BY <3>0, <3>1, <3>2, WholeLike
    <3> QED
      BY <3>3 DEF F
  <2> QED
    BY <2>1, <2>2
<1>14. (\E h \in Grp : gs[h] = "dead") => gc2
  BY <1>9, <1>10 DEF StateOK
<1>15. Cardinality(UsedIds(d)) <= MaxServiceEntries
  BY <1>7 DEF StateOK
<1> QED
  BY <1>8, <1>9, <1>10, <1>12, <1>13, <1>14, <1>15 DEF StateOK

\* What a cleanup frees and what it makes of the groups
Doomed(db, grp, ec, gc) == {e \in EntriesOf(db) : (ec /\ e.dead) \/ (gc /\ grp[e.group] = "dead")}

CleanGroups(grp, gc) == [g \in Grp |-> IF gc /\ grp[g] = "dead" THEN "none" ELSE grp[g]]

\* A cleanup
LEMMA SweepKeeps ==
  ASSUME NEW db, NEW grp, NEW ec, NEW gc, NEW ce, StateOK(db, grp, ec, gc, ce),
         NEW freed, freed = Doomed(db, grp, ec, gc),
         NEW d, d = Swept(db, freed),
         NEW gs, gs = CleanGroups(grp, gc)
  PROVE  StateOK(d, gs, FALSE, FALSE, FALSE)
<1>0. Sound(db) /\ GoodDB(db) /\ freed \in SUBSET EntriesOf(db)
  BY DEF StateOK, Sound, Doomed
<1>1. GoodDB(d) /\ EntriesOf(d) = EntriesOf(db) \ freed
  BY <1>0, CleanupFrees
<1>2. Sound(d)
  BY <1>0, <1>1 DEF Sound, Agreeing
<1>3. \A e \in EntriesOf(db) : e.group \in Grp
  BY <1>0, EntryHasPlace DEF EntryRec
<1>4. \A e \in EntriesOf(db) : ~e.dead => e \notin freed
  BY DEF StateOK, Owned, Doomed
<1>5. \A e \in EntriesOf(d) : ~e.dead
  BY <1>1 DEF StateOK, Doomed
<1>6. gs \in GroupState /\ \A g \in Grp : gs[g] # "dead" /\ (grp[g] # "dead" => gs[g] = grp[g])
  BY DEF StateOK, GroupState, CleanGroups
<1>7. Owned(d, gs)
  BY <1>1, <1>3, <1>6 DEF StateOK, Owned
<1>8. ASSUME NEW g \in Grp PROVE Whole(LiveIn(d, g))
  <2>1. LiveIn(d, g) = LiveIn(db, g)
    BY <1>1, <1>4 DEF LiveIn
  <2> QED
    BY <2>1 DEF StateOK
<1>9. Cardinality(UsedIds(d)) <= MaxServiceEntries
  <2> DEFINE a == Cardinality(UsedIds(d))
             b == Cardinality(UsedIds(db))
  <2>1. a \in Nat /\ b \in Nat /\ b <= MaxServiceEntries
    BY <1>0, <1>1, UsedIdsBound DEF StateOK
  <2>2. a <= b
    <3>1. UsedIds(d) \subseteq UsedIds(db)
      BY <1>1 DEF UsedIds
    <3> QED
      BY <1>0, <3>1, UsedIdsBound, FS_Subset
  <2> HIDE DEF a, b
  <2>3. a <= MaxServiceEntries
    BY <2>1, <2>2, EntriesAssumption
  <2> QED
    BY <2>3 DEF a
<1> QED
  BY <1>2, <1>5, <1>6, <1>7, <1>8, <1>9 DEF StateOK

\* A service gets a new text.
LEMMA UpdateKeeps ==
  ASSUME NEW db, NEW grp, NEW ec, NEW gc, NEW ce, StateOK(db, grp, ec, gc, ce), NEW n \in Svc, NEW text \in Text,
         NEW k, k = <<"TXT", n>>, NEW i \in DOMAIN db.by_key[k], ~db.by_key[k][i].dead,
         NEW e, e = [db.by_key[k][i] EXCEPT !.version = 1 - @, !.data = text],
         NEW d, d = [by_key |-> [db.by_key EXCEPT ![k][i] = e],
                     key_of |-> IF i = 1 THEN [db.key_of EXCEPT ![k] = RecordOf(e)] ELSE db.key_of]
  PROVE  StateOK(d, grp, ec, gc, ce)
<1>0. Sound(db) /\ GoodDB(db) /\ k \in Key
  BY DEF StateOK, Sound, Key
<1>1. PICK x \in EntriesOf(db) : x = db.by_key[k][i] /\ x \in EntryRec /\ x.key = k /\ ~x.dead
  BY <1>0, PlaceHasEntry
<1>2. /\ e \in EntryRec /\ e.id = x.id /\ e.key = k /\ e.group = x.group /\ e.dead = x.dead
      /\ e.unique = x.unique /\ e.multiple = x.multiple
  <2>1. e = [x EXCEPT !.version = 1 - @, !.data = text]
    BY <1>1
  <2>2. PICK v \in 0..1 : v = 1 - x.version
    BY <1>1 DEF EntryRec
  <2>3. PICK t \in Data : t = text
    BY DEF Data
  <2>4. e = [x EXCEPT !.version = v, !.data = t]
    BY <2>1, <2>2, <2>3
  <2>5. e \in EntryRec
    BY <1>1, <2>4 DEF EntryRec
  <2> QED
    BY <1>1, <2>4, <2>5 DEF EntryRec
<1> DEFINE m == [f \in EntriesOf(db) |-> IF f = x THEN e ELSE f]
<1>3. m \in [EntriesOf(db) -> EntryRec] /\ m[x] = e /\ \A f \in EntriesOf(db) : f # x => m[f] = f
  BY <1>0, <1>2, EntryHasPlace
<1> HIDE DEF m
<1>4. \A f \in EntriesOf(db) : m[f].id = f.id /\ m[f].key = f.key
  BY <1>1, <1>2, <1>3
<1>5. \A j \in DOMAIN db.by_key[k] : j # i => db.by_key[k][j] \in EntriesOf(db) /\ db.by_key[k][j] # x
  BY <1>0, <1>1, PlaceHasEntry DEF GoodDB
<1>6. [db.by_key EXCEPT ![k][i] = e] = [l \in Key |-> Mapped(m, db.by_key[l])]
  <2> DEFINE b == db.by_key
  <2>1. b \in [Key -> Seq(EntryRec)]
    BY <1>0 DEF GoodDB, DBs
  <2>2. [b[k] EXCEPT ![i] = e] = Mapped(m, b[k])
    <3>1. PICK s \in Seq(EntryRec) : s = b[k]
      BY <1>0, <2>1
    <3>2. s = [j \in DOMAIN s |-> s[j]]
      OBVIOUS
    <3>3. [s EXCEPT ![i] = e] = [j \in DOMAIN s |-> IF j = i THEN e ELSE s[j]]
      BY <3>2
    <3>4. \A j \in DOMAIN s : m[s[j]] = IF j = i THEN e ELSE s[j]
      BY <1>1, <1>3, <1>5, <3>1
    <3>5. Mapped(m, s) = [j \in DOMAIN s |-> IF j = i THEN e ELSE s[j]]
      BY <3>4 DEF Mapped
    <3> QED
      BY <3>1, <3>3, <3>5
  <2>3. ASSUME NEW l \in Key, l # k PROVE b[l] = Mapped(m, b[l])
    <3>1. PICK s \in Seq(EntryRec) : s = b[l]
      BY <2>1
    <3>2. \A j \in DOMAIN s : s[j] \in EntriesOf(db) /\ s[j].key = l
      BY <1>0, <3>1, PlaceHasEntry
    <3>3. \A j \in DOMAIN s : m[s[j]] = s[j]
      BY <1>1, <1>3, <2>3, <3>2
    <3>4. s = [j \in DOMAIN s |-> s[j]]
      OBVIOUS
    <3> QED
      BY <3>1, <3>3, <3>4 DEF Mapped
  <2> HIDE DEF b
  <2>4. [b EXCEPT ![k][i] = e] = [l \in Key |-> IF l = k THEN [b[k] EXCEPT ![i] = e] ELSE b[l]]
    BY <2>1
  <2>5. \A l \in Key : Mapped(m, b[l]) = IF l = k THEN [b[k] EXCEPT ![i] = e] ELSE b[l]
    BY <2>2, <2>3
  <2>6. [b EXCEPT ![k][i] = e] = [l \in Key |-> Mapped(m, b[l])]
    BY <2>4, <2>5
  <2> QED
    BY <2>6 DEF b
<1>7. PICK D : D = d
  OBVIOUS
<1>8. D = [by_key |-> [l \in Key |-> Mapped(m, db.by_key[l])], key_of |-> D.key_of]
  BY <1>6, <1>7
<1>9. D.key_of = IF i = 1 THEN [db.key_of EXCEPT ![k] = RecordOf(e)] ELSE db.key_of
  BY <1>7
<1>10. db.key_of \in Refs /\ RecordOf(e) \in Ids \X (0..1)
  BY <1>0, <1>2 DEF GoodDB, DBs, Refs, RecordOf, EntryRec
<1>11. D.key_of \in Refs
  BY <1>0, <1>9, <1>10 DEF Refs
<1>12. \A l \in Key : D.by_key[l] = Mapped(m, db.by_key[l])
  BY <1>8
<1>13. \A l \in Key : D.key_of[l] = IF D.by_key[l] = <<>> THEN NoRecord ELSE RecordOf(D.by_key[l][1])
  <2> TAKE l \in Key
  <2>1. PICK s \in Seq(EntryRec) : s = db.by_key[l]
    BY <1>0 DEF GoodDB, DBs
  <2>2. db.key_of[l] = IF s = <<>> THEN NoRecord ELSE RecordOf(s[1])
    BY <1>0, <2>1 DEF GoodDB
  <2>3. D.by_key[l] = [j \in DOMAIN s |-> m[s[j]]]
    BY <1>12, <2>1 DEF Mapped
  <2>4. CASE s = <<>>
    <3>0. DOMAIN s = {}
      BY <2>4
    <3>1. l # k
      BY <2>1, <3>0, Zenon
    <3>2. D.key_of[l] = NoRecord
      BY <1>9, <1>10, <2>2, <2>4, <3>1 DEF Refs
    <3>3. D.by_key[l] = <<>>
      BY <2>3, <2>4
    <3> QED
      BY <3>2, <3>3
  <2>5. CASE s # <<>>
    <3>1. 1 \in DOMAIN s
      BY <2>5
    <3>2. D.by_key[l] # <<>> /\ D.by_key[l][1] = m[s[1]]
      BY <2>3, <3>1
    <3>3. CASE l = k /\ i = 1
      <4>1. D.by_key[l][1] = e
        BY <1>1, <1>3, <2>1, <3>2, <3>3
      <4>2. D.key_of[l] = RecordOf(e)
        BY <1>0, <1>9, <1>10, <3>3 DEF Refs
      <4> QED
        BY <3>2, <4>1, <4>2
    <3>4. CASE ~(l = k /\ i = 1)
      <4>1. s[1] \in EntriesOf(db) /\ s[1].key = l
        BY <1>0, <2>1, <3>1, PlaceHasEntry
      <4>2. s[1] # x
        BY <1>1, <1>5, <2>1, <3>1, <3>4, <4>1
      <4>3. D.by_key[l][1] = s[1]
        BY <1>3, <3>2, <4>1, <4>2
      <4>4. D.key_of[l] = db.key_of[l]
        BY <1>0, <1>9, <1>10, <3>4 DEF Refs
      <4> QED
        BY <2>2, <2>5, <3>2, <4>3, <4>4
    <3> QED
      BY <3>3, <3>4
  <2> QED
    BY <2>4, <2>5
<1> HIDE DEF m
<1>14. GoodDB(D) /\ EntriesOf(D) = {m[f] : f \in EntriesOf(db)} /\ UsedIds(D) = UsedIds(db)
  BY <1>0, <1>3, <1>4, <1>8, <1>11, <1>13, RewriteGood
<1>15. \A f \in EntriesOf(db) :
         /\ m[f].key = f.key /\ m[f].group = f.group /\ m[f].dead = f.dead
         /\ m[f].unique = f.unique /\ m[f].multiple = f.multiple
         /\ m[f].data = f.data \/ f.key[1] = "TXT"
  <2>1. k[1] = "TXT"
    OBVIOUS
  <2> QED
    BY <1>1, <1>2, <1>3, <2>1
<1>16. Sound(D)
  <2>1. \A f \in EntriesOf(D) : Strict(f)
    BY <1>0, <1>14, <1>15 DEF Sound, Strict
  <2>2. Agreeing(EntriesOf(D))
    <3> SUFFICES ASSUME NEW f1 \in EntriesOf(D), NEW f2 \in EntriesOf(D), ~f1.dead, ~f2.dead,
                        f1.key = f2.key, f1.key[1] \in {"SRV", "REV"}
                 PROVE  f1.data = f2.data
      BY DEF Agreeing
    <3>1. PICK e1 \in EntriesOf(db) : f1 = m[e1]
      BY <1>14
    <3>2. PICK e2 \in EntriesOf(db) : f2 = m[e2]
      BY <1>14
    <3>3. e1.key[1] # "TXT" /\ e2.key[1] # "TXT"
      BY <1>15, <3>1, <3>2
    <3>4. e1.data = e2.data
      BY <1>0, <1>15, <3>1, <3>2 DEF Sound, Agreeing
    <3> QED
      BY <1>15, <3>1, <3>2, <3>3, <3>4
  <2> QED
    BY <1>14, <2>1, <2>2 DEF Sound
<1>17. Owned(D, grp) /\ ((\E f \in EntriesOf(D) : f.dead) => ec /\ ce)
  BY <1>14, <1>15 DEF StateOK, Owned
<1>18. ASSUME NEW h \in Grp PROVE Whole(LiveIn(D, h))
  <2> DEFINE E == LiveIn(db, h)
             F == LiveIn(D, h)
  <2>1. Whole(E)
    BY DEF StateOK
  <2>2. ASSUME NEW f \in F
        PROVE  \E g \in E : f.key = g.key /\ (f.data = g.data \/ g.key[1] = "TXT")
    <3>1. PICK g \in EntriesOf(db) : f = m[g]
      BY <1>14 DEF LiveIn
    <3>2. g \in E
      BY <1>15, <3>1 DEF LiveIn
    <3> QED
      BY <1>15, <3>1, <3>2
  <2>3. ASSUME NEW g \in E
        PROVE  \E f \in F : f.key = g.key /\ (f.data = g.data \/ g.key[1] = "TXT")
    <3>1. m[g] \in F
      BY <1>14, <1>15 DEF LiveIn
    <3> QED
      BY <1>15, <3>1 DEF LiveIn
  <2> HIDE DEF E, F
  <2>4. ASSUME NEW s \in Svc, NEW f \in F, f.key[1] = "PTR", f.data = s,
               NEW l \in {<<"SRV", s>>, <<"TXT", s>>, <<"ENUM", "all">>}
        PROVE  \E g \in F : g.key = l
    <3>1. PICK g \in E : f.key = g.key /\ (f.data = g.data \/ g.key[1] = "TXT")
      BY <2>2
    <3>2. g.key[1] = "PTR" /\ g.data = s
      BY <2>4, <3>1
    <3>3. \A y \in {<<"SRV", s>>, <<"TXT", s>>, <<"ENUM", "all">>} : \E z \in E : z.key = y
      BY <2>1, <3>2, Zenon DEF Whole
    <3>4. PICK z \in E : z.key = l
      BY <3>3
    <3> QED
      BY <2>3, <3>4
  <2>5. ASSUME NEW s \in Svc, NEW f \in F, f.key \in {<<"SRV", s>>, <<"TXT", s>>}
        PROVE  \E g \in F : g.key[1] = "PTR" /\ g.data = s
    <3>1. PICK g \in E : f.key = g.key
      BY <2>2
    <3>2. g.key \in {<<"SRV", s>>, <<"TXT", s>>}
      BY <2>5, <3>1
    <3>3. PICK z \in E : z.key[1] = "PTR" /\ z.data = s
      BY <2>1, <3>2, Zenon DEF Whole
    <3>4. PICK y \in F : y.key = z.key /\ (y.data = z.data \/ z.key[1] = "TXT")
      BY <2>3
    <3> QED
      BY <3>3, <3>4
  <2>6. Whole(F)
    BY <2>4, <2>5, Zenon DEF Whole
  <2> QED
    BY <2>6 DEF F
<1>19. Cardinality(UsedIds(D)) <= MaxServiceEntries
  BY <1>14 DEF StateOK
<1> QED
  BY <1>16, <1>17, <1>18, <1>19, <1>7 DEF StateOK

-----------------------------------------------------------------------------
(* The specification.                                                      *)

EntryIInv == StateOK(DB, group, need_entry_cleanup, need_group_cleanup, cleanup_time_event)

LEMMA EntriesStart == EntriesInit => EntryIInv
<1> SUFFICES ASSUME EntriesInit PROVE EntryIInv
  OBVIOUS
<1>1. /\ DB \in DBs /\ \A k \in Key : DB.by_key[k] = <<>> /\ DB.key_of[k] = NoRecord
  <2>1. by_key = [k \in Key |-> <<>>] /\ key_of = [k \in Key |-> NoRecord]
    BY DEF EntriesInit
  <2>2. by_key \in [Key -> Seq(EntryRec)] /\ key_of \in [Key -> (Ids \X (0..1)) \cup {NoRecord}]
    BY <2>1
  <2> QED
    BY <2>1, <2>2 DEF DB, DBs
<1>2. PICK db : db = DB
  OBVIOUS
<1>3. GoodDB(db) /\ EntriesOf(db) = {}
  BY <1>1, <1>2 DEF GoodDB, EntriesOf
<1>4. UsedIds(db) = {} /\ \A g \in Grp : LiveIn(db, g) = {}
  BY <1>3 DEF UsedIds, LiveIn
<1>5. Cardinality({}) = 0
  BY FS_EmptySet
<1>6. StateOK(db, group, FALSE, FALSE, FALSE)
  <2>1. Whole({})
    BY Zenon DEF Whole
  <2>2. group \in GroupState /\ \A g \in Grp : group[g] = "none"
    BY DEF EntriesInit, GroupState
  <2>3. Cardinality(UsedIds(db)) <= MaxServiceEntries
    BY <1>4, <1>5, EntriesAssumption
  <2> QED
    BY <1>3, <1>4, <2>1, <2>2, <2>3 DEF StateOK, Sound, Agreeing, Owned
<1> QED
  BY <1>2, <1>6 DEF EntryIInv, EntriesInit

\* Records of one call
LEMMA AddStep ==
  ASSUME EntryIInv, NEW g \in Grp, NEW recs \in Seq(Record), Len(recs) <= 4,
         \A j \in DOMAIN recs : Strict(recs[j]), Whole(ElementsOf(recs)), Add(g, recs)
  PROVE  EntryIInv'
<1>1. PICK db, grp : db = DB /\ grp = group
  OBVIOUS
<1>2. PICK acc : acc = AddEach(db, g, recs)
  OBVIOUS
<1>3. PICK d : d = IF acc.ok THEN acc.db ELSE RolledBack(acc)
  OBVIOUS
<1>4. /\ grp[g] = "UNCOMMITED" /\ Bounded(d)
      /\ by_key' = d.by_key /\ key_of' = d.key_of
      /\ UNCHANGED <<group, need_entry_cleanup, need_group_cleanup, cleanup_time_event>>
  BY <1>1, <1>2, <1>3 DEF Add, cleanupVars
<1>5. StateOK(db, grp, need_entry_cleanup, need_group_cleanup, cleanup_time_event)
  BY <1>1 DEF EntryIInv
<1>6. StateOK(d, grp, need_entry_cleanup, need_group_cleanup, cleanup_time_event)
  BY <1>2, <1>3, <1>4, <1>5, AddKeeps
<1>7. DB' = d
  <2>1. d \in DBs
    BY <1>6 DEF StateOK, Sound, GoodDB
  <2> QED
    BY <1>4, <2>1 DEF DB, DBs
<1> QED
  BY <1>1, <1>4, <1>6, <1>7 DEF EntryIInv

\* What the clients add
Calls ==
  {Service(n, p, t) : n \in Svc, p \in Port, t \in Text} \cup {Subtype(n) : n \in Svc}
    \cup {DNSServer(ip) : ip \in IP} \cup {AddressRecords(h, ip) : h \in Host, ip \in IP}

\* It is put together well.
LEMMA CallsAreWhole ==
  ASSUME NEW recs \in Calls
  PROVE  /\ recs \in Seq(Record) /\ Len(recs) <= 4
         /\ \A j \in DOMAIN recs : Strict(recs[j])
         /\ Whole(ElementsOf(recs))
<1>1. \A k \in Key : \A v \in Data : \A u, m \in BOOLEAN :
           [key |-> k, data |-> v, unique |-> u, multiple |-> m] \in Record
  BY DEF Record
<1>2. ASSUME NEW n \in Svc, NEW port \in Port, NEW text \in Text, recs = Service(n, port, text)
      PROVE  recs \in Seq(Record) /\ Len(recs) <= 4 /\ (\A j \in DOMAIN recs : Strict(recs[j])) /\ Whole(ElementsOf(recs))
  <2>0. /\ <<"PTR", "all">> \in Key /\ <<"SRV", n>> \in Key /\ <<"TXT", n>> \in Key /\ <<"ENUM", "all">> \in Key
        /\ {n, port, text, "type"} \subseteq Data
    BY DEF Key, Data
  <2>1. PICK a \in Record : a = [key |-> <<"PTR", "all">>, data |-> n, unique |-> FALSE, multiple |-> FALSE]
    BY <1>1, <2>0
  <2>2. PICK b \in Record : b = [key |-> <<"SRV", n>>, data |-> port, unique |-> TRUE, multiple |-> FALSE]
    BY <1>1, <2>0
  <2>3. PICK c \in Record : c = [key |-> <<"TXT", n>>, data |-> text, unique |-> TRUE, multiple |-> FALSE]
    BY <1>1, <2>0
  <2>4. PICK e \in Record : e = [key |-> <<"ENUM", "all">>, data |-> "type", unique |-> FALSE, multiple |-> FALSE]
    BY <1>1, <2>0
  <2>5. recs = <<a, b, c, e>>
    BY <1>2, <2>1, <2>2, <2>3, <2>4 DEF Service, Rec
  <2>6. recs \in Seq(Record) /\ Len(recs) = 4 /\ DOMAIN recs = 1..4 /\ ElementsOf(recs) = {a, b, c, e}
    BY <2>5 DEF ElementsOf
  <2>7. /\ a.key = <<"PTR", "all">> /\ a.key[1] = "PTR" /\ a.data = n
        /\ b.key = <<"SRV", n>> /\ b.key[1] = "SRV" /\ b.unique /\ ~b.multiple
        /\ c.key = <<"TXT", n>> /\ c.key[1] = "TXT" /\ e.key = <<"ENUM", "all">> /\ e.key[1] = "ENUM"
    BY <2>1, <2>2, <2>3, <2>4
  <2>8. \A j \in 1..4 : j = 1 \/ j = 2 \/ j = 3 \/ j = 4
    OBVIOUS
  <2>9. \A j \in DOMAIN recs : Strict(recs[j])
    BY <2>5, <2>6, <2>7, <2>8 DEF Strict
  <2>10. Whole({a, b, c, e})
    <3>1. ASSUME NEW s \in Svc, NEW x \in {a, b, c, e}, x.key[1] = "PTR", x.data = s,
                 NEW l \in {<<"SRV", s>>, <<"TXT", s>>, <<"ENUM", "all">>}
          PROVE  \E y \in {a, b, c, e} : y.key = l
      BY <2>7, <3>1
    <3>2. ASSUME NEW s \in Svc, NEW x \in {a, b, c, e}, x.key \in {<<"SRV", s>>, <<"TXT", s>>}
          PROVE  \E y \in {a, b, c, e} : y.key[1] = "PTR" /\ y.data = s
      BY <2>7, <3>2
    <3> QED
      BY <3>1, <3>2, Zenon DEF Whole
  <2> QED
    BY <2>6, <2>9, <2>10
<1>3. ASSUME NEW n \in Svc, recs = Subtype(n)
      PROVE  recs \in Seq(Record) /\ Len(recs) <= 4 /\ (\A j \in DOMAIN recs : Strict(recs[j])) /\ Whole(ElementsOf(recs))
  <2>0. <<"SUB", "all">> \in Key /\ n \in Data
    BY DEF Key, Data
  <2>1. PICK a \in Record : a = [key |-> <<"SUB", "all">>, data |-> n, unique |-> FALSE, multiple |-> FALSE]
    BY <1>1, <2>0
  <2>2. recs = <<a>> /\ a.key[1] = "SUB"
    BY <1>3, <2>1 DEF Subtype, Rec
  <2>3. recs \in Seq(Record) /\ Len(recs) = 1 /\ DOMAIN recs = 1..1 /\ ElementsOf(recs) = {a}
    BY <2>2 DEF ElementsOf
  <2>4. \A s \in Svc : a.key \notin {<<"SRV", s>>, <<"TXT", s>>}
    BY <2>2
  <2>5. Whole({a})
    BY <2>2, <2>4 DEF Whole
  <2>6. \A j \in 1..1 : j = 1
    OBVIOUS
  <2> QED
    BY <2>2, <2>3, <2>5, <2>6 DEF Strict
<1>4. ASSUME NEW ip \in IP, recs = DNSServer(ip)
      PROVE  recs \in Seq(Record) /\ Len(recs) <= 4 /\ (\A j \in DOMAIN recs : Strict(recs[j])) /\ Whole(ElementsOf(recs))
  <2>0. <<"DNS", "all">> \in Key /\ <<"A", ip>> \in Key /\ ip \in Data
    BY DEF Key, Data
  <2>1. PICK a \in Record : a = [key |-> <<"A", ip>>, data |-> ip, unique |-> TRUE, multiple |-> TRUE]
    BY <1>1, <2>0
  <2>2. PICK b \in Record : b = [key |-> <<"DNS", "all">>, data |-> ip, unique |-> FALSE, multiple |-> FALSE]
    BY <1>1, <2>0
  <2>3. recs = <<a, b>> /\ a.key[1] = "A" /\ b.key[1] = "DNS"
    BY <1>4, <2>1, <2>2 DEF DNSServer, Rec
  <2>4. recs \in Seq(Record) /\ Len(recs) = 2 /\ DOMAIN recs = 1..2 /\ ElementsOf(recs) = {a, b}
    BY <2>3 DEF ElementsOf
  <2>5. \A s \in Svc : a.key \notin {<<"SRV", s>>, <<"TXT", s>>} /\ b.key \notin {<<"SRV", s>>, <<"TXT", s>>}
    BY <2>3
  <2>6. Whole({a, b})
    BY <2>3, <2>5 DEF Whole
  <2>7. \A j \in 1..2 : j = 1 \/ j = 2
    OBVIOUS
  <2> QED
    BY <2>3, <2>4, <2>6, <2>7 DEF Strict
<1>5. ASSUME NEW h \in Host, NEW ip \in IP, recs = AddressRecords(h, ip)
      PROVE  recs \in Seq(Record) /\ Len(recs) <= 4 /\ (\A j \in DOMAIN recs : Strict(recs[j])) /\ Whole(ElementsOf(recs))
  <2>0. <<"A", h>> \in Key /\ <<"REV", ip>> \in Key /\ {h, ip} \subseteq Data
    BY DEF Key, Data
  <2>1. PICK a \in Record : a = [key |-> <<"A", h>>, data |-> ip, unique |-> TRUE, multiple |-> TRUE]
    BY <1>1, <2>0
  <2>2. PICK b \in Record : b = [key |-> <<"REV", ip>>, data |-> h, unique |-> TRUE, multiple |-> FALSE]
    BY <1>1, <2>0
  <2>3. recs = <<a, b>> /\ a.key[1] = "A" /\ b.key[1] = "REV" /\ b.unique /\ ~b.multiple
    BY <1>5, <2>1, <2>2 DEF AddressRecords, Rec
  <2>4. recs \in Seq(Record) /\ Len(recs) = 2 /\ DOMAIN recs = 1..2 /\ ElementsOf(recs) = {a, b}
    BY <2>3 DEF ElementsOf
  <2>5. \A s \in Svc : a.key \notin {<<"SRV", s>>, <<"TXT", s>>} /\ b.key \notin {<<"SRV", s>>, <<"TXT", s>>}
    BY <2>3
  <2>6. Whole({a, b})
    BY <2>3, <2>5 DEF Whole
  <2>7. \A j \in 1..2 : j = 1 \/ j = 2
    OBVIOUS
  <2> QED
    BY <2>3, <2>4, <2>6, <2>7 DEF Strict
<1> QED
  BY <1>2, <1>3, <1>4, <1>5 DEF Calls

LEMMA EntriesStep == EntryIInv /\ [EntriesNext]_entryVars => EntryIInv'
<1> SUFFICES ASSUME EntryIInv, [EntriesNext]_entryVars PROVE EntryIInv'
  OBVIOUS
<1>1. PICK db, grp, ec, gc, ce :
        db = DB /\ grp = group /\ ec = need_entry_cleanup /\ gc = need_group_cleanup /\ ce = cleanup_time_event
  OBVIOUS
<1>2. StateOK(db, grp, ec, gc, ce)
  BY <1>1 DEF EntryIInv
<1>3. db.by_key = by_key /\ db.key_of = key_of /\ ec \in BOOLEAN /\ gc \in BOOLEAN
  BY <1>1, <1>2 DEF DB, StateOK
<1>4. CASE UNCHANGED entryVars
  BY <1>4 DEF EntryIInv, DB, entryVars
<1>5. ASSUME NEW g \in Grp, NEW recs \in Calls, Add(g, recs) PROVE EntryIInv'
  <2>1. recs \in Seq(Record) /\ Len(recs) <= 4 /\ (\A j \in DOMAIN recs : Strict(recs[j])) /\ Whole(ElementsOf(recs))
    BY CallsAreWhole
  <2> QED
    BY <1>5, <2>1, AddStep
<1>6. ASSUME NEW g \in Grp, NEW n \in Svc, NEW text \in Text, avahi_server_update_service_txt(g, n, text)
      PROVE  EntryIInv'
  <2>1. PICK k : k = <<"TXT", n>>
    OBVIOUS
  <2> DEFINE mine == {j \in DOMAIN by_key[k] : ~by_key[k][j].dead /\ by_key[k][j].group = g}
  <2>2. PICK i : i = Min(mine)
    OBVIOUS
  <2>3. PICK e : e = [by_key[k][i] EXCEPT !.version = 1 - @, !.data = text]
    OBVIOUS
  <2>4. /\ mine # {}
        /\ by_key' = [by_key EXCEPT ![k][i] = e]
        /\ key_of' = IF i = 1 THEN [key_of EXCEPT ![k] = RecordOf(e)] ELSE key_of
        /\ UNCHANGED <<group, need_entry_cleanup, need_group_cleanup, cleanup_time_event>>
    BY <1>6, <2>1, <2>2, <2>3 DEF avahi_server_update_service_txt, KeyAfterUpdate, cleanupVars
  <2>5. i \in mine
    <3>1. by_key[k] \in Seq(EntryRec)
      BY <1>2, <1>3, <2>1 DEF StateOK, Sound, GoodDB, DBs, Key
    <3>2. mine \in SUBSET Nat
      BY <3>1
    <3> HIDE DEF mine
    <3>3. PICK m \in mine : \A j \in mine : ~(j < m)
      BY <2>4, <3>2, Unlinking!LeastNat
    <3>4. \A j \in mine : m <= j
      BY <3>2, <3>3
    <3> QED
      BY <2>2, <3>3, <3>4 DEF Min
  <2>6. i \in DOMAIN db.by_key[k] /\ ~db.by_key[k][i].dead
    BY <1>3, <2>5
  <2>7. PICK d : d = [by_key |-> [db.by_key EXCEPT ![k][i] = e],
                      key_of |-> IF i = 1 THEN [db.key_of EXCEPT ![k] = RecordOf(e)] ELSE db.key_of]
    OBVIOUS
  <2>8. DB' = d
    BY <1>3, <2>4, <2>7, Zenon DEF DB
  <2>9. e = [db.by_key[k][i] EXCEPT !.version = 1 - @, !.data = text]
    BY <1>3, <2>3
  <2>10. StateOK(d, grp, ec, gc, ce)
    BY <1>2, <2>1, <2>6, <2>7, <2>9, UpdateKeeps
  <2> QED
    BY <1>1, <2>4, <2>8, <2>10 DEF EntryIInv
<1>7. ASSUME NEW g \in Grp, avahi_s_entry_group_new(g) \/ avahi_s_entry_group_commit(g) PROVE EntryIInv'
  <2>1. PICK s \in {"UNCOMMITED", "COMMITED"} : group' = [grp EXCEPT ![g] = s]
    BY <1>1, <1>7 DEF avahi_s_entry_group_new, avahi_s_entry_group_commit
  <2>2. DB' = db /\ UNCHANGED <<need_entry_cleanup, need_group_cleanup, cleanup_time_event>>
    BY <1>1, <1>7 DEF avahi_s_entry_group_new, avahi_s_entry_group_commit, DB, cleanupVars
  <2>3. PICK gs : gs = [grp EXCEPT ![g] = s]
    OBVIOUS
  <2>4. gs \in GroupState /\ gs[g] = s /\ \A h \in Grp : h # g => gs[h] = grp[h]
    BY <1>2, <2>3 DEF StateOK, GroupState
  <2>5. Owned(db, gs)
    <3>1. \A e \in EntriesOf(db) : e.group \in Grp
      BY <1>2, EntryHasPlace DEF StateOK, Sound, EntryRec
    <3> QED
      BY <1>2, <2>4, <3>1 DEF StateOK, Owned
  <2>6. (\E h \in Grp : gs[h] = "dead") => gc /\ ce
    BY <1>2, <2>4 DEF StateOK
  <2>7. StateOK(db, gs, ec, gc, ce)
    BY <1>2, <2>4, <2>5, <2>6 DEF StateOK
  <2> QED
    BY <1>1, <2>1, <2>2, <2>3, <2>7 DEF EntryIInv
<1>8. ASSUME NEW g \in Grp, ResetGroup(g) \/ avahi_s_entry_group_free(g) PROVE EntryIInv'
  <2>1. PICK s \in {"UNCOMMITED", "dead"} :
          /\ group' = [grp EXCEPT ![g] = s]
          /\ need_group_cleanup' = (gc \/ s = "dead")
          /\ need_entry_cleanup' = TRUE /\ cleanup_time_event' = TRUE
          /\ by_key' = Marked(g) /\ key_of' = key_of
    <3>1. CASE ResetGroup(g)
      BY <1>1, <1>3, <3>1 DEF ResetGroup
    <3>2. CASE avahi_s_entry_group_free(g)
      BY <1>1, <3>2 DEF avahi_s_entry_group_free
    <3> QED
      BY <1>8, <3>1, <3>2
  <2>2. PICK d : d = [by_key |-> Marked(g), key_of |-> key_of]
    OBVIOUS
  <2>3. DB' = d
    BY <2>1, <2>2, Zenon DEF DB
  <2>4. d = MarkedIn(db, g)
    BY <1>3, <2>2, Zenon DEF MarkedIn, Marked
  <2>5. PICK gs : gs = Regrouped(grp, g, s)
    OBVIOUS
  <2>6. PICK gc2 \in BOOLEAN : gc2 = (gc \/ s = "dead")
    OBVIOUS
  <2>7. Remembered(s, gc, gc2)
    BY <2>6, Zenon DEF Remembered
  <2>8. StateOK(d, gs, TRUE, gc2, TRUE)
    BY <1>2, <2>4, <2>5, <2>7, MarkKeeps
  <2> QED
    BY <2>1, <2>3, <2>5, <2>6, <2>8 DEF EntryIInv, Regrouped
<1>9. CASE avahi_cleanup_dead_entries
  <2>1. PICK freed : freed = Doomed(db, grp, ec, gc)
    OBVIOUS
  <2>2. PICK d : d = Swept(db, freed)
    OBVIOUS
  <2>3. PICK gs : gs = CleanGroups(grp, gc)
    OBVIOUS
  <2>4. /\ by_key' = d.by_key /\ key_of' = d.key_of /\ group' = gs
        /\ need_entry_cleanup' = FALSE /\ need_group_cleanup' = FALSE /\ cleanup_time_event' = FALSE
    BY <1>1, <1>9, <2>1, <2>2, <2>3, Zenon DEF avahi_cleanup_dead_entries, Swept, Doomed, CleanGroups
  <2>5. StateOK(d, gs, FALSE, FALSE, FALSE)
    BY <1>2, <2>1, <2>2, <2>3, SweepKeeps
  <2>6. DB' = d
    <3>1. d \in DBs
      BY <2>5 DEF StateOK, Sound, GoodDB
    <3> QED
      BY <2>4, <3>1 DEF DB, DBs
  <2> QED
    BY <2>4, <2>5, <2>6 DEF EntryIInv
<1> QED
  <2>1. ASSUME NEW g \in Grp, NEW n \in Svc, NEW p \in Port, NEW t \in Text, Add(g, Service(n, p, t)) PROVE EntryIInv'
    <3>1. PICK recs : recs = Service(n, p, t)
      OBVIOUS
    <3>2. recs \in Calls
      BY <3>1 DEF Calls
    <3> QED
      BY <1>5, <2>1, <3>1, <3>2
  <2>2. ASSUME NEW g \in Grp, NEW n \in Svc, Add(g, Subtype(n)) PROVE EntryIInv'
    <3>1. PICK recs : recs = Subtype(n)
      OBVIOUS
    <3>2. recs \in Calls
      BY <3>1 DEF Calls
    <3> QED
      BY <1>5, <2>2, <3>1, <3>2
  <2>3. ASSUME NEW g \in Grp, NEW ip \in IP, Add(g, DNSServer(ip)) PROVE EntryIInv'
    <3>1. PICK recs : recs = DNSServer(ip)
      OBVIOUS
    <3>2. recs \in Calls
      BY <3>1 DEF Calls
    <3> QED
      BY <1>5, <2>3, <3>1, <3>2
  <2>4. ASSUME NEW g \in Grp, NEW ip \in IP, NEW h \in Host, Add(g, AddressRecords(h, ip)) PROVE EntryIInv'
    <3>1. PICK recs : recs = AddressRecords(h, ip)
      OBVIOUS
    <3>2. recs \in Calls
      BY <3>1 DEF Calls
    <3> QED
      BY <1>5, <2>4, <3>1, <3>2
  <2> QED
    BY <1>4, <1>6, <1>7, <1>8, <1>9, <2>1, <2>2, <2>3, <2>4 DEF EntriesNext

LEMMA EntryInvariantSuffices == EntryIInv => EntriesInv
<1> SUFFICES ASSUME EntryIInv PROVE EntriesInv
  OBVIOUS
<1>1. Sound(DB) /\ GoodDB(DB) /\ DB.by_key = by_key /\ DB.key_of = key_of
  BY DEF EntryIInv, StateOK, Sound, DB
<1>2. EntriesTypeOK
  <2>1. \A e \in EntriesOf(DB) : e.group \in Grp /\ e.version \in 0..1 /\ e.id \in Ids
    BY <1>1, EntryHasPlace DEF EntryRec
  <2>2. ASSUME NEW k \in Key
        PROVE  IsInjective(by_key[k]) /\ \A i \in DOMAIN by_key[k] : by_key[k][i].key = k
    BY <1>1 DEF GoodDB, IsInjective
  <2> QED
    BY <2>1, <2>2 DEF EntriesTypeOK, EntryIInv, StateOK, GroupState
<1>3. ServicesComplete
  <2> SUFFICES ASSUME NEW g \in Grp, NEW n \in Svc
               PROVE  LET keys == {e.key : e \in LiveEntries(g)}
                          listed == \E e \in LiveEntries(g) : e.key[1] = "PTR" /\ e.data = n
                      IN /\ listed => {<<"SRV", n>>, <<"TXT", n>>, <<"ENUM", "all">>} \subseteq keys
                         /\ <<"SRV", n>> \in keys \/ <<"TXT", n>> \in keys => listed
    BY Zenon DEF ServicesComplete
  <2>1. PICK E : E = LiveEntries(g)
    OBVIOUS
  <2>2. Whole(E)
    BY <2>1 DEF EntryIInv, StateOK, LiveEntries, LiveIn
  <2>3. (\E e \in E : e.key[1] = "PTR" /\ e.data = n) =>
          \A k \in {<<"SRV", n>>, <<"TXT", n>>, <<"ENUM", "all">>} : \E e \in E : e.key = k
    BY <2>2, Zenon DEF Whole
  <2>4. \A e \in E : e.key \in {<<"SRV", n>>, <<"TXT", n>>} => \E f \in E : f.key[1] = "PTR" /\ f.data = n
    BY <2>2, Zenon DEF Whole
  <2>5. (\E e \in E : e.key[1] = "PTR" /\ e.data = n) =>
          {<<"SRV", n>>, <<"TXT", n>>, <<"ENUM", "all">>} \subseteq {e.key : e \in E}
    BY <2>3, Zenon
  <2>6. (<<"SRV", n>> \in {e.key : e \in E} \/ <<"TXT", n>> \in {e.key : e \in E}) =>
          \E e \in E : e.key[1] = "PTR" /\ e.data = n
    BY <2>4, Zenon
  <2> QED
    BY <2>1, <2>5, <2>6, Zenon
<1>4. KeysAreAlive
  BY <1>1 DEF KeysAreAlive, GoodDB
<1>5. NoLocalConflict
  BY <1>1 DEF NoLocalConflict, Sound, Agreeing
<1>6. DeadWillBeFreed
  BY DEF EntryIInv, StateOK, DeadWillBeFreed
<1> QED
  BY <1>2, <1>3, <1>4, <1>5, <1>6 DEF EntriesInv

\* Whatever the clients publish, change and withdraw, in any order and with conflicts that
\* take back half of a service: services are complete, agree with each other, and the hash
\* map refers to records that exist.
THEOREM ServicesStayComplete == EntriesSpec => []EntriesInv
<1>1. EntriesSpec => []EntryIInv
  BY EntriesStart, EntriesStep, PTL DEF EntriesSpec
<1> QED
  BY <1>1, EntryInvariantSuffices, PTL

-----------------------------------------------------------------------------
(* The queue of time events.                                               *)

\* What sorts the tree: p.exp and p.run
ClimbBy(p, s, x) == Climb(s, p.exp, p.run)
SinkBy(p, s, x) == Sink(s, p.exp, p.run)

Climbing == INSTANCE FoldProofs WITH Op <- ClimbBy
Sinking == INSTANCE FoldProofs WITH Op <- SinkBy

Keys == [TimeEvent -> Nat]

Holds(q, x) == \E i \in DOMAIN q : q[i] = x

\* r has the nodes of q in another order.
Reordered(r, q) ==
  /\ r \in Seq(TimeEvent) /\ Len(r) = Len(q) /\ IsInjective(r)
  /\ \A x \in TimeEvent : Holds(r, x) <=> Holds(q, x)

\* The tree is ordered.
Heap(q, exp, run) == \A k \in 1..Len(q) : k > 1 => ~After(q[k \div 2], q[k], exp, run)

\* The tree is ordered but for the node at i ...
NearHeap(q, i, exp, run) ==
  /\ \A k \in 1..Len(q) : k > 1 /\ k # i /\ k \div 2 # i => ~After(q[k \div 2], q[k], exp, run)
  /\ \A k \in 1..Len(q) : i > 1 /\ k > 1 /\ k \div 2 = i => ~After(q[i \div 2], q[k], exp, run)

\* ... which does not belong above its place.
BelowHeap(q, i, exp, run) ==
  /\ \A k \in 1..Len(q) : k > 1 /\ k \div 2 # i => ~After(q[k \div 2], q[k], exp, run)
  /\ \A k \in 1..Len(q) : i > 1 /\ k > 1 /\ k \div 2 = i => ~After(q[i \div 2], q[k], exp, run)

LEMMA Halves ==
  ASSUME NEW k \in Nat, k > 1
  PROVE  k \div 2 \in Nat /\ 1 <= k \div 2 /\ k \div 2 < k /\ 2 * (k \div 2) <= k /\ k <= 2 * (k \div 2) + 1
OBVIOUS

LEMMA Doubles ==
  ASSUME NEW k \in Nat, NEW i \in Nat
  PROVE  /\ (2 * i) \div 2 = i /\ (2 * i + 1) \div 2 = i
         /\ k \div 2 = i => k = 2 * i \/ k = 2 * i + 1
OBVIOUS

\* After is a strict order, and what is not after can be put together.
LEMMA AfterOrder ==
  ASSUME NEW exp \in Keys, NEW run \in Keys, NEW a \in TimeEvent, NEW b \in TimeEvent, NEW c \in TimeEvent
  PROVE  /\ After(a, b, exp, run) => ~After(b, a, exp, run)
         /\ ~After(a, b, exp, run) /\ ~After(b, c, exp, run) => ~After(a, c, exp, run)
BY DEF After, Keys

\* Exchanging two nodes
LEMMA Exchanged ==
  ASSUME NEW q \in Seq(TimeEvent), IsInjective(q), NEW i \in 1..Len(q), NEW j \in 1..Len(q), i # j,
         NEW r, r = exchange_nodes(q, i, j)
  PROVE  /\ Reordered(r, q)
         /\ r[i] = q[j] /\ r[j] = q[i]
         /\ \A k \in 1..Len(q) : k # i /\ k # j => r[k] = q[k]
<1>1. r \in Seq(TimeEvent) /\ Len(r) = Len(q) /\ DOMAIN r = 1..Len(q) /\ DOMAIN q = 1..Len(q)
  BY DEF exchange_nodes
<1>2. /\ r[i] = q[j] /\ r[j] = q[i]
      /\ \A k \in 1..Len(q) : k # i /\ k # j => r[k] = q[k]
  BY DEF exchange_nodes
<1>3. IsInjective(r)
  BY <1>1, <1>2 DEF IsInjective
<1>4. \A x \in TimeEvent : Holds(r, x) <=> Holds(q, x)
  BY <1>1, <1>2 DEF Holds
<1> QED
  BY <1>1, <1>2, <1>3, <1>4 DEF Reordered

LEMMA ReorderedAgain ==
  ASSUME NEW q, NEW r, NEW s, Reordered(r, q), Reordered(s, r)
  PROVE  Reordered(s, q)
BY DEF Reordered

LEMMA ClimbRound ==
  ASSUME NEW exp \in Keys, NEW run \in Keys, NEW q \in Seq(TimeEvent), IsInjective(q), NEW i \in 1..Len(q),
         i > 1, After(q[i \div 2], q[i], exp, run), NearHeap(q, i, exp, run),
         NEW r, r = exchange_nodes(q, i, i \div 2)
  PROVE  i \div 2 \in 1..Len(q) /\ Reordered(r, q) /\ r[i \div 2] = q[i] /\ NearHeap(r, i \div 2, exp, run)
<1>0. PICK n \in Nat : n = Len(q)
  OBVIOUS
<1>1. PICK p \in Nat : p = i \div 2 /\ 1 <= p /\ p < i
  BY <1>0, Halves
<1>2. p \in 1..Len(q) /\ p # i
  BY <1>0, <1>1
<1>3. /\ Reordered(r, q) /\ r[i] = q[p] /\ r[p] = q[i]
      /\ \A k \in 1..n : k # i /\ k # p => r[k] = q[k]
  BY <1>0, <1>1, <1>2, Exchanged
<1>4. Len(r) = n
  BY <1>0, <1>3 DEF Reordered
<1>5. \A k \in 1..n : k > 1 => k \div 2 \in 1..n /\ k \div 2 < k
  BY Halves
<1>6. \A k \in 1..n : q[k] \in TimeEvent
  BY <1>0
<1>7. ASSUME NEW k \in 1..n, k > 1, k # p, k \div 2 # p
      PROVE  ~After(r[k \div 2], r[k], exp, run)
  <2>1. k # i
    BY <1>1, <1>7
  <2>2. CASE k \div 2 = i
    <3>1. ~After(q[p], q[k], exp, run)
      BY <1>0, <1>1, <1>7, <2>2 DEF NearHeap
    <3> QED
      BY <1>3, <1>7, <2>1, <2>2, <3>1
  <2>3. CASE k \div 2 # i
    <3>1. ~After(q[k \div 2], q[k], exp, run)
      BY <1>0, <1>7, <2>1, <2>3 DEF NearHeap
    <3> QED
      BY <1>3, <1>5, <1>7, <2>1, <2>3, <3>1
  <2> QED
    BY <2>2, <2>3
<1>8. ASSUME NEW k \in 1..n, p > 1, k > 1, k \div 2 = p
      PROVE  ~After(r[p \div 2], r[k], exp, run)
  <2>1. p \div 2 \in 1..n /\ p \div 2 < p /\ p \div 2 # i /\ p \div 2 # p
    BY <1>0, <1>1, <1>2, <1>5, <1>8
  <2>2. ~After(q[p \div 2], q[p], exp, run)
    BY <1>0, <1>2, <1>8, <2>1 DEF NearHeap
  <2>3. r[p \div 2] = q[p \div 2]
    BY <1>3, <2>1
  <2>4. CASE k = i
    BY <1>3, <2>2, <2>3, <2>4
  <2>5. CASE k # i
    <3>1. ~After(q[p], q[k], exp, run)
      BY <1>0, <1>2, <1>8, <2>5 DEF NearHeap
    <3>2. k # p
      BY <1>5, <1>8
    <3>3. ~After(q[p \div 2], q[k], exp, run)
      BY <1>0, <1>2, <1>6, <1>8, <2>1, <2>2, <3>1, AfterOrder
    <3> QED
      BY <1>3, <1>8, <2>3, <2>5, <3>2, <3>3
  <2> QED
    BY <2>4, <2>5
<1>9. NearHeap(r, p, exp, run)
  BY <1>4, <1>7, <1>8 DEF NearHeap
<1> QED
  BY <1>1, <1>2, <1>3, <1>9

LEMMA SinkRound ==
  ASSUME NEW exp \in Keys, NEW run \in Keys, NEW q \in Seq(TimeEvent), IsInjective(q), NEW i \in 1..Len(q),
         NEW m \in {2 * i, 2 * i + 1}, m <= Len(q), After(q[i], q[m], exp, run),
         \A k \in 1..Len(q) : k > 1 /\ k \div 2 = i => ~After(q[m], q[k], exp, run),
         BelowHeap(q, i, exp, run),
         NEW r, r = exchange_nodes(q, i, m)
  PROVE  m \in 1..Len(q) /\ i < m /\ Reordered(r, q) /\ r[m] = q[i] /\ BelowHeap(r, m, exp, run)
<1>0. PICK n \in Nat : n = Len(q)
  OBVIOUS
<1>1. m \in 1..n /\ i < m /\ m \div 2 = i /\ m # i /\ m > 1
  BY <1>0, Doubles
<1>2. /\ Reordered(r, q) /\ r[i] = q[m] /\ r[m] = q[i]
      /\ \A k \in 1..n : k # i /\ k # m => r[k] = q[k]
  BY <1>0, <1>1, Exchanged
<1>3. Len(r) = n
  BY <1>0, <1>2 DEF Reordered
<1>4. \A k \in 1..n : k > 1 => k \div 2 \in 1..n /\ k \div 2 < k
  BY Halves
<1>5. \A k \in 1..n : q[k] \in TimeEvent
  BY <1>0
<1>6. ASSUME NEW k \in 1..n, k > 1, k \div 2 # m
      PROVE  ~After(r[k \div 2], r[k], exp, run)
  <2>1. CASE k = i
    <3>1. ~After(q[i \div 2], q[m], exp, run)
      BY <1>0, <1>1, <1>6, <2>1 DEF BelowHeap
    <3>2. i \div 2 \in 1..n /\ i \div 2 # i /\ i \div 2 # m
      BY <1>1, <1>4, <1>6, <2>1
    <3> QED
      BY <1>2, <2>1, <3>1, <3>2
  <2>2. CASE k = m
    <3>1. ~After(q[m], q[i], exp, run)
      BY <1>0, <1>1, <1>5, AfterOrder
    <3> QED
      BY <1>1, <1>2, <2>2, <3>1
  <2>3. CASE k # i /\ k # m /\ k \div 2 = i
    BY <1>0, <1>2, <1>6, <2>3
  <2>4. CASE k # i /\ k # m /\ k \div 2 # i
    <3>1. ~After(q[k \div 2], q[k], exp, run)
      BY <1>0, <1>6, <2>4 DEF BelowHeap
    <3> QED
      BY <1>2, <1>4, <1>6, <2>4, <3>1
  <2> QED
    BY <2>1, <2>2, <2>3, <2>4
<1>7. ASSUME NEW k \in 1..n, m > 1, k > 1, k \div 2 = m
      PROVE  ~After(r[m \div 2], r[k], exp, run)
  <2>1. k # m /\ k # i
    BY <1>1, <1>4, <1>7
  <2>2. ~After(q[m], q[k], exp, run)
    BY <1>0, <1>1, <1>7 DEF BelowHeap
  <2> QED
    BY <1>1, <1>2, <1>7, <2>1, <2>2
<1>8. BelowHeap(r, m, exp, run)
  BY <1>3, <1>6, <1>7 DEF BelowHeap
<1> QED
  BY <1>0, <1>1, <1>2, <1>8

\* The node e is at its place s.at in a tree of the nodes of q.
Placed(s, q, e) ==
  /\ s = [q |-> s.q, at |-> s.at]
  /\ Reordered(s.q, q) /\ s.at \in 1..Len(q) /\ s.q[s.at] = e

HighEnough(s, exp, run) == ~(s.at > 1 /\ After(s.q[s.at \div 2], s.q[s.at], exp, run))

LEMMA ClimbKeeps ==
  ASSUME NEW exp \in Keys, NEW run \in Keys, NEW q, NEW e, NEW s, Placed(s, q, e),
         NearHeap(s.q, s.at, exp, run), NEW t, t = Climb(s, exp, run)
  PROVE  /\ Placed(t, q, e) /\ NearHeap(t.q, t.at, exp, run)
         /\ IF HighEnough(s, exp, run) THEN t = s ELSE t.at < s.at
<1>1. CASE HighEnough(s, exp, run)
  BY <1>1, Zenon DEF Climb, HighEnough
<1>2. CASE ~HighEnough(s, exp, run)
  <2>1. s.at > 1 /\ After(s.q[s.at \div 2], s.q[s.at], exp, run)
    BY <1>2 DEF HighEnough
  <2>2. PICK i, p, r, u : i = s.at /\ p = s.at \div 2 /\ u = s.q /\ r = exchange_nodes(s.q, s.at, s.at \div 2)
    OBVIOUS
  <2>3. t = [q |-> r, at |-> p]
    BY <2>1, <2>2 DEF Climb
  <2>4. u \in Seq(TimeEvent) /\ Len(u) = Len(q) /\ IsInjective(u) /\ i \in 1..Len(u) /\ Reordered(u, q) /\ u[i] = e
    BY <2>2 DEF Placed, Reordered
  <2>5. i \div 2 \in 1..Len(u) /\ Reordered(r, u) /\ r[i \div 2] = u[i] /\ NearHeap(r, i \div 2, exp, run)
    BY <2>1, <2>2, <2>4, ClimbRound
  <2>6. Reordered(r, q)
    BY <2>4, <2>5, ReorderedAgain
  <2>7. p < i
    <3>1. PICK n \in Nat : n = Len(u)
      BY <2>4
    <3> QED
      BY <2>1, <2>2, <2>4, <3>1, Halves
  <2> QED
    BY <1>2, <2>2, <2>3, <2>4, <2>5, <2>6, <2>7 DEF Placed
<1> QED
  BY <1>1, <1>2

LowEnough(s, exp, run) ==
  \A k \in 1..Len(s.q) : k > 1 /\ k \div 2 = s.at => ~After(s.q[s.at], s.q[k], exp, run)

LEMMA SinkKeeps ==
  ASSUME NEW exp \in Keys, NEW run \in Keys, NEW q, NEW e, NEW s, Placed(s, q, e),
         BelowHeap(s.q, s.at, exp, run), NEW t, t = Sink(s, exp, run)
  PROVE  /\ Placed(t, q, e) /\ BelowHeap(t.q, t.at, exp, run)
         /\ \/ t = s /\ LowEnough(s, exp, run)
            \/ s.at < t.at /\ ~LowEnough(s, exp, run)
<1>1. PICK i, u : i = s.at /\ u = s.q
  OBVIOUS
<1>2. u \in Seq(TimeEvent) /\ Len(u) = Len(q) /\ IsInjective(u) /\ i \in 1..Len(u) /\ Reordered(u, q) /\ u[i] = e
  BY <1>1 DEF Placed, Reordered
<1>3. PICK n \in Nat : n = Len(u)
  BY <1>2
<1>4. i \in Nat /\ 1 <= i /\ i <= n
  BY <1>2, <1>3
<1>5. \A k \in 1..n : u[k] \in TimeEvent
  BY <1>2, <1>3
<1>6. PICK m : m = IF 2 * i + 1 <= n /\ After(u[2 * i], u[2 * i + 1], exp, run) THEN 2 * i + 1 ELSE 2 * i
  OBVIOUS
<1>7. t = IF 2 * i <= n /\ After(u[i], u[m], exp, run) THEN [q |-> exchange_nodes(u, i, m), at |-> m] ELSE s
  BY <1>1, <1>3, <1>6 DEF Sink
<1>8. 2 * i <= n => m \in 1..n /\ m \in {2 * i, 2 * i + 1}
  BY <1>4, <1>6
<1>9. \A k \in 1..n : k > 1 /\ k \div 2 = i => 2 * i <= n /\ ~After(u[m], u[k], exp, run)
  <2> SUFFICES ASSUME NEW k \in 1..n, k > 1, k \div 2 = i
               PROVE  2 * i <= n /\ ~After(u[m], u[k], exp, run)
    OBVIOUS
  <2>1. k = 2 * i \/ k = 2 * i + 1
    BY <1>4, Doubles
  <2>2. 2 * i <= n
    BY <1>4, <2>1
  <2>3. 2 * i \in 1..n
    BY <1>4, <2>2
  <2>4. ~After(u[k], u[k], exp, run)
    BY <1>5, AfterOrder
  <2>5. CASE k = m
    BY <2>2, <2>4, <2>5
  <2>6. CASE k # m /\ k = 2 * i
    <3>1. m = 2 * i + 1 /\ 2 * i + 1 <= n /\ After(u[2 * i], u[2 * i + 1], exp, run)
      BY <1>6, <2>6
    <3>2. 2 * i + 1 \in 1..n
      BY <1>4, <3>1
    <3> QED
      BY <1>5, <2>2, <2>3, <2>6, <3>1, <3>2, AfterOrder
  <2>7. CASE k # m /\ k = 2 * i + 1
    BY <1>6, <2>2, <2>7
  <2> QED
    BY <2>1, <2>5, <2>6, <2>7
<1>10. CASE 2 * i <= n /\ After(u[i], u[m], exp, run)
  <2>1. PICK r : r = exchange_nodes(u, i, m)
    OBVIOUS
  <2>2. t = [q |-> r, at |-> m]
    BY <1>7, <1>10, <2>1
  <2>3. BelowHeap(u, i, exp, run)
    BY <1>1
  <2>4. m \in {2 * i, 2 * i + 1} /\ m <= Len(u)
    BY <1>3, <1>8, <1>10
  <2>5. \A k \in 1..Len(u) : k > 1 /\ k \div 2 = i => ~After(u[m], u[k], exp, run)
    BY <1>3, <1>9
  <2>6. m \in 1..Len(u) /\ i < m /\ Reordered(r, u) /\ r[m] = u[i] /\ BelowHeap(r, m, exp, run)
    BY <1>2, <1>10, <2>1, <2>3, <2>4, <2>5, SinkRound
  <2>7. Reordered(r, q)
    BY <1>2, <2>6, ReorderedAgain
  <2>8. ~LowEnough(s, exp, run)
    <3>1. m \in 1..Len(u) /\ m > 1 /\ m \div 2 = i
      <4>1. m = 2 * i \/ m = 2 * i + 1
        BY <2>4
      <4>2. m \div 2 = i /\ m > 1
        BY <1>4, <4>1, Doubles
      <4> QED
        BY <2>6, <4>2
    <3> QED
      BY <1>1, <1>10, <3>1 DEF LowEnough
  <2> QED
    BY <1>1, <1>2, <2>2, <2>6, <2>7, <2>8 DEF Placed
<1>11. CASE ~(2 * i <= n /\ After(u[i], u[m], exp, run))
  <2>1. t = s
    BY <1>7, <1>11
  <2>2. LowEnough(s, exp, run)
    <3> SUFFICES ASSUME NEW k \in 1..n, k > 1, k \div 2 = i
                 PROVE  ~After(u[i], u[k], exp, run)
      BY <1>1, <1>3 DEF LowEnough
    <3>1. 2 * i <= n /\ ~After(u[m], u[k], exp, run)
      BY <1>9
    <3>2. ~After(u[i], u[m], exp, run) /\ m \in 1..n
      BY <1>8, <1>11, <3>1
    <3> QED
      BY <1>4, <1>5, <3>1, <3>2, AfterOrder
  <2> QED
    BY <2>1, <2>2
<1> QED
  BY <1>10, <1>11

\* What the loops pass through
Climbers(q, e, exp, run) ==
  [k \in 0..Len(q) |-> {s \in [q : Seq(TimeEvent), at : Nat] :
     /\ Placed(s, q, e) /\ NearHeap(s.q, s.at, exp, run)
     /\ s.at + k <= Len(q) \/ HighEnough(s, exp, run)}]

Sinkers(q, e, exp, run) ==
  [k \in 0..Len(q) |-> {s \in [q : Seq(TimeEvent), at : Nat] :
     /\ Placed(s, q, e) /\ BelowHeap(s.q, s.at, exp, run)
     /\ s.at > k \/ LowEnough(s, exp, run)}]

LEMMA PlacedType ==
  ASSUME NEW s, NEW q, NEW e, Placed(s, q, e)
  PROVE  s \in [q : Seq(TimeEvent), at : Nat]
<1>1. s.q \in Seq(TimeEvent) /\ s.at \in Nat
  BY DEF Placed, Reordered
<1>2. s = [q |-> s.q, at |-> s.at]
  BY DEF Placed
<1> QED
  BY <1>1, <1>2

\* The first loop ends with the node below where it belongs.
LEMMA Climbed ==
  ASSUME NEW exp \in Keys, NEW run \in Keys, NEW q \in Seq(TimeEvent), NEW e, NEW s, Placed(s, q, e),
         NearHeap(s.q, s.at, exp, run),
         NEW p, p.exp = exp, p.run = run, NEW t, t = Climbing!Folded(p, s, q)
  PROVE  Placed(t, q, e) /\ BelowHeap(t.q, t.at, exp, run)
<1> DEFINE G == Climbers(q, e, exp, run)
<1>1. PICK n \in Nat : n = Len(q) /\ DOMAIN q = 1..n
  OBVIOUS
<1>2. s \in G[0]
  <2>1. s.at \in 1..n
    BY <1>1 DEF Placed
  <2>2. s.at + 0 <= n /\ 0 \in 0..n
    BY <1>1, <2>1
  <2> QED
    BY <1>1, <2>2, PlacedType DEF Climbers
<1>3. ASSUME NEW k \in 1..n, NEW u \in G[k - 1]
      PROVE  ClimbBy(p, u, q[k]) \in G[k]
  <2>1. k - 1 \in 0..n /\ k \in 0..n /\ k \in Nat
    BY <1>1
  <2>2. /\ Placed(u, q, e) /\ NearHeap(u.q, u.at, exp, run)
        /\ u.at + (k - 1) <= n \/ HighEnough(u, exp, run)
    BY <1>1, <1>3, <2>1 DEF Climbers
  <2>3. PICK v : v = Climb(u, exp, run)
    OBVIOUS
  <2>4. /\ Placed(v, q, e) /\ NearHeap(v.q, v.at, exp, run)
        /\ IF HighEnough(u, exp, run) THEN v = u ELSE v.at < u.at
    BY <2>2, <2>3, ClimbKeeps
  <2>5. u.at \in 1..n /\ v.at \in 1..n
    BY <1>1, <2>2, <2>4 DEF Placed
  <2>6. v.at + k <= n \/ HighEnough(v, exp, run)
    BY <1>1, <2>1, <2>2, <2>4, <2>5
  <2>7. v \in G[k]
    BY <1>1, <2>1, <2>4, <2>6, PlacedType DEF Climbers
  <2> QED
    BY <2>3, <2>7 DEF ClimbBy
<1> HIDE DEF G
<1>4. t \in G[n]
  BY <1>1, <1>2, <1>3, Climbing!FoldKeepsEach
<1>6. /\ Placed(t, q, e) /\ NearHeap(t.q, t.at, exp, run)
      /\ t.at + n <= n \/ HighEnough(t, exp, run)
  <2>1. n \in 0..n
    BY <1>1
  <2> QED
    BY <1>1, <1>4, <2>1 DEF G, Climbers
<1>7. t.at \in 1..n /\ Len(t.q) = n
  BY <1>1, <1>6 DEF Placed, Reordered
<1>8. HighEnough(t, exp, run)
  BY <1>1, <1>6, <1>7
<1> QED
  BY <1>6, <1>8 DEF NearHeap, BelowHeap, HighEnough

\* The second ends with it at its place.
LEMMA Sunk ==
  ASSUME NEW exp \in Keys, NEW run \in Keys, NEW q \in Seq(TimeEvent), NEW e, NEW s, Placed(s, q, e),
         BelowHeap(s.q, s.at, exp, run),
         NEW p, p.exp = exp, p.run = run, NEW t, t = Sinking!Folded(p, s, q)
  PROVE  Placed(t, q, e) /\ Heap(t.q, exp, run)
<1> DEFINE G == Sinkers(q, e, exp, run)
<1>1. PICK n \in Nat : n = Len(q) /\ DOMAIN q = 1..n
  OBVIOUS
<1>2. s \in G[0]
  <2>1. s.at \in 1..n
    BY <1>1 DEF Placed
  <2>2. s.at > 0 /\ 0 \in 0..n
    BY <1>1, <2>1
  <2> QED
    BY <1>1, <2>2, PlacedType DEF Sinkers
<1>3. ASSUME NEW k \in 1..n, NEW u \in G[k - 1]
      PROVE  SinkBy(p, u, q[k]) \in G[k]
  <2>1. k - 1 \in 0..n /\ k \in 0..n /\ k \in Nat
    BY <1>1
  <2>2. /\ Placed(u, q, e) /\ BelowHeap(u.q, u.at, exp, run)
        /\ u.at > k - 1 \/ LowEnough(u, exp, run)
    BY <1>1, <1>3, <2>1 DEF Sinkers
  <2>3. PICK v : v = Sink(u, exp, run)
    OBVIOUS
  <2>4. /\ Placed(v, q, e) /\ BelowHeap(v.q, v.at, exp, run)
        /\ \/ v = u /\ LowEnough(u, exp, run)
           \/ u.at < v.at /\ ~LowEnough(u, exp, run)
    BY <2>2, <2>3, SinkKeeps
  <2>5. u.at \in 1..n /\ v.at \in 1..n
    BY <1>1, <2>2, <2>4 DEF Placed
  <2>6. v.at > k \/ LowEnough(v, exp, run)
    BY <1>1, <2>1, <2>2, <2>4, <2>5
  <2>7. v \in G[k]
    BY <1>1, <2>1, <2>4, <2>6, PlacedType DEF Sinkers
  <2> QED
    BY <2>3, <2>7 DEF SinkBy
<1> HIDE DEF G
<1>4. t \in G[n]
  BY <1>1, <1>2, <1>3, Sinking!FoldKeepsEach
<1>6. /\ Placed(t, q, e) /\ BelowHeap(t.q, t.at, exp, run)
      /\ t.at > n \/ LowEnough(t, exp, run)
  <2>1. n \in 0..n
    BY <1>1
  <2> QED
    BY <1>1, <1>4, <2>1 DEF G, Sinkers
<1>7. t.at \in 1..n /\ Len(t.q) = n
  BY <1>1, <1>6 DEF Placed, Reordered
<1>8. LowEnough(t, exp, run)
  BY <1>1, <1>6, <1>7
<1> QED
  BY <1>6, <1>8 DEF BelowHeap, LowEnough, Heap

\* avahi_prio_queue_shuffle puts the one node that is not at its place there.
LEMMA Shuffled ==
  ASSUME NEW exp \in Keys, NEW run \in Keys, NEW q \in Seq(TimeEvent), IsInjective(q),
         NEW i \in 1..Len(q), NearHeap(q, i, exp, run), NEW e, e = q[i],
         NEW r, r = avahi_prio_queue_shuffle(q, e, exp, run)
  PROVE  Reordered(r, q) /\ Heap(r, exp, run)
<1>1. Position(q, e) = i
  <2>1. \A j \in DOMAIN q : q[j] = e => j = i
    BY DEF IsInjective
  <2> QED
    BY <2>1 DEF Position
<1>2. PICK s : s = [q |-> q, at |-> i]
  OBVIOUS
<1>3. Placed(s, q, e) /\ NearHeap(s.q, s.at, exp, run)
  BY <1>2 DEF Placed, Reordered
<1>4. PICK p : p = [exp |-> exp, run |-> run]
  OBVIOUS
<1>5. PICK above : above = Climbing!Folded(p, s, q)
  OBVIOUS
<1>6. Placed(above, q, e) /\ BelowHeap(above.q, above.at, exp, run)
  BY <1>3, <1>4, <1>5, Climbed
<1>7. PICK below : below = Sinking!Folded(p, above, q)
  OBVIOUS
<1>8. Placed(below, q, e) /\ Heap(below.q, exp, run)
  BY <1>4, <1>6, <1>7, Sunk
<1>9. r = below.q
  <2>1. p.exp = exp /\ p.run = run
    BY <1>4
  <2>2. above = FoldLeft(LAMBDA x, y : Climb(x, exp, run), s, q)
    BY <1>5, <2>1, Zenon DEF ClimbBy, FoldLeft, MapThenFoldSet, Max, Climbing!Folded, Climbing!FoldLeft,
         Climbing!MapThenFoldSet, Climbing!Max
  <2>3. below = FoldLeft(LAMBDA x, y : Sink(x, exp, run), above, q)
    BY <1>7, <2>1, Zenon DEF SinkBy, FoldLeft, MapThenFoldSet, Max, Sinking!Folded, Sinking!FoldLeft,
         Sinking!MapThenFoldSet, Sinking!Max
  <2> QED
    BY <1>1, <1>2, <2>2, <2>3, Zenon DEF avahi_prio_queue_shuffle
<1> QED
  BY <1>8, <1>9 DEF Placed

\* The keys of all other events are the same.
SameBut(S, exp, run, exp2, run2) ==
  \A x \in TimeEvent \ S : exp2[x] = exp[x] /\ run2[x] = run[x]

IsTree(q) == q \in Seq(TimeEvent) /\ IsInjective(q)

LEMMA AfterSame ==
  ASSUME NEW S, NEW exp, NEW run, NEW exp2, NEW run2, SameBut(S, exp, run, exp2, run2),
         NEW a \in TimeEvent \ S, NEW b \in TimeEvent \ S
  PROVE  After(a, b, exp2, run2) <=> After(a, b, exp, run)
BY DEF After, SameBut

\* The tree stays ordered when the keys of others change.
LEMMA HeapOfOthers ==
  ASSUME NEW q, IsTree(q), NEW S, \A x \in S : ~Holds(q, x),
         NEW exp, NEW run, NEW exp2, NEW run2, SameBut(S, exp, run, exp2, run2), Heap(q, exp, run)
  PROVE  Heap(q, exp2, run2)
<1>1. PICK n \in Nat : n = Len(q) /\ DOMAIN q = 1..n
  BY DEF IsTree
<1>2. \A k \in 1..n : q[k] \in TimeEvent \ S
  BY <1>1 DEF IsTree, Holds
<1>3. \A k \in 1..n : k > 1 => k \div 2 \in 1..n
  BY Halves
<1> QED
  BY <1>1, <1>2, <1>3, AfterSame DEF Heap

\* A tree in order, with changed keys for one node
LEMMA Perturbed ==
  ASSUME NEW q, IsTree(q), NEW i \in 1..Len(q), NEW exp \in Keys, NEW run \in Keys, NEW exp2, NEW run2,
         SameBut({q[i]}, exp, run, exp2, run2), Heap(q, exp, run)
  PROVE  NearHeap(q, i, exp2, run2)
<1>1. PICK n \in Nat : n = Len(q) /\ DOMAIN q = 1..n
  BY DEF IsTree
<1>2. \A k \in 1..n : q[k] \in TimeEvent
  BY <1>1 DEF IsTree
<1>3. \A k \in 1..n : k # i => q[k] \in TimeEvent \ {q[i]}
  BY <1>1, <1>2 DEF IsTree, IsInjective
<1>4. \A k \in 1..n : k > 1 => k \div 2 \in 1..n /\ k \div 2 < k
  BY Halves
<1>5. ASSUME NEW k \in 1..n, k > 1, k # i, k \div 2 # i
      PROVE  ~After(q[k \div 2], q[k], exp2, run2)
  <2>1. q[k] \in TimeEvent \ {q[i]} /\ q[k \div 2] \in TimeEvent \ {q[i]}
    BY <1>3, <1>4, <1>5
  <2>2. ~After(q[k \div 2], q[k], exp, run)
    BY <1>1, <1>5 DEF Heap
  <2> QED
    BY <2>1, <2>2, AfterSame
<1>6. ASSUME NEW k \in 1..n, i > 1, k > 1, k \div 2 = i
      PROVE  ~After(q[i \div 2], q[k], exp2, run2)
  <2>1. k # i /\ i \div 2 \in 1..n /\ i \div 2 # i /\ i \in 1..n
    BY <1>1, <1>4, <1>6
  <2>2. ~After(q[i], q[k], exp, run) /\ ~After(q[i \div 2], q[i], exp, run)
    BY <1>1, <1>6, <2>1 DEF Heap
  <2>3. ~After(q[i \div 2], q[k], exp, run)
    BY <1>2, <2>1, <2>2, AfterOrder
  <2> QED
    BY <1>3, <2>1, <2>3, AfterSame
<1> QED
  BY <1>1, <1>5, <1>6 DEF NearHeap

\* The first node is after no other.
LEMMA RootIsFirst ==
  ASSUME NEW q, IsTree(q), NEW exp \in Keys, NEW run \in Keys, Heap(q, exp, run), NEW j \in 1..Len(q)
  PROVE  ~After(q[1], q[j], exp, run)
<1>1. PICK n \in Nat : n = Len(q) /\ DOMAIN q = 1..n
  BY DEF IsTree
<1>2. \A k \in 1..n : q[k] \in TimeEvent
  BY <1>1 DEF IsTree
<1> DEFINE Bad == {k \in 1..n : After(q[1], q[k], exp, run)}
<1> SUFFICES ASSUME Bad # {} PROVE FALSE
  BY <1>1
<1>3. PICK k \in Bad : \A m \in Bad : ~(m < k)
  <2>1. Bad \in SUBSET Nat
    OBVIOUS
  <2> HIDE DEF Bad
  <2> QED
    BY <2>1, Climbing!LeastNat
<1>4. k \in 1..n /\ 1 \in 1..n
  BY <1>3
<1>5. k # 1
  BY <1>2, <1>3, <1>4, AfterOrder
<1>6. k > 1 /\ k \div 2 \in 1..n /\ k \div 2 < k
  BY <1>4, <1>5, Halves
<1>7. ~After(q[k \div 2], q[k], exp, run) /\ k \div 2 \notin Bad
  BY <1>1, <1>3, <1>4, <1>6 DEF Heap
<1> QED
  BY <1>2, <1>3, <1>4, <1>6, <1>7, AfterOrder

\* An event in the tree is moved.
LEMMA ShuffleOK ==
  ASSUME NEW q, IsTree(q), NEW e, Holds(q, e), NEW exp \in Keys, NEW run \in Keys,
         NEW exp2 \in Keys, NEW run2 \in Keys,
         SameBut({e}, exp, run, exp2, run2), Heap(q, exp, run),
         NEW r, r = avahi_prio_queue_shuffle(q, e, exp2, run2)
  PROVE  IsTree(r) /\ Heap(r, exp2, run2) /\ \A x \in TimeEvent : Holds(r, x) <=> Holds(q, x)
<1>1. PICK i \in 1..Len(q) : q[i] = e
  BY DEF Holds, IsTree
<1>2. NearHeap(q, i, exp2, run2)
  BY <1>1, Perturbed
<1>3. Reordered(r, q) /\ Heap(r, exp2, run2)
  BY <1>1, <1>2, Shuffled DEF IsTree
<1> QED
  BY <1>3 DEF IsTree, Reordered

\* An event is put into the tree.
LEMMA PutOK ==
  ASSUME NEW q, IsTree(q), NEW e \in TimeEvent, ~Holds(q, e), NEW exp \in Keys, NEW run \in Keys,
         NEW exp2 \in Keys, SameBut({e}, exp, run, exp2, run), Heap(q, exp, run),
         NEW r, r = avahi_prio_queue_put(q, e, exp2, run)
  PROVE  IsTree(r) /\ Heap(r, exp2, run) /\ \A x \in TimeEvent : Holds(r, x) <=> x = e \/ Holds(q, x)
<1>1. PICK n \in Nat : n = Len(q) /\ DOMAIN q = 1..n
  BY DEF IsTree
<1>2. PICK s : s = Append(q, e)
  OBVIOUS
<1>3. /\ s \in Seq(TimeEvent) /\ Len(s) = n + 1 /\ DOMAIN s = 1..(n + 1)
      /\ s[n + 1] = e /\ \A k \in 1..n : s[k] = q[k]
  BY <1>1, <1>2 DEF IsTree
<1>4. PICK i \in Nat : i = n + 1
  OBVIOUS
<1>5. \A k \in 1..i : k \in 1..n \/ k = i
  BY <1>4
<1>6. IsInjective(s)
  BY <1>1, <1>3, <1>4, <1>5 DEF IsTree, IsInjective, Holds
<1>7. Heap(q, exp2, run)
  BY HeapOfOthers
<1>8. NearHeap(s, i, exp2, run)
  <2>1. \A k \in 1..i : k > 1 => k \div 2 \in 1..i /\ k \div 2 < k
    BY <1>4, Halves
  <2>2. \A k \in 1..i : k > 1 /\ k # i /\ k \div 2 # i => ~After(s[k \div 2], s[k], exp2, run)
    BY <1>1, <1>3, <1>5, <1>7, <2>1 DEF Heap
  <2>3. \A k \in 1..i : k > 1 => k \div 2 # i
    BY <1>4, <2>1
  <2> QED
    BY <1>3, <1>4, <2>2, <2>3 DEF NearHeap
<1>9. Reordered(r, s) /\ Heap(r, exp2, run)
  <2>1. i \in 1..Len(s) /\ s[i] = e
    BY <1>3, <1>4
  <2>2. r = avahi_prio_queue_shuffle(s, e, exp2, run)
    BY <1>2 DEF avahi_prio_queue_put
  <2> QED
    BY <1>3, <1>6, <1>8, <2>1, <2>2, Shuffled
<1>10. \A x \in TimeEvent : Holds(s, x) <=> x = e \/ Holds(q, x)
  BY <1>1, <1>3, <1>4, <1>5 DEF Holds
<1> QED
  BY <1>9, <1>10 DEF IsTree, Reordered

\* An event is taken out of the tree.
LEMMA RemoveOK ==
  ASSUME NEW q, IsTree(q), NEW e, Holds(q, e), NEW exp \in Keys, NEW run \in Keys, Heap(q, exp, run),
         NEW r, r = avahi_prio_queue_remove(q, e, exp, run)
  PROVE  IsTree(r) /\ Heap(r, exp, run) /\ \A x \in TimeEvent : Holds(r, x) <=> x # e /\ Holds(q, x)
<1>1. PICK n \in Nat : n = Len(q) /\ DOMAIN q = 1..n
  BY DEF IsTree
<1>2. PICK i \in 1..n : q[i] = e
  BY <1>1 DEF Holds
<1>3. n > 0 /\ n \in 1..n /\ n - 1 \in Nat
  BY <1>1, <1>2
<1>4. PICK m \in Nat : m = n - 1 /\ n = m + 1
  BY <1>3
<1>5. \A k \in 1..n : q[k] \in TimeEvent /\ (k \in 1..m \/ k = n)
  BY <1>1, <1>4 DEF IsTree
<1>6. \A k \in 1..m : k \in 1..n /\ k # n /\ (k > 1 => k \div 2 \in 1..m /\ k \div 2 < k)
  BY <1>4, Halves
<1>7. \A j, k \in 1..n : q[j] = q[k] => j = k
  BY <1>1 DEF IsTree, IsInjective
<1>8. CASE e = q[n]
  <2>1. r = SubSeq(q, 1, m)
    BY <1>1, <1>4, <1>8 DEF avahi_prio_queue_remove, Front
  <2>2. /\ r \in Seq(TimeEvent) /\ Len(r) = m /\ DOMAIN r = 1..m
        /\ \A k \in 1..m : r[k] = q[k]
    BY <1>1, <1>4, <2>1 DEF IsTree
  <2>3. IsInjective(r)
    BY <1>6, <1>7, <2>2 DEF IsInjective
  <2>4. Heap(r, exp, run)
    BY <1>1, <1>6, <2>2 DEF Heap
  <2>5. \A x \in TimeEvent : Holds(r, x) <=> x # e /\ Holds(q, x)
    BY <1>1, <1>3, <1>5, <1>6, <1>7, <1>8, <2>2 DEF Holds
  <2> QED
    BY <2>2, <2>3, <2>4, <2>5 DEF IsTree
<1>9. CASE e # q[n]
  <2>1. i \in 1..m /\ i # n
    BY <1>2, <1>5, <1>9
  <2>2. Position(q, e) = i
    BY <1>1, <1>2, <1>7 DEF Position
  <2>3. PICK w : w = [q EXCEPT ![i] = q[n]]
    OBVIOUS
  <2>4. w \in Seq(TimeEvent) /\ Len(w) = n /\ \A k \in 1..n : w[k] = IF k = i THEN q[n] ELSE q[k]
    BY <1>1, <1>3, <1>5, <2>3 DEF IsTree
  <2>5. PICK s : s = SubSeq(w, 1, m)
    OBVIOUS
  <2>6. /\ s \in Seq(TimeEvent) /\ Len(s) = m /\ DOMAIN s = 1..m
        /\ \A k \in 1..m : s[k] = IF k = i THEN q[n] ELSE q[k]
    <3>1. /\ s \in Seq(TimeEvent) /\ Len(s) = m /\ DOMAIN s = 1..m
          /\ \A k \in 1..m : s[k] = w[k]
      BY <1>4, <2>4, <2>5
    <3> QED
      BY <1>6, <2>4, <3>1
  <2>7. r = avahi_prio_queue_shuffle(s, q[n], exp, run)
    BY <1>1, <1>4, <1>9, <2>2, <2>3, <2>4, <2>5 DEF avahi_prio_queue_remove, Front
  <2>8. IsInjective(s)
    BY <1>3, <1>6, <1>7, <2>6 DEF IsInjective
  <2>9. NearHeap(s, i, exp, run)
    <3>1. \A k \in 1..m : k > 1 /\ k # i /\ k \div 2 # i => ~After(s[k \div 2], s[k], exp, run)
      BY <1>1, <1>6, <2>6 DEF Heap
    <3>2. ASSUME NEW k \in 1..m, i > 1, k > 1, k \div 2 = i
          PROVE  ~After(s[i \div 2], s[k], exp, run)
      <4>1. k # i /\ i \div 2 \in 1..m /\ i \div 2 # i /\ i \div 2 \in 1..n /\ k \in 1..n
        BY <1>6, <2>1, <3>2
      <4>2. ~After(q[i \div 2], q[i], exp, run) /\ ~After(q[i], q[k], exp, run)
        BY <1>1, <3>2, <4>1 DEF Heap
      <4>3. ~After(q[i \div 2], q[k], exp, run)
        BY <1>5, <4>1, <4>2, AfterOrder
      <4> QED
        BY <2>6, <4>1, <4>3
    <3> QED
      BY <2>6, <3>1, <3>2 DEF NearHeap
  <2>10. Reordered(r, s) /\ Heap(r, exp, run)
    <3>1. i \in 1..Len(s) /\ s[i] = q[n]
      BY <2>1, <2>6
    <3> QED
      BY <2>6, <2>7, <2>8, <2>9, <3>1, Shuffled
  <2>11. \A x \in TimeEvent : Holds(s, x) <=> x # e /\ Holds(q, x)
    <3>1. ASSUME NEW x, Holds(s, x)
          PROVE  x # e /\ Holds(q, x)
      BY <1>1, <1>2, <1>3, <1>6, <1>7, <1>9, <2>6, <3>1 DEF Holds
    <3>2. ASSUME NEW x, x # e, Holds(q, x)
          PROVE  Holds(s, x)
      <4>1. PICK k \in 1..n : q[k] = x
        BY <1>1, <3>2 DEF Holds
      <4>2. CASE k = n
        BY <2>1, <2>6, <4>1, <4>2 DEF Holds
      <4>3. CASE k # n
        BY <1>2, <1>5, <2>6, <3>2, <4>1, <4>3 DEF Holds
      <4> QED
        BY <4>2, <4>3
    <3> QED
      BY <3>1, <3>2
  <2> QED
    BY <2>10, <2>11 DEF IsTree, Reordered
<1> QED
  BY <1>8, <1>9

-----------------------------------------------------------------------------
(* The steps                                                               *)

Instants == 0..MaxTime

\* The timer runs for the first event.
InTimeFor(q, exp) ==
  /\ q = <<>> <=> timer = Off
  /\ \A e \in TimeEvent : Holds(q, e) => timer <= exp[e] \/ timer <= now

TimeIInv ==
  /\ now \in Instants /\ timer \in 0..Off
  /\ IsTree(queue)
  /\ expiry \in [TimeEvent -> Instants] /\ last_run \in [TimeEvent -> Instants]
  /\ Heap(queue, expiry, last_run)
  /\ InTimeFor(queue, expiry)

LEMMA TimeImplies == TimeIInv <=> TimeInv
<1>1. IsTree(queue) => DOMAIN queue = 1..Len(queue)
  BY DEF IsTree
<1> QED
  BY <1>1, Zenon DEF TimeIInv, TimeInv, TimeTypeOK, HeapOrdered, TimerInTime, Heap, InTimeFor, IsTree, InQueue,
         Holds, Instants

LEMMA ArmedInTime ==
  ASSUME now \in Instants, NEW t \in Instants
  PROVE  Armed(t) \in Nat /\ (Armed(t) <= t \/ Armed(t) <= now)
<1>1. PICK m \in Nat : m = Millisecond /\ m > 0
  BY TimeAssumption
<1>2. now \in Nat /\ t \in Nat
  BY DEF Instants
<1>3. PICK x \in Nat : x = (IF t > now THEN t - now ELSE 0)
  <2>1. t > now => t - now \in Nat
    BY <1>2
  <2> QED
    BY <1>2, <2>1
<1>4. x \div m \in Nat /\ m * (x \div m) \in Nat /\ m * (x \div m) <= x
  BY <1>1
<1>5. PICK y \in Nat : y = m * (x \div m) /\ y <= x
  BY <1>4
<1>6. Armed(t) = now + y
  BY <1>1, <1>3, <1>5 DEF Armed
<1> QED
  BY <1>2, <1>3, <1>5, <1>6

\* Every change of the queue ends with an ordered tree and the timer set.
LEMMA RequeuedKeeps ==
  ASSUME TimeIInv, NEW q, IsTree(q), NEW exp \in [TimeEvent -> Instants], NEW run \in [TimeEvent -> Instants],
         Heap(q, exp, run), Requeued(q, exp, run)
  PROVE  TimeIInv'
<1>1. queue' = q /\ expiry' = exp /\ last_run' = run /\ now' = now /\ now \in Instants
  BY DEF Requeued, TimeIInv
<1>2. timer' = IF q = <<>> THEN Off ELSE Armed(exp[q[1]])
  BY DEF Requeued, update_timeout
<1>3. MaxTime \in Nat /\ Off \in Nat /\ Off = MaxTime + 1 /\ Instants \subseteq Nat
  BY TimeAssumption DEF Off, Instants
<1>4. exp \in Keys /\ run \in Keys
  BY <1>3 DEF Keys
<1>5. CASE q = <<>>
  <2>1. timer' = Off /\ \A e : ~Holds(q, e)
    BY <1>2, <1>5 DEF Holds
  <2> QED
    BY <1>1, <1>3, <1>5, <2>1 DEF TimeIInv, InTimeFor, Off
<1>6. CASE q # <<>>
  <2>1. PICK n \in Nat : n = Len(q) /\ DOMAIN q = 1..n
    BY DEF IsTree
  <2>2. n > 0 /\ 1 \in 1..n
    BY <1>6, <2>1 DEF IsTree
  <2>3. \A k \in 1..n : q[k] \in TimeEvent
    BY <2>1 DEF IsTree
  <2>4. PICK t \in Instants : t = exp[q[1]]
    BY <2>2, <2>3
  <2>5. timer' = Armed(t) /\ timer' \in Nat /\ (timer' <= t \/ timer' <= now)
    BY <1>1, <1>2, <1>6, <2>4, ArmedInTime
  <2>6. timer' \in 0..MaxTime /\ timer' # Off
    BY <1>1, <1>3, <2>4, <2>5 DEF Instants
  <2>7. ASSUME NEW e \in TimeEvent, Holds(q, e)
        PROVE  timer' <= exp[e] \/ timer' <= now
    <3>1. PICK j \in 1..n : q[j] = e
      BY <2>1, <2>7 DEF Holds
    <3>2. ~After(q[1], e, exp, run)
      BY <1>4, <2>1, <3>1, RootIsFirst
    <3>3. exp[e] \in Nat /\ t \in Nat /\ now \in Nat
      BY <1>1, <1>3
    <3>4. t <= exp[e]
      BY <2>4, <3>2, <3>3 DEF After
    <3> QED
      BY <2>5, <3>3, <3>4
  <2> QED
    BY <1>1, <1>3, <1>6, <2>6, <2>7 DEF TimeIInv, InTimeFor, Off
<1> QED
  BY <1>5, <1>6

\* An event is removed from a tree of the events in the queue.
LEMMA WithoutKeeps ==
  ASSUME TimeIInv, NEW e \in TimeEvent, NEW q, IsTree(q), Holds(q, e),
         NEW exp \in [TimeEvent -> Instants], NEW run \in [TimeEvent -> Instants], Heap(q, exp, run),
         Without(e, q, exp, run)
  PROVE  TimeIInv'
<1>1. 0 \in Instants /\ Instants \subseteq Nat
  BY TimeAssumption DEF Instants
<1>2. PICK r, x, y : /\ r = avahi_prio_queue_remove(q, e, exp, run)
                     /\ x = [exp EXCEPT ![e] = 0] /\ y = [run EXCEPT ![e] = 0]
  OBVIOUS
<1>3. Requeued(r, x, y)
  BY <1>2 DEF Without
<1>4. x \in [TimeEvent -> Instants] /\ y \in [TimeEvent -> Instants] /\ SameBut({e}, exp, run, x, y)
  BY <1>1, <1>2 DEF SameBut
<1>5. exp \in Keys /\ run \in Keys
  BY <1>1 DEF Keys
<1>6. IsTree(r) /\ Heap(r, exp, run) /\ ~Holds(r, e)
  BY <1>2, <1>5, RemoveOK
<1>7. Heap(r, x, y)
  BY <1>4, <1>6, HeapOfOthers
<1> QED
  BY <1>3, <1>4, <1>6, <1>7, RequeuedKeeps

\* An event is moved in one.
LEMMA MovedKeeps ==
  ASSUME TimeIInv, NEW e \in TimeEvent, NEW t \in Instants, NEW q, IsTree(q), Holds(q, e),
         NEW exp \in [TimeEvent -> Instants], NEW run \in [TimeEvent -> Instants], Heap(q, exp, run),
         Moved(e, t, q, exp, run)
  PROVE  TimeIInv'
<1>1. PICK x, r : x = [exp EXCEPT ![e] = t] /\ r = avahi_prio_queue_shuffle(q, e, x, run)
  OBVIOUS
<1>2. Requeued(r, x, run)
  BY <1>1 DEF Moved
<1>3. x \in [TimeEvent -> Instants] /\ SameBut({e}, exp, run, x, run)
  BY <1>1 DEF SameBut
<1>4. exp \in Keys /\ run \in Keys /\ x \in Keys
  BY <1>3, TimeAssumption DEF Keys, Instants
<1>5. IsTree(r) /\ Heap(r, x, run)
  BY <1>1, <1>3, <1>4, ShuffleOK
<1> QED
  BY <1>2, <1>3, <1>5, RequeuedKeeps

LEMMA NewEventKeeps ==
  ASSUME TimeIInv, NEW e \in TimeEvent, NEW t \in Instants, avahi_time_event_new(e, t)
  PROVE  TimeIInv'
<1>1. PICK x, r : x = [expiry EXCEPT ![e] = t] /\ r = avahi_prio_queue_put(queue, e, x, last_run)
  OBVIOUS
<1>2. Requeued(r, x, last_run) /\ ~Holds(queue, e)
  BY <1>1 DEF avahi_time_event_new, InQueue, Holds
<1>3. x \in [TimeEvent -> Instants] /\ SameBut({e}, expiry, last_run, x, last_run)
  BY <1>1 DEF SameBut, TimeIInv
<1>4. expiry \in Keys /\ last_run \in Keys /\ x \in Keys
  BY <1>3, TimeAssumption DEF Keys, Instants, TimeIInv
<1>5. IsTree(queue) /\ Heap(queue, expiry, last_run) /\ last_run \in [TimeEvent -> Instants]
  BY DEF TimeIInv
<1>6. IsTree(r) /\ Heap(r, x, last_run)
  BY <1>1, <1>2, <1>3, <1>4, <1>5, PutOK
<1> QED
  BY <1>2, <1>3, <1>5, <1>6, RequeuedKeeps

\* The first event is run.
LEMMA ExpirationKeeps ==
  ASSUME TimeIInv, expiration_event
  PROVE  TimeIInv'
<1>1. PICK e, run, q : /\ e = queue[1] /\ run = [last_run EXCEPT ![e] = now]
                       /\ q = avahi_prio_queue_shuffle(queue, e, expiry, run)
  OBVIOUS
<1>2. /\ InQueue(e)
      /\ Without(e, q, expiry, run) \/ \E t \in now + 1 .. MaxTime : Moved(e, t, q, expiry, run)
  BY <1>1 DEF expiration_event, Due
<1>3. Holds(queue, e) /\ IsTree(queue) /\ Heap(queue, expiry, last_run) /\ now \in Instants
  BY <1>2 DEF InQueue, Holds, TimeIInv
<1>4. e \in TimeEvent
  BY <1>3 DEF Holds, IsTree
<1>5. /\ expiry \in [TimeEvent -> Instants] /\ last_run \in [TimeEvent -> Instants]
      /\ run \in [TimeEvent -> Instants] /\ SameBut({e}, expiry, last_run, expiry, run)
  BY <1>1, <1>3 DEF SameBut, TimeIInv
<1>6. expiry \in Keys /\ last_run \in Keys /\ run \in Keys
  BY <1>5, TimeAssumption DEF Keys, Instants
<1>7. IsTree(q) /\ Heap(q, expiry, run) /\ Holds(q, e)
  <2>1. q = avahi_prio_queue_shuffle(queue, e, expiry, run)
    BY <1>1
  <2>2. IsTree(q) /\ Heap(q, expiry, run) /\ \A x \in TimeEvent : Holds(q, x) <=> Holds(queue, x)
    BY <1>3, <1>5, <1>6, <2>1, ShuffleOK
  <2> QED
    BY <1>3, <1>4, <2>2
<1>8. CASE Without(e, q, expiry, run)
  BY <1>4, <1>5, <1>7, <1>8, WithoutKeeps
<1>9. ASSUME NEW t \in now + 1 .. MaxTime, Moved(e, t, q, expiry, run)
      PROVE  TimeIInv'
  <2>1. t \in Instants
    BY <1>3, TimeAssumption DEF Instants
  <2> QED
    BY <1>4, <1>5, <1>7, <1>9, <2>1, MovedKeeps
<1> QED
  BY <1>2, <1>8, <1>9

LEMMA TickKeeps ==
  ASSUME TimeIInv, TimeTick
  PROVE  TimeIInv'
<1>1. /\ now' = now + 1 /\ now < MaxTime /\ now \in Nat /\ timer \in Nat
      /\ queue' = queue /\ expiry' = expiry /\ last_run' = last_run /\ timer' = timer
  BY TimeAssumption DEF TimeTick, TimeIInv, Instants, Off
<1>2. now' \in Instants
  BY <1>1, TimeAssumption DEF Instants
<1>3. timer <= now => timer <= now'
  BY <1>1
<1> QED
  BY <1>1, <1>2, <1>3 DEF TimeIInv, InTimeFor

\* timeeventq.c, prioq.c and the timer of qt-watch.cpp: no event is run late.  For any
\* events and any resolution of the timer, the tree stays ordered through every put, removal
\* and move, and the timer is set for its first event.
THEOREM NoEventIsLate == TimeSpec => []TimeInv
<1>1. TimeInit => TimeIInv
  <2> SUFFICES ASSUME TimeInit PROVE TimeIInv
    OBVIOUS
  <2>1. 0 \in Instants /\ Off \in 0..Off
    BY TimeAssumption DEF Instants, Off
  <2>2. <<>> \in Seq(TimeEvent) /\ Len(<<>>) = 0 /\ DOMAIN <<>> = {}
    OBVIOUS
  <2>3. IsTree(queue) /\ \A e : ~Holds(queue, e)
    BY <2>2 DEF TimeInit, IsTree, IsInjective, Holds
  <2>4. Heap(queue, expiry, last_run)
    BY <2>2 DEF TimeInit, Heap
  <2> QED
    BY <2>1, <2>3, <2>4 DEF TimeInit, TimeIInv, InTimeFor
<1>2. TimeIInv /\ [TimeNext]_timeVars => TimeIInv'
  <2> SUFFICES ASSUME TimeIInv, [TimeNext]_timeVars PROVE TimeIInv'
    OBVIOUS
  <2>0. \A t \in Times : t \in Instants
    BY TimeAssumption DEF Times, Instants, TimeIInv
  <2>1. ASSUME NEW e \in TimeEvent, NEW t \in Times, avahi_time_event_new(e, t)
        PROVE  TimeIInv'
    BY <2>0, <2>1, NewEventKeeps
  <2>2. ASSUME NEW e \in TimeEvent, NEW t \in Times, avahi_time_event_update(e, t)
        PROVE  TimeIInv'
    BY <2>0, <2>2, MovedKeeps DEF avahi_time_event_update, InQueue, Holds, TimeIInv
  <2>3. ASSUME NEW e \in TimeEvent, avahi_time_event_free(e)
        PROVE  TimeIInv'
    BY <2>3, WithoutKeeps DEF avahi_time_event_free, InQueue, Holds, TimeIInv
  <2>4. CASE expiration_event
    BY <2>4, ExpirationKeeps
  <2>5. CASE StrangeExpiration
    BY <2>5, RequeuedKeeps DEF StrangeExpiration, TimeIInv
  <2>6. CASE TimeTick
    BY <2>6, TickKeeps
  <2>7. CASE UNCHANGED timeVars
    BY <2>7 DEF timeVars, TimeIInv, InTimeFor
  <2> QED
    BY <2>1, <2>2, <2>3, <2>4, <2>5, <2>6, <2>7 DEF TimeNext
<1> QED
  BY <1>1, <1>2, TimeImplies, PTL DEF TimeSpec
=============================================================================
