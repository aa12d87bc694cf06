----------------------------- MODULE TimeEvents -----------------------------
(***************************************************************************)
(* The time events of avahi-core (timeeventq.c) in their priority queue    *)
(* (prioq.c), driven by one timer of the Qt event loop (qt-watch.cpp).     *)
(*                                                                         *)
(* The priority queue is a complete binary tree; queue[i] is the node at   *)
(* position i of the tree, read level by level, with children 2i and 2i+1. *)
(* All callbacks in avahi-core free their event or move it into the        *)
(* future.  The timer counts whole milliseconds.                           *)
(***************************************************************************)
EXTENDS Naturals, Sequences, SequencesExt

CONSTANTS TimeEvent,  \* time events; bounds how many exist
          MaxTime,    \* bound on the clock
          Millisecond \* units of time in a millisecond

ASSUME TimeAssumption == MaxTime \in Nat /\ Millisecond \in Nat \ {0}

VARIABLES now,       \* gettimeofday
          queue,     \* the nodes of the priority queue
          expiry,    \* event -> its expiry
          last_run,  \* event -> when it ran last
          timer      \* when the timer fires; Off if it is stopped

timeVars == <<now, queue, expiry, last_run, timer>>

Off == MaxTime + 1

InQueue(e) == \E i \in DOMAIN queue : queue[i] = e

Position(q, e) == CHOOSE i \in DOMAIN q : q[i] = e

-----------------------------------------------------------------------------
(* The priority queue.                                                     *)

\* compare, as "a > b": by expiry, then by the time of the last run
After(a, b, exp, run) == exp[a] > exp[b] \/ (exp[a] = exp[b] /\ run[a] > run[b])

\* exchange_nodes
exchange_nodes(q, i, j) == [q EXCEPT ![i] = q[j], ![j] = q[i]]

\* avahi_prio_queue_shuffle: the node at s.at moves up by a level until the position is
\* right ...
Climb(s, exp, run) ==
  LET parent == s.at \div 2
  IN IF s.at > 1 /\ After(s.q[parent], s.q[s.at], exp, run)
     THEN [q |-> exchange_nodes(s.q, s.at, parent), at |-> parent]
     ELSE s

\* ... then down, past the smaller child
Sink(s, exp, run) ==
  LET l == 2 * s.at
      min == IF l + 1 <= Len(s.q) /\ After(s.q[l], s.q[l + 1], exp, run) THEN l + 1 ELSE l
  IN IF l <= Len(s.q) /\ After(s.q[s.at], s.q[min], exp, run)
     THEN [q |-> exchange_nodes(s.q, s.at, min), at |-> min]
     ELSE s

\* Each loop ends within as many rounds as there are nodes; a round after its end changes
\* nothing.
avahi_prio_queue_shuffle(q, e, exp, run) ==
  LET up == FoldLeft(LAMBDA s, x : Climb(s, exp, run), [q |-> q, at |-> Position(q, e)], q)
      down == FoldLeft(LAMBDA s, x : Sink(s, exp, run), up, q)
  IN down.q

\* avahi_prio_queue_put
avahi_prio_queue_put(q, e, exp, run) == avahi_prio_queue_shuffle(Append(q, e), e, exp, run)

\* avahi_prio_queue_remove: the last node takes the place of the one removed.
avahi_prio_queue_remove(q, e, exp, run) ==
  LET last == q[Len(q)]
  IN IF e = last THEN Front(q)
     ELSE avahi_prio_queue_shuffle(Front([q EXCEPT ![Position(q, e)] = last]), last, exp, run)

-----------------------------------------------------------------------------
(* The queue of time events.                                               *)

\* AvahiTimeout::update: in whole milliseconds, rounded down
Armed(t) == now + Millisecond * ((IF t > now THEN t - now ELSE 0) \div Millisecond)

\* Mutant: the timer runs for the first event that was added.
update_timeout_stale(q, exp) == timer' = IF q = <<>> THEN Off ELSE IF timer # Off THEN timer ELSE Armed(exp[q[1]])

\* update_timeout
update_timeout(q, exp) == timer' = IF q = <<>> THEN Off ELSE Armed(exp[q[1]])

\* The queue changes to q, with these expiries and last runs.
Requeued(q, exp, run) ==
  /\ queue' = q /\ expiry' = exp /\ last_run' = run
  /\ update_timeout(q, exp)
  /\ UNCHANGED now

\* avahi_time_event_new; without a time it is due at once.
avahi_time_event_new(e, t) ==
  LET exp == [expiry EXCEPT ![e] = t]
  IN
  /\ ~InQueue(e)
  /\ Requeued(avahi_prio_queue_put(queue, e, exp, last_run), exp, last_run)

\* The queue without e, given the keys it is sorted by
Without(e, q, exp, run) ==
  Requeued(avahi_prio_queue_remove(q, e, exp, run), [exp EXCEPT ![e] = 0], [run EXCEPT ![e] = 0])

\* avahi_time_event_free
avahi_time_event_free(e) == InQueue(e) /\ Without(e, queue, expiry, last_run)

\* The queue with e moved to time t
Moved(e, t, q, exp, run) ==
  LET new == [exp EXCEPT ![e] = t]
  IN Requeued(avahi_prio_queue_shuffle(q, e, new, run), new, run)

\* avahi_time_event_update
avahi_time_event_update(e, t) ==
  /\ InQueue(e) /\ t # expiry[e]
  /\ Moved(e, t, queue, expiry, last_run)

TimerFires == timer # Off /\ timer <= now

Due(e) == InQueue(e) /\ expiry[e] <= now

\* expiration_event: the first event is run if it is due.  Its callback frees it or moves
\* it into the future.
expiration_event ==
  LET e == queue[1]
      run == [last_run EXCEPT ![e] = now]
      q == avahi_prio_queue_shuffle(queue, e, expiry, run)
  IN
  /\ TimerFires /\ Due(e)
  /\ \/ Without(e, q, expiry, run)
     \/ \E t \in now + 1 .. MaxTime : Moved(e, t, q, expiry, run)

\* expiration_event, when the timer fired too early
StrangeExpiration ==
  /\ TimerFires /\ ~Due(queue[1])
  /\ Requeued(queue, expiry, last_run)

\* Time passes; the event loop may be late.
TimeTick ==
  /\ now < MaxTime
  /\ now' = now + 1
  /\ UNCHANGED <<queue, expiry, last_run, timer>>

\* avahi_time_event_queue_new
TimeInit ==
  /\ now = 0 /\ queue = <<>> /\ timer = Off
  /\ expiry = [e \in TimeEvent |-> 0]
  /\ last_run = [e \in TimeEvent |-> 0]

Times == {0} \cup now .. MaxTime

TimeNext ==
  \/ \E e \in TimeEvent : \/ \E t \in Times : avahi_time_event_new(e, t) \/ avahi_time_event_update(e, t)
                          \/ avahi_time_event_free(e)
  \/ expiration_event
  \/ StrangeExpiration
  \/ TimeTick

TimeSpec == TimeInit /\ [][TimeNext]_timeVars

-----------------------------------------------------------------------------
TimeTypeOK ==
  /\ now \in 0..MaxTime /\ timer \in 0..Off
  /\ queue \in Seq(TimeEvent) /\ IsInjective(queue)
  /\ expiry \in [TimeEvent -> 0..MaxTime] /\ last_run \in [TimeEvent -> 0..MaxTime]

\* After events were added, removed from the middle of the tree and moved in any order, no
\* event comes after one of its children, so that the first is due first and, among
\* events for the same time, is the one that has not run for longest.
HeapOrdered ==
  \A i \in DOMAIN queue : i > 1 => ~After(queue[i \div 2], queue[i], expiry, last_run)

\* The timer fires no later than the earliest event is due, whatever was done to the queue
\* since it was started, also after it fired too early; it is stopped when there is none.
TimerInTime ==
  /\ queue = <<>> <=> timer = Off
  /\ \A e \in TimeEvent : InQueue(e) => timer <= expiry[e] \/ timer <= now

\* No event is run late, whatever was put into the queue, moved and removed: the tree is
\* ordered, and the one timer is set for its first event.
TimeInv == TimeTypeOK /\ HeapOrdered /\ TimerInTime
=============================================================================
