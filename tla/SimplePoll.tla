----------------------------- MODULE SimplePoll -----------------------------
(***************************************************************************)
(* The poll() main loop of avahi-common (simple-watch.c), run in a helper  *)
(* thread (thread-watch.c).                                                *)
(*                                                                         *)
(* The helper thread holds the mutex except inside poll(): another thread  *)
(* adds, changes and frees watches and timeouts only while the loop is     *)
(* RUNNING (or before it is started), callbacks do so while it is          *)
(* DISPATCHING.  An assertion that fails ends the program: ABORTED.        *)
(* What is read back from the wakeup pipe is whatever was written to it.   *)
(*                                                                         *)
(* Times are in units of which a millisecond has PollMillisecond (in the   *)
(* code 1000, they are microseconds); poll() is given whole milliseconds,  *)
(* in an int.                                                              *)
(***************************************************************************)
EXTENDS Integers, Sequences, SequencesExt, FiniteSets

CONSTANTS Watch,    \* watches; bounds how many exist
          Timeout,  \* timeouts; bounds how many exist
          MaxClock, \* bound on the clock
          Expiry,   \* the times for which timeouts are set
          PollMillisecond, \* a millisecond, in units of the clock
          IntMax    \* INT_MAX

ASSUME PollAssumption ==
  /\ MaxClock \in Nat /\ IsFiniteSet(Watch) /\ Watch \cap Timeout = {}
  /\ Expiry \subseteq Nat /\ PollMillisecond \in Nat \ {0} /\ IntMax \in Nat

VARIABLES poll_state,       \* AvahiSimplePoll.state
          watches,          \* the list of watches, newest first
          dead,             \* watches and timeouts that were freed
          events,           \* watch -> what it asks for
          idx,              \* watch -> its index in pollfds; 0 stands for -1
          pollfds,          \* the array for poll(), without the wakeup pipe at index 0
          rebuild_pollfds,
          timeouts,         \* the list of timeouts, newest first
          timeout_expiry,   \* timeout -> its expiry; Disabled
          wakeup,           \* there is something in the wakeup pipe
          watch_req_cleanup,
          timeout_req_cleanup,
          quit,
          clock,
          prepared_timeout, \* the timeout for poll(), in milliseconds; negative: none
          prepared_at,      \* the clock when it was computed, until poll() returns
          polled_at         \* the clock when poll() was called last, until it returns

sleepVars == <<prepared_timeout, prepared_at, polled_at>>

pollVars == <<poll_state, watches, dead, events, idx, pollfds, rebuild_pollfds, timeouts, timeout_expiry, wakeup,
              watch_req_cleanup, timeout_req_cleanup, quit, clock, sleepVars>>

watchVars == <<watches, events, idx, pollfds, rebuild_pollfds, watch_req_cleanup>>
timeoutVars == <<timeouts, timeout_expiry, timeout_req_cleanup>>
loopVars == <<poll_state, quit, clock, sleepVars>>

Events == {"in", "out"}
Disabled == -1
Expiries == Expiry \cup {Disabled}

Fd(w, ev, re) == [watch |-> w, events |-> ev, revents |-> re]

Members(seq) == {seq[i] : i \in DOMAIN seq}
Live(seq) == Members(seq) \ dead

-----------------------------------------------------------------------------
(* The API, while the mutex can be had.                                    *)

MayCall == poll_state \in {"INIT", "RUNNING", "DISPATCHING"}

\* avahi_simple_poll_wakeup
avahi_simple_poll_wakeup == wakeup' = TRUE

watch_new(w, ev) ==
  /\ MayCall /\ w \notin Members(watches)
  /\ avahi_simple_poll_wakeup
  /\ watches' = <<w>> \o watches
  /\ events' = [events EXCEPT ![w] = ev] /\ idx' = [idx EXCEPT ![w] = 0]
  /\ rebuild_pollfds' = TRUE
  /\ UNCHANGED <<dead, pollfds, watch_req_cleanup, timeoutVars, loopVars>>

\* Mutant: the array is not updated.
watch_update_uncopied(w, ev) ==
  /\ MayCall /\ w \in Live(watches)
  /\ avahi_simple_poll_wakeup
  /\ events' = [events EXCEPT ![w] = ev]
  /\ rebuild_pollfds' = (idx[w] = 0 \/ rebuild_pollfds)
  /\ UNCHANGED <<dead, watches, idx, pollfds, watch_req_cleanup, timeoutVars, loopVars>>

watch_update(w, ev) ==
  /\ MayCall /\ w \in Live(watches)
  /\ avahi_simple_poll_wakeup
  /\ events' = [events EXCEPT ![w] = ev]
  /\ IF idx[w] # 0
     THEN pollfds' = [pollfds EXCEPT ![idx[w]] = Fd(w, ev, FALSE)] /\ UNCHANGED rebuild_pollfds
     ELSE rebuild_pollfds' = TRUE /\ UNCHANGED pollfds
  /\ UNCHANGED <<dead, watches, idx, watch_req_cleanup, timeoutVars, loopVars>>

\* watch_free and remove_pollfd
watch_free(w) ==
  /\ MayCall /\ w \in Live(watches)
  /\ avahi_simple_poll_wakeup
  /\ rebuild_pollfds' = (idx[w] # 0 \/ rebuild_pollfds)
  /\ dead' = dead \cup {w}
  /\ watch_req_cleanup' = TRUE
  /\ UNCHANGED <<watches, events, idx, pollfds, timeoutVars, loopVars>>

timeout_new(t, e) ==
  /\ MayCall /\ t \notin Members(timeouts)
  /\ avahi_simple_poll_wakeup
  /\ timeouts' = <<t>> \o timeouts /\ timeout_expiry' = [timeout_expiry EXCEPT ![t] = e]
  /\ UNCHANGED <<dead, timeout_req_cleanup, watchVars, loopVars>>

timeout_update(t, e) ==
  /\ MayCall /\ t \in Live(timeouts)
  /\ avahi_simple_poll_wakeup
  /\ timeout_expiry' = [timeout_expiry EXCEPT ![t] = e]
  /\ UNCHANGED <<dead, timeouts, timeout_req_cleanup, watchVars, loopVars>>

timeout_free(t) ==
  /\ MayCall /\ t \in Live(timeouts)
  /\ avahi_simple_poll_wakeup
  /\ dead' = dead \cup {t}
  /\ timeout_req_cleanup' = TRUE
  /\ UNCHANGED <<timeouts, timeout_expiry, watchVars, loopVars>>

\* avahi_simple_poll_quit, as called by avahi_threaded_poll_stop and avahi_threaded_poll_quit
avahi_simple_poll_quit ==
  /\ MayCall /\ ~quit
  /\ quit' = TRUE
  /\ avahi_simple_poll_wakeup
  /\ UNCHANGED <<dead, poll_state, clock, sleepVars, watchVars, timeoutVars>>

-----------------------------------------------------------------------------
(* The loop.                                                               *)

\* find_next_timeout: the earliest enabled one, the newest among equals
Enabled == {i \in DOMAIN timeouts : timeouts[i] \notin dead /\ timeout_expiry[timeouts[i]] # Disabled}

find_next_timeout ==
  timeouts[CHOOSE i \in Enabled : \A j \in Enabled :
             \/ timeout_expiry[timeouts[i]] < timeout_expiry[timeouts[j]]
             \/ timeout_expiry[timeouts[i]] = timeout_expiry[timeouts[j]] /\ i <= j]

\* rebuild
Rebuilt(ws) == [i \in 1..Len(ws) |-> Fd(ws[i], events[ws[i]], FALSE)]

rebuild(ws) ==
  IF rebuild_pollfds
  THEN /\ pollfds' = Rebuilt(ws)
       /\ idx' = [w \in Watch |-> IF w \in Members(ws) THEN CHOOSE i \in DOMAIN ws : ws[i] = w ELSE idx[w]]
  ELSE UNCHANGED <<pollfds, idx>>

Alive(seq) == FoldLeft(LAMBDA alive, x : IF x \in dead THEN alive ELSE Append(alive, x), <<>>, seq)

\* cleanup_watches and cleanup_timeouts.  The former resets the flag of the latter.
Cleanup ==
  LET ct == timeout_req_cleanup /\ ~watch_req_cleanup
  IN
  /\ watches' = (IF watch_req_cleanup THEN Alive(watches) ELSE watches)
  /\ timeouts' = (IF ct THEN Alive(timeouts) ELSE timeouts)
  /\ dead' = dead \ ((IF watch_req_cleanup THEN Members(watches) ELSE {})
                     \cup (IF ct THEN Members(timeouts) ELSE {}))
  /\ timeout_req_cleanup' = FALSE
  /\ UNCHANGED <<watch_req_cleanup, events, timeout_expiry>>

MayPrepare == poll_state \in {"INIT", "DISPATCHED"}

\* avahi_simple_poll_prepare, when a quit was requested
PrepareQuit ==
  /\ MayPrepare /\ quit
  /\ wakeup' = FALSE
  /\ Cleanup
  /\ poll_state' = "QUIT"
  /\ UNCHANGED <<idx, pollfds, rebuild_pollfds, quit, clock, sleepVars>>

\* The value of n in an int
InInt(n) ==
  LET m == n % (2 * (IntMax + 1))
  IN IF m > IntMax THEN m - 2 * (IntMax + 1) ELSE m

\* How long to sleep when there is usec to wait: "(int) (usec / 1000) + 1"
SleepTime(usec) == IF usec <= 0 THEN 0 ELSE InInt(InInt(usec \div PollMillisecond) + 1)

\* avahi_simple_poll_prepare: clears the wakeup and computes how long to sleep.
avahi_simple_poll_prepare ==
  /\ MayPrepare /\ ~quit
  /\ wakeup' = FALSE
  /\ Cleanup
  /\ rebuild(Alive(watches)) /\ rebuild_pollfds' = FALSE
  /\ prepared_timeout' = (IF Enabled = {} THEN -1
                          ELSE SleepTime(timeout_expiry[find_next_timeout] - clock))
  /\ prepared_at' = clock
  /\ poll_state' = "PREPARED"
  /\ UNCHANGED <<quit, clock, polled_at>>

\* avahi_simple_poll_run, up to poll(), which poll_func enters with the mutex unlocked
avahi_simple_poll_run ==
  /\ poll_state = "PREPARED"
  /\ poll_state' = "RUNNING"
  /\ polled_at' = clock
  /\ UNCHANGED <<wakeup, dead, quit, clock, prepared_timeout, prepared_at, watchVars, timeoutVars>>

\* A signal: poll() is called again, with the same timeout.
PollInterrupted ==
  /\ poll_state = "RUNNING"
  /\ polled_at' = clock
  /\ UNCHANGED <<poll_state, wakeup, dead, quit, clock, prepared_timeout, prepared_at, watchVars, timeoutVars>>

PollTimesOut == prepared_timeout >= 0 /\ polled_at + prepared_timeout * PollMillisecond <= clock

\* poll() returns with events, because of the wakeup pipe or when its time is over.
PollReturns(ready) ==
  /\ poll_state = "RUNNING"
  /\ ready # {} \/ wakeup \/ PollTimesOut
  /\ pollfds' = [i \in DOMAIN pollfds |-> [pollfds[i] EXCEPT !.revents = i \in ready]]
  /\ poll_state' = "RAN"
  /\ prepared_timeout' = 0 /\ prepared_at' = 0 /\ polled_at' = 0
  /\ UNCHANGED <<watches, dead, events, idx, rebuild_pollfds, wakeup, watch_req_cleanup, quit, clock,
                 timeoutVars>>

\* poll() fails for good: avahi_simple_poll_loop returns.
PollFails ==
  /\ poll_state = "RUNNING"
  /\ poll_state' = "FAILURE"
  /\ UNCHANGED <<wakeup, dead, quit, clock, sleepVars, watchVars, timeoutVars>>

TimeoutElapsed == Enabled # {} /\ timeout_expiry[find_next_timeout] <= clock

\* avahi_simple_poll_dispatch: a timeout is called, and disabled first.
DispatchTimeout ==
  /\ poll_state = "RAN" /\ TimeoutElapsed
  /\ timeout_expiry' = [timeout_expiry EXCEPT ![find_next_timeout] = Disabled]
  /\ poll_state' = "DISPATCHING"
  /\ UNCHANGED <<wakeup, dead, timeouts, timeout_req_cleanup, quit, clock, sleepVars, watchVars>>

\* avahi_simple_poll_dispatch: the first watch with an event is called; the assertion on
\* the index is met on the way.
DispatchWatches ==
  LET live == Alive(watches)
      ready(w) == pollfds[idx[w]].revents
      stops == {i \in DOMAIN live : idx[live[i]] = 0 \/ ready(live[i])}
      first == live[CHOOSE i \in stops : \A j \in stops : i <= j]
  IN
  /\ poll_state = "RAN" /\ ~TimeoutElapsed
  /\ poll_state' = (IF stops = {} THEN "DISPATCHED" ELSE IF idx[first] = 0 THEN "ABORTED" ELSE "DISPATCHING")
  /\ UNCHANGED <<wakeup, dead, quit, clock, sleepVars, watchVars, timeoutVars>>

CallbackReturns ==
  /\ poll_state = "DISPATCHING"
  /\ poll_state' = "DISPATCHED"
  /\ UNCHANGED <<wakeup, dead, quit, clock, sleepVars, watchVars, timeoutVars>>

ClockTick ==
  /\ clock < MaxClock
  /\ clock' = clock + 1
  /\ UNCHANGED <<wakeup, dead, poll_state, quit, sleepVars, watchVars, timeoutVars>>

\* avahi_simple_poll_new and avahi_threaded_poll_new, whose set_func issues a wakeup
PollCreated(s) ==
  /\ poll_state = s /\ wakeup = TRUE /\ quit = FALSE /\ dead = {}
  /\ watches = <<>> /\ pollfds = <<>> /\ rebuild_pollfds = TRUE
  /\ events = [w \in Watch |-> "in"] /\ idx = [w \in Watch |-> 0]
  /\ timeouts = <<>> /\ timeout_expiry = [t \in Timeout |-> Disabled]
  /\ watch_req_cleanup = FALSE /\ timeout_req_cleanup = FALSE
  /\ clock = 0 /\ prepared_timeout = 0 /\ prepared_at = 0 /\ polled_at = 0

PollInit == PollCreated("INIT")

PollNext ==
  \/ \E w \in Watch : (\E ev \in Events : watch_new(w, ev) \/ watch_update(w, ev)) \/ watch_free(w)
  \/ \E t \in Timeout : (\E e \in Expiries : timeout_new(t, e) \/ timeout_update(t, e)) \/ timeout_free(t)
  \/ avahi_simple_poll_quit
  \/ PrepareQuit \/ avahi_simple_poll_prepare \/ avahi_simple_poll_run
  \/ \E ready \in SUBSET DOMAIN pollfds : PollReturns(ready)
  \/ PollInterrupted \/ PollFails \/ DispatchTimeout \/ DispatchWatches \/ CallbackReturns \/ ClockTick

PollSpec == PollInit /\ [][PollNext]_pollVars

-----------------------------------------------------------------------------
PollStates == {"INIT", "PREPARED", "RUNNING", "RAN", "DISPATCHING", "DISPATCHED", "QUIT", "FAILURE", "ABORTED"}

PollTypeOK ==
  /\ poll_state \in PollStates
  /\ Members(watches) \subseteq Watch /\ IsInjective(watches)
  /\ Members(timeouts) \subseteq Timeout /\ IsInjective(timeouts)
  /\ dead \subseteq Members(watches) \cup Members(timeouts)
  /\ events \in [Watch -> Events] /\ timeout_expiry \in [Timeout -> Expiries]
  /\ Len(pollfds) <= Cardinality(Watch) /\ \A i \in DOMAIN pollfds : pollfds[i].watch \in Watch
  /\ \A w \in Members(watches) : idx[w] \in 0..Len(pollfds)

\* poll() waits for exactly what the live watches ask for, however they were added, changed
\* and freed by callbacks and, while it was waiting, by the other thread: in the latter
\* case it has been woken up.
PollsWhatIsAsked ==
  poll_state \in {"PREPARED", "RUNNING"} /\ ~wakeup =>
    /\ Len(pollfds) = Cardinality(Live(watches))
    /\ \A w \in Live(watches) :
         /\ idx[w] # 0
         /\ pollfds[idx[w]].watch = w /\ pollfds[idx[w]].events = events[w]

\* So far away a timeout may be.
NearEnough(e) == (e - prepared_at) \div PollMillisecond < IntMax

WakesFor(e) ==
  /\ prepared_timeout >= 0
  /\ \/ prepared_timeout = 0
     \/ prepared_at + prepared_timeout * PollMillisecond <= e + PollMillisecond

\* What poll() is told to sleep takes it at most one millisecond past any timeout, also one
\* that the other thread sets while it is sleeping: then it is woken up.  Except for a
\* timeout that is more than INT_MAX milliseconds away: for its sake it may sleep for good.
NoTimeoutOverslept ==
  poll_state \in {"PREPARED", "RUNNING"} /\ ~wakeup =>
    \A t \in Live(timeouts) :
      timeout_expiry[t] # Disabled /\ NearEnough(timeout_expiry[t]) => WakesFor(timeout_expiry[t])

\* poll() never waits for the wrong thing, nor more than a millisecond too long, also when
\* the other thread changes what there is to wait for meanwhile.
PollInv == PollTypeOK /\ PollsWhatIsAsked /\ NoTimeoutOverslept
=============================================================================
