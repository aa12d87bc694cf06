------------------------------ MODULE Announce ------------------------------
(***************************************************************************)
(* Registration of one entry group (avahi-core/announce.c and the group    *)
(* part of entry.c, with the conflict handling of server.c).               *)
(*                                                                         *)
(* A group is a set of records that become valid together.  Every record   *)
(* of the group has an announcer on every interface it is published on.    *)
(* An announcer probes for conflicts, if the record is to be unique, then  *)
(* waits until the whole group has been probed, and then announces.  The   *)
(* group counts its probing announcers in n_probing and is ESTABLISHED     *)
(* when the counter is back to zero.                                       *)
(*                                                                         *)
(* A step is the run of one time event, one packet, one change of an       *)
(* interface or one call of the client, up to the point where the library  *)
(* calls the client and has something left to do afterwards.  There the    *)
(* client may call back into the library, which nests; a step of its own   *)
(* is the rest of what was interrupted.  Where the library has nothing     *)
(* left to do, what the client does in the callback is what it does in     *)
(* steps right after.  Packets that are sent are left out.                 *)
(***************************************************************************)
EXTENDS Naturals, FiniteSets, Sequences

CONSTANTS Entry,       \* records of the group
          Interface,   \* network interfaces
          Match,       \* the pairs (record, interface) that go together
          Unique,      \* records with AVAHI_PUBLISH_UNIQUE
          NoProbe,     \* records with AVAHI_PUBLISH_NO_PROBE
          NoAnnounce,  \* records with AVAHI_PUBLISH_NO_ANNOUNCE
          MaxProbing,  \* bound: n_probing when an interface goes away
          MaxCalls     \* bound: how deep commits of the client nest in its callbacks

ASSUME AnnounceAssumption ==
  /\ IsFiniteSet(Match)
  /\ Match \subseteq Entry \X Interface
  /\ MaxProbing \in Nat /\ MaxCalls \in Nat

VARIABLES state,       \* g->state
          n_probing,   \* g->n_probing
          holdoff,     \* is g->register_time_event set?
          committed,   \* has the group been registered before?
          entries,     \* the records that were added and are not dead
          announcing,  \* the interfaces with i->announcing
          announcer,   \* pair -> its announcer
          calls,       \* what is left to do when the client's callbacks return, innermost first
          group_dead,   \* g->dead
          overtaken    \* history: was the group committed again before the wake-up of its announcers?

vars == <<state, n_probing, holdoff, committed, entries, announcing, announcer, calls, group_dead, overtaken>>

Rest == {"announce", "wakeup", "shortcut"}

Announcer == [state : {"none", "PROBING", "WAITING", "ANNOUNCING", "ESTABLISHED"},
              n_iteration : 0..4,
              time_event : BOOLEAN]

None == [state |-> "none", n_iteration |-> 0, time_event |-> FALSE]

IsIn(k, s) == announcer[k].state = s

Probing == {k \in Match : IsIn(k, "PROBING")}

Committed == state \in {"REGISTERING", "ESTABLISHED"}

\* The records whose uniqueness is probed.
Probed == Unique \ NoProbe

-----------------------------------------------------------------------------
(* Announcers.                                                             *)

\* An announcer that enters state s anew: armed if it has something to send.
Fresh(s) == [state |-> s, n_iteration |-> 1, time_event |-> s \in {"PROBING", "ANNOUNCING"}]

\* go_to_initial_state, for a record of a group in state gs
go_to_initial_state(e, gs) ==
  Fresh(CASE e \in Probed -> "PROBING"
          [] e \notin Probed /\ e \notin NoAnnounce ->
               IF gs = "ESTABLISHED" THEN "ANNOUNCING" ELSE "WAITING"
          [] OTHER -> "ESTABLISHED")

\* reannounce: the state announcer a of record e goes to
reannounced(e, a) ==
  Fresh(CASE a.state = "PROBING" -> "PROBING"
          [] a.state = "WAITING" -> IF e \in Probed THEN "PROBING" ELSE "WAITING"
          [] a.state \in {"ANNOUNCING", "ESTABLISHED"} ->
               IF e \in NoAnnounce THEN "ESTABLISHED" ELSE "ANNOUNCING")

avahi_entry_is_registered(k) ==
  \/ announcer[k].state \in {"ANNOUNCING", "ESTABLISHED"}
  \/ IsIn(k, "WAITING") /\ k[1] \notin Unique

avahi_entry_is_probing(k) ==
  \/ IsIn(k, "PROBING")
  \/ IsIn(k, "WAITING") /\ k[1] \in Unique

\* new_announcer for each of the pairs that go together, are announcing and have none
Missing(es, is) == {k \in Match : k[1] \in es /\ k[2] \in is /\ IsIn(k, "none")}

Announce(es, is, gs) ==
  [k \in Match |-> IF k \in Missing(es, is) THEN go_to_initial_state(k[1], gs)
                                            ELSE announcer[k]]

NewProbing(es, is) == {k \in Missing(es, is) : k[1] \in Probed}

\* Mutant: neither the counter nor the state of the group is looked after.
check_probed_any(an, n, rest, others) ==
  /\ n_probing' = n /\ announcer' = an /\ state' = "REGISTERING"
  /\ calls' = <<rest>> \o others

\* avahi_s_entry_group_check_probed for a group that is REGISTERING, with announcers
\* an and n of them probing.  The client is told; the rest comes when it returns.
check_probed(an, n, rest, others) ==
  /\ n_probing' = n /\ announcer' = an
  /\ IF n > 0 THEN state' = "REGISTERING" /\ calls' = others
     ELSE state' = "ESTABLISHED" /\ calls' = <<rest>> \o others

\* Mutant: the waiting announcers are not woken up.
woken_never(immediately) == announcer

\* The rest of it: all waiting announcers are woken up.  The shortcut sends the first
\* announcement at once.
woken(immediately) ==
  [k \in Match |-> IF ~IsIn(k, "WAITING") THEN announcer[k]
                   ELSE [state |-> "ANNOUNCING", n_iteration |-> IF immediately THEN 2 ELSE 0,
                         time_event |-> TRUE]]

\* avahi_s_entry_group_change_state frees register_time_event when REGISTERING is over.
StillHeld == holdoff /\ state' = "REGISTERING"

-----------------------------------------------------------------------------
(* next_state, called by the time event of announcer k.                    *)

\* A probe is sent; the third one is the last.
SendProbe(k) ==
  /\ IsIn(k, "PROBING") /\ announcer[k].n_iteration < 4
  /\ announcer' = [announcer EXCEPT ![k].n_iteration = @ + 1]
  /\ UNCHANGED <<state, n_probing, holdoff, calls>>

\* Probing is over; the group is still waiting for others, or is complete.
ProbedInGroup(k) ==
  /\ IsIn(k, "PROBING") /\ announcer[k].n_iteration >= 4 /\ state = "REGISTERING"
  /\ check_probed([announcer EXCEPT ![k].state = "WAITING", ![k].time_event = FALSE],
                  n_probing - 1, "shortcut", <<>>)
  /\ holdoff' = StillHeld

\* Probing is over in a group that is established already: announce at once.
ProbedLate(k) ==
  /\ IsIn(k, "PROBING") /\ announcer[k].n_iteration >= 4 /\ state # "REGISTERING"
  /\ n_probing' = n_probing - 1
  /\ announcer' = [announcer EXCEPT ![k] = [state |-> "ANNOUNCING", n_iteration |-> 2,
                                            time_event |-> TRUE]]
  /\ UNCHANGED <<state, holdoff, calls>>

SendAnnouncement(k) ==
  LET n == announcer[k].n_iteration + 1
      done == n >= 4
  IN
  /\ IsIn(k, "ANNOUNCING")
  /\ announcer' = [announcer EXCEPT ![k] =
                     [state |-> IF done THEN "ESTABLISHED" ELSE "ANNOUNCING",
                      n_iteration |-> n, time_event |-> ~done]]
  /\ UNCHANGED <<state, n_probing, holdoff, calls>>

\* No callback of the client is running: the event loop may go on.
Idle == calls = <<>>

elapse_announce(k) ==
  /\ Idle /\ announcer[k].time_event
  /\ SendProbe(k) \/ ProbedInGroup(k) \/ ProbedLate(k) \/ SendAnnouncement(k)
  /\ UNCHANGED <<committed, entries, announcing, group_dead, overtaken>>

-----------------------------------------------------------------------------
(* Calls of the client, in a callback or not.                              *)

\* server_add_internal without AVAHI_PUBLISH_UPDATE.  The group is not committed, so
\* avahi_announce_entry finds nothing to announce.
avahi_server_add(e) ==
  /\ ~group_dead /\ state \in {"UNCOMMITED", "COLLISION"} /\ e \notin entries
  /\ entries' = entries \cup {e}
  /\ UNCHANGED <<state, n_probing, holdoff, committed, announcing, announcer, calls, group_dead, overtaken>>

\* server_add_internal with AVAHI_PUBLISH_UPDATE, new data and the flags it was added
\* with: avahi_reannounce_entry
avahi_server_update(e) ==
  LET mine == {k \in Match : k[1] = e /\ ~IsIn(k, "none")}
      newly == {k \in mine : ~IsIn(k, "PROBING") /\ reannounced(e, announcer[k]).state = "PROBING"}
  IN
  /\ ~group_dead /\ e \in entries /\ state \in {"REGISTERING", "ESTABLISHED"}
  /\ announcer' = [k \in Match |-> IF k \in mine THEN reannounced(e, announcer[k])
                                                 ELSE announcer[k]]
  /\ n_probing' = n_probing + Cardinality(newly)
  /\ UNCHANGED <<state, holdoff, committed, entries, announcing, calls, group_dead, overtaken>>

\* avahi_s_entry_group_commit, which tells the client that the group is registering.  A
\* group that was registered before may have to wait until its holdoff time has passed.
Committing ==
  /\ ~group_dead /\ state \in {"UNCOMMITED", "COLLISION"} /\ entries # {}
  /\ state' = "REGISTERING"
  /\ overtaken' = (overtaken \/ \E j \in DOMAIN calls : calls[j] # "announce")

CommitNow ==
  /\ Committing /\ Len(calls) < MaxCalls
  /\ committed' = TRUE
  /\ calls' = <<"announce">> \o calls
  /\ UNCHANGED <<n_probing, holdoff, entries, announcing, announcer, group_dead>>

CommitLater ==
  /\ Committing /\ committed
  /\ holdoff' = TRUE
  /\ UNCHANGED <<n_probing, committed, entries, announcing, announcer, calls, group_dead>>

\* All records of the group are dead and their announcers removed.
NoRecords ==
  /\ entries' = {}
  /\ announcer' = [k \in Match |-> None]
  /\ holdoff' = FALSE
  /\ UNCHANGED <<committed, announcing, calls>>

Withdraw(s) ==
  /\ NoRecords
  /\ n_probing' = 0
  /\ state' = s
  /\ overtaken' = FALSE
  /\ UNCHANGED group_dead

avahi_s_entry_group_reset == ~group_dead /\ Withdraw("UNCOMMITED")

\* avahi_s_entry_group_free: a dead group is gone at the next cleanup.
FreeGroup ==
  /\ ~group_dead /\ NoRecords
  /\ group_dead' = TRUE
  /\ UNCHANGED <<state, n_probing, overtaken>>

-----------------------------------------------------------------------------
(* The client's callback returns.                                          *)

\* avahi_announce_group and avahi_s_entry_group_check_probed, for a group in whatever state
\* the callback has left it in
AnnounceGroup(others) ==
  LET n == n_probing + Cardinality(NewProbing(entries, announcing))
      an == Announce(entries, announcing, state)
  IN
  \/ state = "REGISTERING" /\ check_probed(an, n, "wakeup", others)
  \/ /\ state = "ESTABLISHED" /\ n_probing' = n /\ announcer' = an
     /\ calls' = others /\ UNCHANGED state
  \/ ~Committed /\ calls' = others /\ UNCHANGED <<state, n_probing, announcer>>

\* entry_group_commit_real goes on.
CallbackRegistering ==
  /\ ~Idle /\ ~group_dead /\ Head(calls) = "announce"
  /\ AnnounceGroup(Tail(calls)) /\ holdoff' = StillHeld
  /\ UNCHANGED <<committed, entries, announcing, group_dead, overtaken>>

\* avahi_s_entry_group_check_probed goes on, whatever the state of the group is now.
CallbackEstablished ==
  /\ ~Idle /\ ~group_dead /\ Head(calls) # "announce"
  /\ announcer' = woken(Head(calls) = "shortcut")
  /\ calls' = Tail(calls)
  /\ UNCHANGED <<state, n_probing, holdoff, committed, entries, announcing, group_dead, overtaken>>

\* The group went in the callback: "if (g->dead) return"
CallbackFreed ==
  /\ ~Idle /\ group_dead
  /\ calls' = Tail(calls)
  /\ UNCHANGED <<state, n_probing, holdoff, committed, entries, announcing, announcer, group_dead, overtaken>>

ClientReturns == CallbackRegistering \/ CallbackEstablished \/ CallbackFreed

\* entry_group_register_time_event_callback; the state stays, so that the client is not told.
HoldoffPassed ==
  /\ Idle /\ holdoff /\ holdoff' = FALSE
  /\ AnnounceGroup(<<>>)
  /\ committed' = TRUE
  /\ UNCHANGED <<entries, announcing, group_dead, overtaken>>

-----------------------------------------------------------------------------
(* Packets of other hosts.                                                 *)

\* withdraw_entry: another host claimed a record we are probing for, or its probe won
\* over ours (handle_conflict, incoming_probe).
LoseConflict(k) == Idle /\ avahi_entry_is_probing(k) /\ Withdraw("COLLISION")

\* Mutant: the counter is not increased again.
ReprobeUncounted(k) ==
  /\ Idle /\ avahi_entry_is_registered(k)
  /\ announcer' = [announcer EXCEPT ![k] = go_to_initial_state(k[1], state)]
  /\ UNCHANGED <<state, n_probing, holdoff, committed, entries, announcing, calls, group_dead, overtaken>>

\* avahi_entry_return_to_initial_state: a conflict with a registered record
avahi_entry_return_to_initial_state(k) ==
  /\ Idle /\ avahi_entry_is_registered(k)
  /\ announcer' = [announcer EXCEPT ![k] = go_to_initial_state(k[1], state)]
  /\ n_probing' = IF k[1] \in Probed THEN n_probing + 1 ELSE n_probing
  /\ UNCHANGED <<state, holdoff, committed, entries, announcing, calls, group_dead, overtaken>>

-----------------------------------------------------------------------------
(* Interfaces.                                                             *)

\* avahi_announce_interface: the interface became relevant.
avahi_announce_interface(i) ==
  /\ Idle /\ i \in Interface \ announcing
  /\ announcing' = announcing \cup {i}
  /\ IF Committed
     THEN /\ announcer' = Announce(entries, {i}, state)
          /\ n_probing' = n_probing + Cardinality(NewProbing(entries, {i}))
     ELSE UNCHANGED <<announcer, n_probing>>
  /\ UNCHANGED <<state, holdoff, committed, entries, calls, group_dead, overtaken>>

\* avahi_goodbye_interface with remove: the announcers of the interface go; the
\* counter is left alone.  MaxProbing bounds how far it may drift.
avahi_goodbye_interface(i) ==
  /\ Idle /\ i \in announcing /\ n_probing <= MaxProbing
  /\ announcing' = announcing \ {i}
  /\ announcer' = [k \in Match |-> IF k[2] = i THEN None ELSE announcer[k]]
  /\ UNCHANGED <<state, n_probing, holdoff, committed, entries, calls, group_dead, overtaken>>

-----------------------------------------------------------------------------
\* avahi_s_entry_group_new
Init ==
  /\ state = "UNCOMMITED"
  /\ n_probing = 0
  /\ holdoff = FALSE
  /\ committed = FALSE
  /\ entries = {}
  /\ announcing = {}
  /\ announcer = [k \in Match |-> None]
  /\ calls = <<>> /\ group_dead = FALSE /\ overtaken = FALSE

Next ==
  \/ \E k \in Match : \/ elapse_announce(k)
                      \/ LoseConflict(k)
                      \/ avahi_entry_return_to_initial_state(k)
  \/ \E e \in Entry : avahi_server_add(e) \/ avahi_server_update(e)
  \/ CommitNow \/ CommitLater \/ HoldoffPassed
  \/ avahi_s_entry_group_reset \/ FreeGroup
  \/ CallbackRegistering \/ CallbackEstablished \/ CallbackFreed
  \/ \E i \in Interface : avahi_announce_interface(i) \/ avahi_goodbye_interface(i)

Spec == Init /\ [][Next]_vars

\* The time event queue runs every event whose time has come; callbacks return.
AnnounceFairness ==
  /\ \A k \in Match : WF_vars(elapse_announce(k))
  /\ WF_vars(HoldoffPassed) /\ WF_vars(ClientReturns)

-----------------------------------------------------------------------------
TypeOK ==
  /\ state \in {"UNCOMMITED", "REGISTERING", "ESTABLISHED", "COLLISION"}
  /\ n_probing \in Nat
  /\ holdoff \in BOOLEAN
  /\ committed \in BOOLEAN
  /\ entries \subseteq Entry
  /\ announcing \subseteq Interface
  /\ announcer \in [Match -> Announcer]
  /\ calls \in Seq(Rest)
  /\ group_dead \in BOOLEAN /\ overtaken \in BOOLEAN

\* The counter covers every probing announcer: assert(n_probing) in next_state cannot
\* fail, the unsigned counter never wraps, and no group is established while one of
\* its records is still being probed.
ProbingIsCounted == Cardinality(Probing) <= n_probing

\* Nobody waits forever: an announcer with something to send has its time event, and
\* one without is only WAITING while the group is still being registered or the client is
\* being told that it is established.
NobodyIsStranded ==
  \A k \in Match :
    /\ announcer[k].time_event <=> announcer[k].state \in {"PROBING", "ANNOUNCING"}
    /\ IsIn(k, "WAITING") => state = "REGISTERING" \/ ~Idle

\* Nothing of the group is published before the group is established, unless its client
\* started the registration over in the very callback that told it that the last one was
\* done; and nothing is left when it is withdrawn.
PublishedTogether ==
  /\ state # "ESTABLISHED" /\ ~overtaken => \A k \in Match : ~IsIn(k, "ANNOUNCING")
  /\ ~Committed \/ group_dead => \A k \in Match : announcer[k] = None

\* AVAHI_WAITING, "wait for other records in group": until the group is established no
\* record of it is announced.
GroupIsAtomic == Idle /\ state # "ESTABLISHED" => \A k \in Match : ~IsIn(k, "ANNOUNCING")

\* AVAHI_ENTRY_GROUP_ESTABLISHED, "The entries have successfully been established":
\* every record of an established group has an announcer on every interface it belongs
\* to, whatever the order in which records, commits and interfaces came.
EstablishedIsComplete ==
  Idle /\ state = "ESTABLISHED" =>
    \A k \in Match : k[1] \in entries /\ k[2] \in announcing => announcer[k] # None

\* What the client and the network do to a group that is being registered.
Disturb ==
  \/ \E e \in Entry : avahi_server_update(e)
  \/ \E i \in Interface : avahi_announce_interface(i) \/ avahi_goodbye_interface(i)

\* Members that were being probed when their interface went away: they are still counted.
Drifted == n_probing > Cardinality(Probing)

\* A registration does not stay REGISTERING once interfaces and records stop changing,
\* unless the counter has drifted (see RegisteringIsProbing) or the group is gone.
RegistrationEnds == <>[][~Disturb]_vars => []<>(state # "REGISTERING" \/ Drifted \/ group_dead)

\* "Check whether all group members have been probed": a group past its holdoff time is
\* REGISTERING because one of its members is being probed.
RegisteringIsProbing == Idle /\ ~group_dead /\ state = "REGISTERING" /\ ~holdoff => Probing # {}
=============================================================================
