# Verification of NVMRDisplay

NVMRDisplay shows the cameras of a model railroad on a tablet or a desktop: it
discovers *video senders* by DNS-SD, adds a video to its page for each of them
and removes it when the sender goes away. On the desktop it is a D-Bus client of
the avahi daemon. On Android it carries its own mDNS stack, avahi-core, which is
part of the repository.

This directory holds TLA+ models of that program, the TLC runs that check them
on small instances, and TLAPS proofs of the results that hold for every size.

    tlc -workers 2 -config MCQueries.cfg MCQueries    one run
    tlapm CacheProofs.tla                             one set of proofs

`PROJECT.json` lists the components, runs, mutants, theorems, findings, hazards,
and the source lines behind every definition.

## 1. The system

### Parts, state and operations

| Part | State | Operations |
|---|---|---|
| Video page (`qml/VideoForm.qml`, `NVMRVideo.qml`) | which video is a child of which pane, which panes are visible, the number of the next quad | click on a video, Multi, Single, signals Found and WentAway |
| `ServiceDiscover` | list of resolved video senders | found, lost; signals to the page |
| `AvahiBrowse` (desktop) | map from name to resolver | D-Bus signals ItemNew, ItemRemove, Found |
| `EmbeddedAvahiBrowse` (Android) | none of its own; resolvers live in avahi-core | browser and resolver callbacks |
| Service resolver (`resolve-service.c`) | the SRV, TXT and address record held, four record browsers, the timeout | record callbacks, timeout, free |
| Record browser, multicast lookup (`browse.c`, `multicast-lookup.c`) | lookups, CNAME chains, counters of finished lookups | cache scan, changes of records |
| Querier, query scheduler | per key: users, backoff, posted query; per packet: jobs, history | add, remove, shift; post, withdraw, suppress |
| Cache (`cache.c`) | per record: state, timestamp, expiry, observed failures | update, goodbye, flush, expiry, passive observation |
| Announcers, entry groups (`announce.c`, `entry.c`) | per record and interface: state, iteration, time event; per group: state, `n_probing`, holdoff | add, update, commit, reset, probe, announce, conflict |
| Response and probe scheduler | jobs, history, suppressed answers | post, suppress, send |
| Server, interface monitor | host name, state, relevant interfaces | packets, host registration, interface changes |
| Time event queue, event loop | ordered events; watches and timeouts of Qt | schedule, update, run |
| Web pages, settings, `RPIVideoSender` | saved pages, the discovered JMRI server; a websocket | load, save, clear; connect, reconnect |

### How they interact

The program is single-threaded. Everything is a callback out of one event loop,
and the concurrency is that of events: user clicks, D-Bus signals, packets, time
events and deferred deletions come in any order, and callbacks run to completion
inside the event that caused them. A signal of `ServiceDiscover` is a direct call
of the handler in the page. A resolver of avahi-core calls its client, which may
free it, from within a cache scan. The two places where state outlives the event
that decided about it are Qt's deferred deletion (`destroy()`) and the time
events of avahi-core. On the desktop the daemon and the bus are two more actors:
a signal describes what the daemon knew when it was sent.

### What is hard

- Callbacks that change the list being walked: the page reparents the children
  of a pane while it indexes them; a client frees a resolver in its callback.
- Answers that arrive after the question was withdrawn, and signals repeated.
- Counters kept in several places (`n_probing`, users of a querier).
- Timers that race answers: five seconds for a resolver, refreshes at 80 to 95%
  of a TTL, one second for goodbye and flush, holdoff of a registration.
- Interfaces that come and go in the middle of all this.

The hazards in `PROJECT.json` name the most important of them at their lines, with
the property that covers each or the reason why none does.

### What makes each part correct

- *Page*: one video per pane, nothing left in a hidden pane, no video of a sender
  that left, and the oldest video is the one replaced.
- *Discovery*: page and sender list agree; a camera that stays is found, one that
  left disappears.
- *Resolver*: the client is never left waiting, never told of a record that has
  left, and a freed resolver is silent.
- *Registration*: a group is published as a whole, no announcer is stuck, every
  registration ends.
- *Cache*: a live record that is asked for never drops out, a dead one always
  does, in time, within the limit.
- *Queries*: users of a querier are counted, a lookup that stays keeps asking, a
  query somebody wants is sent.
- *Responses and probes*: nobody who waits for a record is forgotten, a goodbye is
  the last word, a probe asks for the name of every record it carries.
- *Browsers*: the client sees what the caches hold until it frees the browser, and
  hears nothing afterwards.
- *Host records*: exactly the relevant addresses are published, and after a
  collision nothing is.
- *Entries*: a service is published completely or not at all.
- *Events*: what is due first runs first, and no timer is late.
- *Web pages*: discovery moves a tab at most once, and never from a page the user
  chose.

## 2. The modules

| Module | Models | Uses |
|---|---|---|
| `VideoForm` | the video page | |
| `ServiceDiscover` | the sender list, composed with the page | `VideoForm` |
| `AvahiBrowse` | desktop backend, daemon and bus | `ServiceDiscover` |
| `EmbeddedAvahiBrowse` | Android backend | `ServiceDiscover` |
| `WebPages` | web tabs, settings, the discovered web server | |
| `ServiceResolver` | one service resolver and its browsers | |
| `HostNameResolver`, `AddressResolver` | the two other resolvers | |
| `ClientBrowsers` | browsers for DNS servers, domains, services and service types | |
| `BrowserView` | abstract: what a record browser promises | |
| `RecordBrowser` | `browse.c` over `multicast-lookup.c` | implements `BrowserView` |
| `WideArea` | lookups with unicast DNS servers | |
| `Querier` | lookups, queriers and the query scheduler | |
| `Cache` | the cache of one interface and the hosts around it | |
| `Responder` | answering queries, the response scheduler | |
| `ProbeScheduler` | the probe scheduler | |
| `Announce` | one entry group and its announcers | |
| `Entries` | entries, services, groups and the index by key | |
| `HostRecords` | server state, host name, addresses, multicast groups | |
| `Reflector` | legacy unicast queries repeated between links | |
| `TimeEvents` | priority queue, time events, the Qt timer | |
| `SimplePoll` | the poll() loop and its helper thread | |
| `FoldProofs` | lemmas: what loops over lists and sets keep | |
| `DiscoveryProofs` | theorems | `AvahiBrowse`, `EmbeddedAvahiBrowse`, `WebPages` |
| `LookupProofs` | theorems | `ServiceResolver`, `WideArea`, `HostNameResolver`, `AddressResolver`, `ClientBrowsers` |
| `QuerierProofs` | theorems | `Querier` |
| `CacheProofs` | theorems | `Cache`, `RecordBrowser`, `BrowserView` |
| `ResponderProofs` | theorems | `Responder`, `ProbeScheduler` |
| `PlatformProofs` | theorems | `Announce`, `Reflector`, `SimplePoll`, `Entries`, `TimeEvents` |
| `HostProofs` | theorems | `HostRecords` |
| `MC...` | instances for TLC | |

Definitions keep the names of the functions they translate. A comment that begins
with "Mutant:" marks a wrong version of the definition below it; no specification
uses it, and putting it in place of the right one makes the property it is listed
with fail.

An MC module that covers several components (`MCDiscovery`, `MCQueries`,
`MCBrowsers`, `MCVideos`, `MCPlatform`) is their *sum*: a variable that never
changes says which of them is at work, and the others stay in one idle initial
state. It is used only for components that share no state, and which of them are
put together is a matter of convenience: those of which only safety is checked
(`MCVideos`, `MCBrowsers`) may take symmetric values for each other. Components that do
share state are composed in their modules (the backends with the sender list and
the page, `Querier` with the scheduler, `Responder` with the server).

**VideoForm.** A pane is a number (0 is `mainVideo`, 1 to 4 are the quads) with a
*sequence* of children, because the loops of the page walk `children` by index
while each assignment to `parent` shortens it. `Skipped` is what such a loop
leaves behind: every second item. `otherVideos` holds what no pane holds. A
video is `alive` until the event loop reaps it and `dying` once `destroy()` was
called: a dying video is still a child, can still be clicked and moved. The
variables `announced` and `placedBefore` are history. Geometry, playback and
fullscreen are left out.

**ServiceDiscover** adds `m_resolvedVideoSenders`, the calls from it into the page
and the choice of the `backend` when the program starts. `up` is the network as
the browser sees it. `late` remembers names for which a resolver was answered
after the service had left: SRV, TXT and address records expire on their own and
may outlive the PTR record.

**AvahiBrowse.** The bus is a queue that preserves order. The daemon is external:
ItemNew and ItemRemove per interface, Found when a resolver holds all records and
again whenever it holds them again after a change. A name gets a resolver once,
never to be freed, for any interface; it settles on the first that answers.

**EmbeddedAvahiBrowse.** `resolvers` counts the resolvers under way per service;
the program keeps no pointer to them. REMOVE calls the page's handler directly
and leaves the sender list as it is: senders of names that left stay in the list
for good, which is why `VideosHaveSenders` is an inequality here and
`VideosMatchSenders` (desktop) an equation. An answer with an IPv6 address is
dropped and its resolver freed.

**WebPages.** A tab is told what to load, shows it some time later and reports its
address; the user follows links, saves and clears the default page. Discovery
comes at any time. The settings are written now and then, so that a program that
is killed starts again with an older version of them. `chosen` (what the user
chose), `kept` (what was chosen when the settings were last written), `own` and
`moved` are history.

**ServiceResolver.** Callbacks nest (a scan reports several records, each may call
the client, the client may free the resolver), so `OnNew`, `OnRemove`,
`OnFailure` and `finish` are pure operators on the pair of resolver and client,
and one event folds them over what it reports. The caches are the environment: a
set of records that grows and shrinks in any order. A scan takes the matches in
any order. The two kinds of client, one that frees in the callback, as the
program does, and one that keeps the resolver, are both initial states.
**HostNameResolver**, **AddressResolver** and **ClientBrowsers** are written the
same way; what their record browsers report is what `BrowserView` promises.

**RecordBrowser.** The lookups of a browser form a tree: one for the key asked for
and, per CNAME record found, one for the other name. The browser is one record,
the functions of `browse.c` are operators on it, and the client may free it in any
callback. That it restarts it in the callback for a removed record, as
`resolve-service.c` does, is the same as restarting it right after the event, a step
of its own: nothing of the browser runs after that callback. `told` is what the client
was told and not withdrawn.
Callbacks nest in the code: a scan of the caches calls back for a CNAME record, which
adds a lookup, whose scan is over before the first scan goes on. The operators return
the browser and the calls to come, and `MakeCalls` makes them, those of the inner scan
first. It has as many rounds as there can be calls, since each lookup scans the caches
once; rounds after the last call change nothing. In which order the caches
lie is chosen anew in every event.
The refinement mapping to `BrowserView` takes the records of the browser's own
name and interface; records that were found through CNAME records are not part of
it, because the assertion at `browse.c:298` ends the program when they leave.

**WideArea.** Any lookup may be answered at any time, several times or never.
Servers are a sequence, `current` is shared by all lookups.

**Querier.** In units of 100 ms. A querier has users, its backoff and what it
posted; a job of the scheduler is waiting, done (history) or withdrawn. An id of a
posted query is abstracted to whether the job it names is still scheduled,
because that is what can go wrong with an id that outlives its post. Other hosts
ask the same questions, the cache posts refresh queries of its own, and
interfaces go away.

**Cache.** Time is discrete. An entry carries the time since its timestamp and
the time left until its event, which `next_expiry` puts anywhere in the 2% of the TTL
after the percentage of the stage: the code draws one jitter for all entries and
keeps it for ten seconds, here each entry has one of its own each time. `elapsed`,
`refreshed`, `poofed` and `unpoofed`
are what the code does to one entry, and the actions apply them to what a packet
or timer concerns. The other hosts own records, answer queries, leave with a
goodbye or silently; answers get lost. `seen` and `lost` are history.

**Responder.** A job is due now or after the next `Tick`; history and suppressed
answers are forgotten at any time. `owed` is history: who asked for a record
and was not satisfied. Auxiliary records are posted while a packet is put
together, as in the code.

**ProbeScheduler.** A packet has some room, counted in questions and records; an
estimate of sizes may be wrong, so that a record that was promised a place does
not fit.

**Announce.** One action per time event, packet, interface change or call.
`next_state` is split by its branches: a probe sent, probing over in a group that
is registering, probing over in an established group, an announcement sent.
The library calls the client in the middle of what it does: `entry_group_commit_real`
before it announces the group, `avahi_s_entry_group_check_probed` between the change of
the state and the loop that wakes the waiting announcers up. The step ends there
(`check_probed`), what is left to do is put on `calls`, a stack, and the client's own
calls are steps in between, which nest. When the callback returns
(`CallbackRegistering`, `CallbackEstablished`, `CallbackFreed`) the rest is done on
whatever the client has left; only whether the group is dead is checked, as in the
code. `overtaken` is history: the client has committed the group again before such a
rest. `MaxCalls` bounds how deep the calls nest.
`avahi_goodbye_interface` removes the announcers of an interface and, as the code,
does not touch `n_probing`.

**Entries.** An entry has an identity, its record, its group and a dead flag; the
list of a key is a sequence of entries, and the index remembers in which entry's
record its key lies. Services, subtypes, addresses and name servers are added
record by record; a service is rolled back at the first conflict.

**HostRecords.** The functions call one another while they walk over the
addresses: changing the server state updates all records, which changes the number
of pending groups, which changes the server state. The calls nest twice at most: the
counting function is called while the server is REGISTERING and only it makes the
server RUNNING. So the functions that walk (`UpdateRRsBy` and the others in `By`) take
the function that counts as a parameter, and inside the outer count a further one would
be a failed assertion (`Aborted`), a server state that `HostRecordsInv` excludes. The
values are one record for the server and one for the interface. A group is established
as soon as it is committed unless it `waits`: for probing, on an interface that is
announcing, or for its holdoff time, if it was committed before. Of the groups that
exist any may be one that was, so that the model has a few waits more than the code.

**Reflector.** A query from a port other than 5353 gets a slot and an id; packets
of the server come back to it on every link. Slots time out at any time, packets are
late, lost and answered several times, the ids start over. That no id is given again
while a packet with it is still under way (`NotOnAir`) is an assumption. So is that
the address a packet of the server's own was sent from is still local when it comes
back.

**TimeEvents.** The tree is a sequence in level order; the pointer operations of
`prioq.c` become exchanges of positions. The two loops of a shuffle are folds with as
many rounds as there are nodes; rounds after the end of a loop change nothing. Times are
in half milliseconds, so that
the truncation to milliseconds in `qt-watch.cpp` is visible.

**SimplePoll.** The states of the loop are those of the code. The other thread runs
only while the helper thread is inside poll(), which is when it does not hold the
mutex. `wakeup` is the pipe. How long poll() is told to sleep is computed as in the
code, `(int) (usec / 1000) + 1` in an int of `IntMax`: up to a millisecond past the
timeout, and for good if the timeout is `INT_MAX` milliseconds away. When poll() is
interrupted by a signal, it is called once more with the same time.

## 3. The runs

An invariant `...Inv` is the conjunction of the type invariant of a module and of
the named parts listed after it; the module states each part by itself.

| Run | Properties | Shows |
|---|---|---|
| `videos` | `ResolverInv` (`HeldRecordsAreCached` `HostIsBeingLookedUp`) `NeverLeftWaiting` `CalledOnceIfFreed` | The service resolver's timeout is armed exactly when it must be; a client that frees the resolver in the callback is called once. |
| | `OneVideoPerPane` `HiddenPanesEmpty` `NoVideoOfGoneSender` `ReplacesOldest` | The index loops are correct because no pane ever holds two videos; the handler that searches visible panes only misses nothing because hidden panes are empty; a new video replaces the oldest even after deletions left holes. |
| `discovery` | `BrowseInv` (`VideosMatchSenders`) `GoneCamerasDisappear` `StayingCamerasAreFound` | Desktop: page and sender list agree whatever the bus delays; a camera that comes back is found although its name already has a resolver. |
| | `EmbeddedInv` (`VideosHaveSenders` `NoGhostVideos`) `ResolversDrain` | Android: a REMOVE that overtakes a resolver leaves a ghost only if records outlived the service; no resolver is forgotten. |
| | `WebInv` (`DiscoveryMovesOnce` `OwnPageStays` `ChosenPageIsDefault`) | Web pages: what discovery may do to a tab, and which page is the default after saving, clearing, restart and kill. |
| | `WideInv` (`EndsOnce` `WaitingKnowCache` `TriedAnotherServer`) `LookupsEnd` | Unicast DNS: late and repeated answers are harmless, every lookup ends, after a second server was asked. |
| | `HostResolverInv` (`HeldAddressIsCached` `HostNotStranded`) `HostStaysFound` | The host name resolver never strands its client. |
| `browsers` | `BrowserInv` (`CnamesAreFollowed` `NoStrayLookups`) `ImplementsView` | A record browser implements `BrowserView` and leaves no lookup behind, whatever callback it is freed in. |
| | `AddrResolverInv` (`FailsAfterMulticast` `AddrNotStranded`) | The address resolver never strands its client, and fails only after it asked by multicast too. |
| | `ClientInv` (`ServersAreKnown` `ConfiguredDomainsFirst` `NoCallAfterFree` `ServicesMatch`) | The other browsers agree with the caches and are silent once freed. |
| | `RespInv` (`WaitedForIsScheduled` `ScheduledOrDone`) `WithdrawnStaysWithdrawn` | Suppression, merging and auxiliary records neither forget a client nor revive a record. |
| | `ProbeInv` (`WaitingIsUnchosen` `OneProbeEach` `ProbesAskForTheirNames`) | Packing of probes survives packets that overflow. |
| `queries` | `QueryInv` (`UsersAreCounted` `AllForNowMeansAsked`) `WantedQueriesAreSent` `LookupsKeepAsking` | Sharing, recycling and withdrawing of queriers never costs a lookup its question. |
| | `LiveRecordsStay` `NoEntryOutlivesTTL` `OutdatedRecordsLeave` | Three lost answers in a row and misleading observations of failure never cost a live record its entry; cache flush touches only outdated versions, and they go once the key is quiet. |
| `platform` | `TimeInv` (`HeapOrdered` `TimerInTime`) | The order of events and the one timer. |
| | `PollInv` (`PollsWhatIsAsked` `NoTimeoutOverslept`) | The helper thread sees what the other thread did during poll(), and sleeps at most a millisecond past a timeout. |
| | `HostRecordsInv` (`PublishedIffRelevant` `NeverStuckRegistering` `CollisionWithdrawsAll` `JoinedWithBestAddress`) | Which records of the host are published, under changes of addresses, links and server states and after collisions. |
| | `ReflectInv` (`NoReflectionLoop` `SlotsInPlace` `AnswersRoutedBack`) | Reflected answers reach the client that asked. |
| | `EntriesInv` (`ServicesComplete` `KeysAreAlive` `NoLocalConflict` `DeadWillBeFreed`) | Entries under rollback, update and delayed freeing. |
| | `ProbingIsCounted` `NobodyIsStranded` `PublishedTogether` `RegistrationEnds` | The counter never falls below the number of probes, so its assertion never fails; no announcer is stuck; no partial group is announced, unless the client committed it again in the callback before a wake-up (below); a registration ends once the client and the interfaces are quiet, unless the counter drifted (below). |

The type invariants of `VideoForm`, `Announce` and `Cache` and the limit of the
cache are theorems (section 4) and not checked again here.

Properties the repository states and the code violates (section 6):
`service_resolver_address`, `avahi_browse_unique`, `browser_assert`,
`announce_stuck`, `announce_holdoff`, `announce_callback`, `host_rename`.

`CHECK_DEADLOCK FALSE` is set where a behaviour really ends: a browser or resolver
that was freed, a loop that quit.

### Bounds

- `videos`: five videos fill four quads and leave one to click; two names
  distinguish the sender that left from another one. Two hosts (the SRV record
  changes), two interfaces (the resolver settles on one), three cached records: a
  complete set of SRV, TXT and address, or two SRV records of which one replaces the
  other. The run that shows the stale address has four. Hosts, and three of the
  videos, are symmetric.
- `discovery`: one camera, because the handlers and the sender list filter by name
  and the mixing of names on the page is covered by `videos`; three videos and
  senders, so that a repeated answer meets a dying video of the same name; three
  signals on the bus, enough for ItemRemove, ItemNew and Found to be under way
  together. The daemon reports one interface (`BusLink`): ItemRemove comes per
  interface but removes the camera by name, so with two interfaces a camera that
  is left on one of them is gone from the page until it is announced again, and
  `StayingCamerasAreFound` is about names that do not flap between interfaces. The
  Android backend has two interfaces and up to two resolvers for each. Two tabs
  and three pages: the default, one of the user's own, and the server's. Unicast
  DNS: two servers, two lookups, four sends. The host name resolver: one address of
  each type on two interfaces.
- `browsers`: two names, so that a CNAME record can lead away and back; two
  interfaces of which one is asked; three lookups (15 in the code), so that the
  limit is met; three cached records. Three DNS servers for two places (10 in the
  code). Two configured domains. Of two instances one is a name that cannot be split.
  The schedulers: a record with an auxiliary one, two hosts, which are symmetric;
  three probes for two names and room for five units in a packet.
- `queries`: intervals of the queriers grow from 2 to 4 units (`QuerySecond`,
  `MaxDelay`; a second and an hour in the code), enough for a querier to be idle,
  recycled and doubled. Of the two lookups only one asks for the second key: keys
  are alike. Two posts of the cache may be under way. In the part "failures" one
  record and other hosts that ask for it: with a TTL of 34 units the events at 80, 85,
  90, 95 and 100%, each with its jitter of 2%, fall on different units, and 34 is the
  smallest TTL that 3% of are a unit; `MaxLost` = 3 is tight: there are four refresh
  queries, and with four
  losses in a row the record does drop out. With a unique key only one of its versions
  is alive at a time. In the part "flushes" two versions of
  a unique record and an unrelated one compete for two entries, at most one answer
  is lost in a row, and no other host asks.
- `platform`: four time events make a tree of three levels; two watches and a
  timeout; two addresses and two host names, joining may fail; two clients with
  the same query id on two links, two slots, five ids and two packets under way, so
  that ids start over again and again while slots are in use; a millisecond of two
  units and an int that holds 1 at most, so that both the rounding and the overflow
  of the time to sleep are met; two groups that want the same service with different ports, at
  most four entries at a time (`MaxEntries`, eight if all belong to services:
  `MaxServiceEntries`); a group with a probed, a shared and a neither probed nor
  announced record, one of them on only one of two interfaces: every branch of
  `go_to_initial_state` and `reannounce`. `MaxProbing` bounds how far the counter
  drifts when interfaces keep coming and going, `MaxCalls` = 2 that the client commits
  in a callback and once more in the callback of that.

Mutual effects that need more than these (three interfaces, three hosts) repeat
what two show: no guard in the modelled code compares more than two of them.

### Fairness

Each part has its own; for the parts of a sum that are idle it holds trivially.

- *Time events* (`elapse_announce`, `HoldoffPassed`, `Timeout`, `elapse_func`,
  `querier_elapse_callback`, `SendQueries`, `sender_timeout_callback`): weak fairness.
  `timeeventq.c` runs every event whose time has
  come, and the event loop calls it; an event stays due until it runs.
- *Deferred calls* (`Deliver`, `Reap`, the scans of browsers): weak fairness; the
  queues are drained in order.
- *Daemon* (`ResolverFinds`): weak fairness for a resolver that does not hold all
  its records; a service that is there answers queries.
- *Resolver callbacks* of the Android backend: weak fairness. A resolver that has not
  called back has its timeout armed (`NeverLeftWaiting`), which is a time event.
- *Clock* (`Tick`, `QueryTick`): time passes infinitely often; calls and packets
  can postpone a tick but no infinite number of them happens in one instant.
- *Packets*: an answer under way arrives or is lost. Clicks, interface changes,
  client calls and the coming and going of hosts have no fairness.

## 4. The proofs

All proofs of invariants are by an inductive invariant: it holds initially, every
action preserves it, and it implies the property. Action properties follow from the
same invariants, step by step. Eight modules hold theorems; each extends the modules
it is about.

- **FoldProofs** is what the others stand on when the code loops over a list. A loop
  is a fold in the models (`FoldLeft` with one operation per round). The prover has
  no induction over data, and the library defines a fold by recursion on sets of
  positions; so the module shows that the function behind the recursion exists and
  what it computes by an argument about the *least* number of elements for which it
  would not. `FoldKeeps` and `FoldKeepsEach` are what the others cite (what one
  round keeps, the loop keeps); `FoldSetKeeps` is the same for sets, and `FoldSifts`
  for loops that take elements out of a list.
- **DiscoveryProofs**, the page (any sets of videos and names): `TypeCorrect`,
  `PanesHoldOneVideo`, `HiddenPanesStayEmpty`, `GoneSendersHaveNoVideo`. None of the
  last three is inductive by itself; their conjunction is. A loop empties a pane
  only if it holds at most one video, the panes being hidden are empty because the
  loops emptied them, and the search of the visible panes is complete because the
  hidden ones are empty. `OldestIsReplaced` (`ReplacesOldest`): the code never
  compares ages; of two videos in the quads the older one is in the quad whose turn
  comes earlier (`InTurn`), whatever was deleted in between.
- **DiscoveryProofs**, the backends (any senders, links and bounds of the bus):
  `PageMatchesSenders` and `NoGhosts` are `BrowseInv` and `EmbeddedInv`. The list of
  senders may hold one name several times, so page and list are compared by counting;
  a removed name takes exactly one sender out. `BrowseDrivesPage` and
  `EmbeddedDrivesPage` are refinements: each backend drives the page by the page's
  own steps or not at all, so that every theorem about the page holds in both
  programs. `NoGhosts` says that every video has a sender in the list that streams, and
  that a camera that left has one only if a resolver of it was answered late; that every
  sender has its video is not true here, since senders that left stay in the list.
  `ChosenPagesStay` (`WebInv`): what discovery, saving, clearing, restart
  and kill do to the pages, for any tabs and addresses.
- **LookupProofs**, the service resolver (any hosts, texts, interfaces and number of
  cached records): `HeldIsWatched`, `ClientIsAnswered`, `FreedIsSilent` (`ResolverInv`,
  `NeverLeftWaiting`, `CalledOnceIfFreed`) from one inductive invariant,
  `ResolverInductive`. A callback may free the resolver in the middle of a scan of
  the caches; `Sound` says what each callback finds and leaves, and the fold lemmas
  carry it through the scan.
- **LookupProofs**, other lookups (any records, servers, addresses, names, links):
  `LookupsAreServed`
  (`WideInv`; a lookup that waits asked the server it now uses and, past the limit of
  retries, a second one; it had no final callback yet and was told of everything the
  cache holds), `HostClientIsAnswered`,
  `AddrClientIsAnswered`, `ClientsKnow`. Assumption: a lookup may be sent more often
  than it is repeated (`WideAssumption`), which is how `MaxSends` bounds the counter.
- **QuerierProofs** (any keys, finitely many lookups, any delays): `QueriersAreShared`
  (`QueryInv`) and the action property `WantedStaysScheduled`. The counter of users is
  shown to be the size of a set; ALL_FOR_NOW is inductive together with where the time
  event of a lookup stands, which is as far from a second as its querier is old.
- **CacheProofs** (any finite set of records, any TTL of at least 34 units and
  five seconds, any jitter, any limit): `CacheTypes`, `EntriesKeepTheirTTL`,
  `CacheKeepsLimit`. No entry outlives its TTL: its time event lies at most 2% of the
  TTL, the jitter, beyond the end. That is not inductive: observed
  failure gives an entry another second, and a known answer takes it back to VALID
  with an expiry computed from the old timestamp. `EntryInv` bounds the age of an
  entry in each state; the assumption that a fifth of the TTL is at least a second
  is what makes the extra second fit. `LiveRecordsAreKept` (`LiveRecordsStay`) has
  the hypothesis `MaxLost <= 3`, and is false for 4: an entry is asked for at 80, 85,
  90 and 95% of its TTL. `InTime` says that each of the questions asked so far was
  answered by a packet that is lost or on its way, and that no further question is
  due before that packet arrives; so a question is never counted twice.
- **CacheProofs**, the record browser (any names, interfaces, records and limit of
  lookups, `BrowserAssumption`): `LookupsAreCalledFor` (`BrowserInv`),
  `BrowserImplementsView` (`ImplementsView`) and `CnameLookupsStay`. Between two events
  everything cached for a lookup is known (`BrowserIInv`): the client was told of it or,
  if it is a CNAME record, it is followed, or there is no room. In the middle of a scan
  this is false, and what holds is that each record not known yet is among the calls to
  come (`Covered`), or is the record whose arrival is being announced and the lookup has
  not been told (`Untold`). That the nested scans end is an argument about `Left`: a new
  lookup takes a free place, and brings as many calls as are cached. The refinement
  needs the invariant for the scan and for every report: that the client knows exactly
  the cached records follows from `BrowserIInv` for the lookup of the browser's own key,
  which no event but the end of the browser or a restart takes away. `CnameLookupsStay`
  states that for all lookups: while the browser runs none is dropped, also not by
  `lookup_drop_cname` (section 5).
- **ResponderProofs** (any records, references, hosts): `NobodyIsForgotten`
  (`RespInv`) and `GoodbyeIsFinal` (`WithdrawnStaysWithdrawn`). A scheduled record is
  never in the history at the same time; only then is a goodbye not taken for one
  that was sent already. `ProbesAreAsked` (`ProbeInv`, any records, names and packet
  sizes): while a packet is filled, every chosen job has its question in it
  (`Packing`), and what is left of the jobs waits unchosen, also when the estimate of
  the sizes was wrong.
- **PlatformProofs**, registration (any finite set of pairs of record and interface,
  any `MaxProbing`): `AnnounceTypes`, `CounterCoversProbes`, `NoAnnouncerStranded`,
  `GroupsPublishedTogether`. The last one (`PublishedTogether`) holds whatever the client
  does in the callbacks of its group, however deep they nest; its one exception, which
  the run `announce_callback` shows, is a group that the client committed again in the
  callback before a wake-up. The strengthening is `Local`, a condition on each announcer by
  itself: whether it is armed follows from its state, and its state is limited by
  that of the group. The counting argument uses the library's theorems on
  cardinality: each action changes the set of probing announcers by a set whose size
  it adds to or takes from the counter, except that removing announcers only makes
  the set smaller.
- **PlatformProofs**, reflector (any clients and links): `AnswersReachAskers`
  (`ReflectInv`), however many queries there were and however often the ids started
  over. Slots and packets under way agree on the ids they have in common, and an id that
  is given is on no packet under way: `NotOnAir`, a guard of the model, is what is
  assumed. Without it, for an answer that is late by a whole round of ids, the property
  is false (section 5).
- **PlatformProofs**, poll loop (any watches and timeouts): `PollSleepsInTime`
  (`PollInv`), for any resolution of the clock and any `INT_MAX`: the array given to
  poll() and the list of watches are in step, or the flag to rebuild it is set; and
  poll() is told to sleep at most one millisecond past any enabled timeout that is less
  than `INT_MAX` milliseconds away.
- **PlatformProofs**, entries (any groups, services, hosts and bounds):
  `ServicesStayComplete` (`EntriesInv`). `StateOK` puts together that an entry has one
  place in its list, that owners of a service are complete or gone, and that records
  with the same key agree; each loop of `entry.c` (roll back, mark, rewrite, clean up)
  is shown to keep its part.
- **PlatformProofs**, time events (any events, any resolution of the timer):
  `NoEventIsLate` (`TimeInv`, which is inductive). A put, a removal or a move leaves one
  node out of order; the rounds of the first loop keep a tree that is ordered but for
  that node, also when it is skipped (`NearHeap`), and those of the second one where it
  is too high at most (`BelowHeap`). Each loop ends within its rounds because the
  position of the node only falls, or only grows.

- **HostProofs** (any finite set of addresses, any names, joining the multicast group
  may fail or not): `HostRecordsFollow` (`HostRecordsInv`). In the middle of an update
  the published addresses are neither what they were nor what they will be, and the
  server may become RUNNING at any address of the walk, which updates all of them
  before the outer walk goes on. A walk that starts in a server that counts either
  still counts (`Counting`: the counter never exceeds what is being registered, and
  does not fall to 0 unnoticed) or has become RUNNING on the way (`Arrived`); in that
  case an update that removes has published again what it withdrew, which is why a
  collision must update once more. `Sound` is what an update needs, also with what just
  changed on the interface, `Current` what it leaves and what holds between any two
  steps; together with `Joined`, for the multicast group, it is the inductive invariant.
  The name a record is published under is no part of it (section 6, `host_rename`).

The assumptions on the constants are in the module that declares them and are
evaluated by TLC in every run.

Only model-checked:

- the liveness properties (`GoneCamerasDisappear`, `StayingCamerasAreFound`,
  `ResolversDrain`, `LookupsEnd`, `HostStaysFound`, `LookupsKeepAsking`,
  `OutdatedRecordsLeave`, `RegistrationEnds`), which need fairness and are beyond the
  prover;
- that no behaviour stops where it should not (deadlock), which is about ENABLED.

Every invariant and every action property that a passing run checks is also a theorem.

## 5. What is not modelled

Byte-level code (DNS packets, strings, sockets), generated D-Bus proxies,
GStreamer pipelines, option parsing, the websocket of `RPIVideoSender`. The legacy
widgets are not part of the build. Of `entry.c`: the validation of strings. Of
`server.c`: creation and configuration. Watches of
`qt-watch.cpp`. Memory never runs out.

Behaviour that the models show, or that was met while writing them, and that
nothing in the repository speaks against, or only a comment in passing:

*Application*

- Android: senders of cameras that left are never dropped from the list.
- Android: a camera whose first answer is an IPv6 address is not shown until it is
  announced again, and neither is one whose resolver failed.
- Desktop: a camera reachable over two interfaces disappears when one of them
  loses it.
- Both: an answer that arrives after the camera left puts a video on the page
  that stays until the camera comes and goes once more.
- What was set since the settings were last written is lost when the program is
  killed; Qt writes them when it finds the time.
- Saving a tab before its first page was loaded stores an empty page. Clearing the
  default after the web server was found shows the server only after a restart.

*Lookups*

- Each flush postpones the removal of an outdated unique record by another second,
  without a bound (`cache.c:311`).
- `lookup_drop_cname` searches with flags 0 and finds nothing, although the comment
  before it says "let's drop that query!" (`browse.c:293`): a CNAME record that
  comes and goes adds a lookup each time, up to the limit (theorem
  `CnameLookupsStay`). CNAME records are
  reported to lookups on other interfaces as well.
- A resolver stays with the interface of the first address it was given, but
  compares removals without the interface.
- The DNS server browser withdraws servers that it never reported, and passes over
  servers beyond the tenth for good. `avahi_server_set_browse_domains` changes what
  a running domain browser filters by; called from within a report of the configured
  domains it frees the list that is being walked (`browse-domain.c:117`). The model has
  that call outside of reports only.
- Two unique records of one key that are alive at the same time (of two hosts that
  claim the same name) are not modelled.

*Publishing*

- A goodbye is not answered within half a second after the record was announced;
  a known answer drops a scheduled record whatever its TTL; a record too large for
  a packet goes to the history unsent.
- `avahi_server_set_domain_name` frees the name after storing it (`server.c:1350`);
  what section 6 says of `avahi_server_set_host_name` is true of it too.
- A rejoin of the multicast group that failed is not tried again until the
  interface was irrelevant once. Lost netlink messages leave stale addresses.
- A service added with the update flag is not rolled back; an update of a TXT
  record skips the check for local conflicts.
- An answer that is late by a whole round of 65536 ids is routed to the wrong
  client.

*Events*

- A watch added by another thread during poll() can meet the assertion at
  `simple-watch.c:581` (`ABORTED` in `SimplePoll`); `cleanup_watches` resets the
  flag of the timeouts, so that dead ones stay until the loop is freed.
- A timeout of `INT_MAX` milliseconds (24 days) or more makes the time to sleep
  negative, so that poll() waits for a watch only (`simple-watch.c:506`). A poll() that
  a signal interrupts starts over with the same time.
- Events that are deferred again and again can starve others; that every time event
  runs is assumed, not checked. `gotOut` of `qt-watch.cpp` reports IN.

## 6. Findings

Seven statements of the repository that a run refutes:

1. `service_resolver_address`: when the SRV record is replaced, the address of
   the old host is kept and reported with the new host name
   (`resolve-service.c:285`).
2. `avahi_browse_unique`: the comment that the name of a video sender is unique
   does not hold on the page: each repeated Found adds another video
   (`avahibrowse.cpp:152`).
3. `announce_stuck`: an interface that goes away during probing leaves
   `n_probing` too high for ever, and the group stays REGISTERING with nobody
   probing (`announce.c:37`).
4. `announce_holdoff`: an interface that appears during the holdoff time
   establishes the group early and cancels the registration on the others
   (`entry.c:1171`).
5. `browser_assert`: a record that was found through a CNAME record and leaves the
   cache fails the assertion that it has the key of the browser
   (`browse.c:298`).
6. `announce_callback`: a client that resets its group in the callback for
   ESTABLISHED, adds records and commits them has those that need no probing announced
   while others are still being probed, because the wake-up after the callback does
   not look at the state again (`announce.c:81`; "wait for other records in group",
   `announce.h:33`).
7. `host_rename`: `avahi_server_set_host_name`, called while records are still being
   registered, may leave an address published under the old name (`server.c:1297`),
   where `core.h:120` promises that all are dropped and added again with the new one.

## 7. Plan

1. `RPIVideoSender` with its websocket, and the handlers of web servers in the two
   backends, composed with `WebPages`.
2. Pure algorithms: alternative names, time arithmetic, name comparison, against
   reference definitions.
