------------------------- MODULE EmbeddedAvahiBrowse -------------------------
(***************************************************************************)
(* The discovery backend of the Android build (embeddedavahibrowse.cpp):   *)
(* avahi-core runs inside the program, and its callbacks are direct calls. *)
(*                                                                         *)
(* Every NEW of a service on an interface starts a resolver bound to that  *)
(* interface; nobody keeps a pointer to it.  It answers once, with FOUND   *)
(* or FAILURE, and is freed in the callback (module ServiceResolver).      *)
(* A REMOVE does not stop it, and tells the page directly, bypassing       *)
(* lostRPIVideoSender.                                                     *)
(***************************************************************************)
EXTENDS ServiceDiscover

CONSTANT MaxResolvers  \* bound: resolvers of one service under way at once

ASSUME EmbeddedAssumption == MaxResolvers \in Nat

VARIABLE resolvers     \* service -> number of its resolvers under way

embeddedVars == <<formVars, discoverVars, resolvers>>

-----------------------------------------------------------------------------
\* videosender_browse_cb, AVAHI_BROWSER_NEW
BrowserNew(n, l) ==
  /\ <<n, l>> \notin up /\ resolvers[<<n, l>>] < MaxResolvers
  /\ up' = up \cup {<<n, l>>}
  /\ resolvers' = [resolvers EXCEPT ![<<n, l>>] = @ + 1]
  /\ UNCHANGED <<formVars, m_resolvedVideoSenders, late>>

\* Mutant: a REMOVE during resolution is left to the resolver.
BrowserRemoveIdle(n, l) ==
  /\ <<n, l>> \in up
  /\ up' = up \ {<<n, l>>}
  /\ IF resolvers[<<n, l>>] > 0 THEN UNCHANGED formVars ELSE onRpiVideoSenderRtspWentAway(n)
  /\ UNCHANGED <<m_resolvedVideoSenders, late, resolvers>>

\* videosender_browse_cb, AVAHI_BROWSER_REMOVE
BrowserRemove(n, l) ==
  /\ <<n, l>> \in up
  /\ up' = up \ {<<n, l>>}
  /\ onRpiVideoSenderRtspWentAway(n)
  /\ UNCHANGED <<m_resolvedVideoSenders, late, resolvers>>

\* Mutant: the resolver is not freed in its callback.
FreedNever(n, l) ==
  /\ resolvers[<<n, l>>] > 0
  /\ UNCHANGED resolvers

\* A resolver of the service calls back and is freed.
Freed(n, l) ==
  /\ resolvers[<<n, l>>] > 0
  /\ resolvers' = [resolvers EXCEPT ![<<n, l>>] = @ - 1]

\* videosender_resolve_cb, AVAHI_RESOLVER_FOUND with an IPv4 address
ResolverFound(n, l) ==
  /\ Freed(n, l) /\ Answered(n, l)
  /\ Len(m_resolvedVideoSenders) < MaxSenders /\ alive # Video
  /\ \E rtsp \in BOOLEAN : foundRPIVideoSender(n, rtsp)
  /\ UNCHANGED up

\* videosender_resolve_cb, AVAHI_RESOLVER_FOUND with an IPv6 address: dropped.
ResolverFoundInet6(n, l) ==
  /\ Freed(n, l)
  /\ UNCHANGED <<formVars, discoverVars>>

\* videosender_resolve_cb, AVAHI_RESOLVER_FAILURE: five seconds without an answer.
ResolverFailure(n, l) ==
  /\ Freed(n, l)
  /\ UNCHANGED <<formVars, discoverVars>>

EmbeddedInit ==
  /\ DiscoverInit
  /\ resolvers = [s \in Service |-> 0]

Callback(n, l) ==
  ResolverFound(n, l) \/ ResolverFoundInet6(n, l) \/ ResolverFailure(n, l)

EmbeddedNext ==
  /\ backend = "EmbeddedAvahiBrowse"
  /\ \/ \E n \in Name, l \in Link :
          \/ BrowserNew(n, l) \/ BrowserRemove(n, l)
          \/ ResolverFound(n, l) \/ ResolverFoundInet6(n, l) \/ ResolverFailure(n, l)
     \/ PageStep /\ UNCHANGED resolvers
  /\ UNCHANGED backend

EmbeddedSpec ==
  /\ EmbeddedInit /\ backend = "EmbeddedAvahiBrowse"
  /\ [][EmbeddedNext]_<<backend, embeddedVars>>

\* Every resolver answers, at the latest when its timeout runs, which is armed until it has
\* (NeverLeftWaiting of module ServiceResolver).
EmbeddedFairness == \A n \in Name, l \in Link : WF_embeddedVars(Callback(n, l))

-----------------------------------------------------------------------------
EmbeddedTypeOK == DiscoverTypeOK /\ resolvers \in [Service -> 0..MaxResolvers]

\* Nothing is forgotten in avahi-core: when the network is quiet the resolvers,
\* to which the program keeps no pointer, are all gone.
ResolversDrain ==
  \A n \in Name, l \in Link : <>[][~BrowserNew(n, l)]_embeddedVars => <>[](resolvers[<<n, l>>] = 0)

\* avahi-core in the program: every video has its sender, and a video of a camera that left
\* is there only because its records outlived it, although REMOVE stops no resolver.
EmbeddedInv == EmbeddedTypeOK /\ VideosHaveSenders /\ NoGhostVideos
=============================================================================
