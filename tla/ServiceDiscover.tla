--------------------------- MODULE ServiceDiscover ---------------------------
(***************************************************************************)
(* The base class of the discovery backends (servicediscover.cpp), wired   *)
(* to the video page: its signals are direct calls of the page's handlers, *)
(* because everything runs in the one GUI thread.                          *)
(*                                                                         *)
(* A backend calls foundRPIVideoSender and lostRPIVideoSender.  The class  *)
(* keeps one RPIVideoSender object per answer of a resolver; the page      *)
(* keeps one NVMRVideo object per signal.  The two lists are never         *)
(* compared by the code.                                                   *)
(***************************************************************************)
EXTENDS VideoForm, FiniteSets

CONSTANTS Link,         \* network interfaces of the display
          MaxSenders    \* bound: resolved senders kept at once

ASSUME DiscoverAssumption == MaxSenders \in Nat

VARIABLES backend,                 \* the one the program was built with
          m_resolvedVideoSenders,  \* sequence of senders
          up,                      \* the (name, interface) pairs the browser reports
          late                     \* history: names a resolver answered for after the
                                   \* service had left; its other records may outlive
                                   \* the PTR record in the caches

discoverVars == <<m_resolvedVideoSenders, up, late>>

Sender == [name : Name, rtsp : BOOLEAN]

Service == Name \X Link

IsUp(n) == \E l \in Link : <<n, l>> \in up

\* A resolver for n on link l is answered.
Answered(n, l) == late' = IF <<n, l>> \in up THEN late ELSE late \cup {n}

-----------------------------------------------------------------------------
\* Mutant: only senders with rtsp are kept.
foundRtspSender(name, rtsp) ==
  IF rtsp
  THEN /\ m_resolvedVideoSenders' =
            Append(m_resolvedVideoSenders, [name |-> name, rtsp |-> rtsp])
       /\ onRpiVideoSenderRtspFound(name)
  ELSE UNCHANGED <<m_resolvedVideoSenders, formVars>>

\* foundRPIVideoSender: the sender is always kept, the page is only told about it
\* if its TXT record has the key rtsp.
foundRPIVideoSender(name, rtsp) ==
  /\ m_resolvedVideoSenders' =
       Append(m_resolvedVideoSenders, [name |-> name, rtsp |-> rtsp])
  /\ IF rtsp THEN onRpiVideoSenderRtspFound(name) ELSE UNCHANGED formVars

\* Mutant: the search stops at the first sender of that name.
lostFirstRPIVideoSender(name) ==
  LET mine == {i \in DOMAIN m_resolvedVideoSenders : m_resolvedVideoSenders[i].name = name}
  IN IF mine = {} THEN UNCHANGED <<m_resolvedVideoSenders, formVars>>
     ELSE /\ m_resolvedVideoSenders' =
               RemoveAt(m_resolvedVideoSenders, CHOOSE i \in mine : \A j \in mine : i <= j)
          /\ onRpiVideoSenderRtspWentAway(name)

\* One turn of the loop: the senders before s that stay, and s if it is another one.
Keep(name, kept, s) == IF s.name = name THEN kept ELSE Append(kept, s)

\* lostRPIVideoSender: every sender of that name is dropped and the page told for
\* each of them.  Telling it twice in a row does what telling it once does.
lostRPIVideoSender(name) ==
  /\ m_resolvedVideoSenders' =
       FoldLeft(LAMBDA kept, s : Keep(name, kept, s), << >>, m_resolvedVideoSenders)
  /\ IF \E i \in DOMAIN m_resolvedVideoSenders : m_resolvedVideoSenders[i].name = name
     THEN onRpiVideoSenderRtspWentAway(name)
     ELSE UNCHANGED formVars

-----------------------------------------------------------------------------
\* createServiceDiscover: the client of the daemon, or avahi-core inside the program.
createServiceDiscover == {"AvahiBrowse", "EmbeddedAvahiBrowse"}

DiscoverInit ==
  /\ Init
  /\ backend \in createServiceDiscover
  /\ m_resolvedVideoSenders = << >>
  /\ up = {}
  /\ late = {}

\* The event loop deletes what was destroyed.
DiscoverFairness == WF_formVars(Reap)

\* Clicks and deferred deletions leave the senders alone.
PageStep == (UserStep \/ Reap) /\ UNCHANGED discoverVars

LiveVideos(n) == {v \in alive \ dying : uniqueName[v] = n}

RtspSenders(n) ==
  {i \in DOMAIN m_resolvedVideoSenders : m_resolvedVideoSenders[i] = [name |-> n, rtsp |-> TRUE]}

DiscoverTypeOK ==
  /\ TypeOK
  /\ backend \in createServiceDiscover
  /\ m_resolvedVideoSenders \in Seq(Sender)
  /\ up \subseteq Service
  /\ late \subseteq Name

\* With the client of the daemon the page and the class agree: there is one live video for
\* every kept sender that streams rtsp, whatever the user did with the videos meanwhile.
VideosMatchSenders ==
  backend = "AvahiBrowse" =>
    \A n \in Name : Cardinality(LiveVideos(n)) = Cardinality(RtspSenders(n))

\* Every live video has its sender.
VideosHaveSenders ==
  \A n \in Name : Cardinality(LiveVideos(n)) <= Cardinality(RtspSenders(n))

\* With direct calls no video is on the page, at no time, without a service of that name
\* on the network, unless a resolver was answered from records that outlived the service.
NoGhostVideos ==
  backend = "EmbeddedAvahiBrowse" =>
    \A n \in Name \ late : LiveVideos(n) # {} => IsUp(n)

\* A camera that left the network for good leaves the page for good, unless such an
\* answer brought it back.
GoneCamerasDisappear ==
  \A n \in Name : <>[](~IsUp(n)) /\ [](n \notin late)
                    => <>[](\A v \in alive : uniqueName[v] # n)

\* "We are assuming that the 'name' of the video sender is unique": no two live
\* videos have the same name.
OneVideoPerName == \A n \in Name : Cardinality(LiveVideos(n)) <= 1
=============================================================================
