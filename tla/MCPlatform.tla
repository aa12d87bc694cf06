----------------------------- MODULE MCPlatform -----------------------------
(***************************************************************************)
(* Model checking of what the server stands on and of what it publishes:   *)
(* the queue of time events, the poll() loop, the records of the host, the *)
(* reflector, the entries of clients and the registration of a group.      *)
(* They share no state, so a behaviour is one of one of them.              *)
(*                                                                         *)
(* The group has a probed record and a shared one on two interfaces, and a *)
(* unique record, neither probed nor announced, on one of them.            *)
(***************************************************************************)
EXTENDS TimeEvents, SimplePoll, HostRecords, Reflector, Entries, Announce

CONSTANTS c1, c2, n1, n2, probed, shared, plain, i1, i2

VARIABLE part  \* the part at work

mcVars == <<part, timeVars, pollVars, hostVars, reflectVars, entryVars, vars>>

mcLinkOf == [c \in Client |-> IF c = c1 THEN n1 ELSE n2]

mcMatch == {<<probed, i1>>, <<probed, i2>>, <<shared, i1>>, <<shared, i2>>, <<plain, i1>>}

\* Parts that are not at work are idle.
mcInit ==
  /\ part \in {"time events", "poll", "host", "reflector", "entries", "group"}
  /\ TimeInit /\ HostInit /\ ReflectInit /\ EntriesInit /\ Init
  /\ PollCreated(IF part = "poll" THEN "INIT" ELSE "QUIT")
  /\ part # "host" => server.name = CHOOSE n \in HostName : TRUE

mcSteps ==
  \/ /\ part = "time events" /\ TimeNext
     /\ UNCHANGED <<pollVars, hostVars, reflectVars, entryVars, vars>>
  \/ /\ part = "poll" /\ PollNext
     /\ UNCHANGED <<timeVars, hostVars, reflectVars, entryVars, vars>>
  \/ /\ part = "host" /\ HostNext
     /\ UNCHANGED <<timeVars, pollVars, reflectVars, entryVars, vars>>
  \/ /\ part = "reflector" /\ ReflectNext
     /\ UNCHANGED <<timeVars, pollVars, hostVars, entryVars, vars>>
  \/ /\ part = "entries" /\ EntriesNext
     /\ UNCHANGED <<timeVars, pollVars, hostVars, reflectVars, vars>>
  \/ /\ part = "group" /\ Next
     /\ UNCHANGED <<timeVars, pollVars, hostVars, reflectVars, entryVars>>

mcNext == mcSteps /\ UNCHANGED part

mcSpec == mcInit /\ [][mcNext]_mcVars /\ AnnounceFairness
=============================================================================
