---------------------------- MODULE MCDiscovery ----------------------------
(***************************************************************************)
(* Model checking of discovery: of what it does to the video page, with    *)
(* either backend, and to two tabs with web pages; and of lookups in other *)
(* ways, with unicast DNS servers and of the addresses of a host.  They    *)
(* share no state, so a behaviour is one of one of them.                   *)
(***************************************************************************)
EXTENDS AvahiBrowse, EmbeddedAvahiBrowse, WebPages, WideArea, HostNameResolver

VARIABLE part  \* the part at work

cameraVars == <<backend, formVars, discoverVars, m_nameToResolver, found, bus, resolvers>>

mcVars == <<part, cameraVars, webVars, wideVars, hostVars>>

mcServerLists == {<<>>, <<"s1">>, <<"s1", "s2">>}

mcCameras ==
  \/ BrowseNext /\ UNCHANGED resolvers
  \/ EmbeddedNext /\ UNCHANGED <<m_nameToResolver, found, bus>>

\* Parts that are not at work are idle.
mcInit ==
  /\ part \in {"cameras", "web", "wide area", "host"}
  /\ BrowseInit /\ EmbeddedInit /\ WebInit /\ WideInit
  /\ part # "cameras" => backend = "AvahiBrowse"
  /\ IF part = "host" THEN HostInit
     ELSE host = avahi_s_host_name_resolver_free(NewHostResolver({}, "any", "never"))

mcSteps ==
  \/ part = "cameras" /\ mcCameras /\ UNCHANGED <<webVars, wideVars, hostVars>>
  \/ part = "web" /\ WebNext /\ UNCHANGED <<cameraVars, wideVars, hostVars>>
  \/ part = "wide area" /\ WideNext /\ UNCHANGED <<cameraVars, webVars, hostVars>>
  \/ part = "host" /\ HostNext /\ UNCHANGED <<cameraVars, webVars, wideVars>>

\* The resolver of a host name may be through.
mcEnded == part = "host" /\ UNCHANGED <<cameraVars, webVars, wideVars, hostVars>>

mcNext == (mcSteps \/ mcEnded) /\ UNCHANGED part

mcFairness ==
  DiscoverFairness /\ BrowseFairness /\ EmbeddedFairness /\ WideFairness /\ HostFairness

mcSpec == mcInit /\ [][mcNext]_mcVars /\ mcFairness
=============================================================================
