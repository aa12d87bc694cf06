------------------------------ MODULE MCVideos ------------------------------
(***************************************************************************)
(* Model checking of the two ends of a video: the service resolver that    *)
(* learns its address, with two hosts, so that the SRV record can change,  *)
(* and the page that shows it, with five videos, so that all quads and     *)
(* otherVideos can be occupied at once.  They share no state, so a         *)
(* behaviour is one of either.                                             *)
(*                                                                         *)
(* Only safety is checked, so that symmetric values are taken for each     *)
(* other.  To exchange three of the videos is enough.                      *)
(***************************************************************************)
EXTENDS VideoForm, ServiceResolver, TLC

CONSTANTS v1, v2, v3  \* three of the videos

VARIABLE part  \* the part at work

mcSymmetry == Permutations({v1, v2, v3}) \cup Permutations(Host)

\* The part that is not at work is idle.
mcInit ==
  /\ part \in {"page", "resolver"}
  /\ Init /\ ResolverInit
  /\ part = "page" => told.freeInCallback

mcNext ==
  /\ \/ part = "page" /\ Next /\ UNCHANGED resolverVars
     \/ part = "resolver" /\ ResolverNext /\ UNCHANGED formVars
  /\ UNCHANGED part

mcSpec == mcInit /\ [][mcNext]_<<part, formVars, resolverVars>>
=============================================================================
