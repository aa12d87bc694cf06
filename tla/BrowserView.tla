----------------------------- MODULE BrowserView -----------------------------
(***************************************************************************)
(* What a record browser promises its client: from the scan of the caches  *)
(* on until the client frees it, the records it has reported and not       *)
(* withdrawn are exactly those in the caches; after that it is silent.     *)
(***************************************************************************)
CONSTANT Records

VARIABLES records,  \* the records in the caches that were asked for
          view,     \* the records reported and not withdrawn
          phase     \* idle (scan to come), running or gone

viewVars == <<records, view, phase>>

ViewInit == records = {} /\ view = {} /\ phase = "idle"

\* The caches change, and a running browser says so at once.
Change ==
  /\ records' \in SUBSET Records
  /\ view' = IF phase = "running" THEN records' ELSE view
  /\ UNCHANGED phase

\* The caches are scanned.
Scan == phase = "idle" /\ phase' = "running" /\ view' = records /\ UNCHANGED records

\* The client starts over.
StartOver == phase # "gone" /\ phase' = "idle" /\ view' = {} /\ UNCHANGED records

\* The client frees the browser, perhaps in the middle of a report.
Leave ==
  /\ phase # "gone" /\ phase' = "gone"
  /\ records' \in SUBSET Records
  /\ view' \subseteq view \cup records'

ViewNext == Change \/ Scan \/ StartOver \/ Leave

ViewSpec == ViewInit /\ [][ViewNext]_viewVars
=============================================================================
