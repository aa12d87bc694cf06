----------------------------- MODULE MCQueries -----------------------------
(***************************************************************************)
(* Model checking of how the network is asked and of what is remembered.   *)
(* A behaviour is one of the queriers ("querying"), two lookups that share *)
(* a key or have one each, or one of the cache: "failures", a record r4    *)
(* that other hosts ask for and whose answers get lost, or "flushes", two  *)
(* versions r1 and r2 of a unique record and a shared record r3 that       *)
(* compete for two entries.                                                *)
(***************************************************************************)
EXTENDS Cache, Querier

CONSTANTS r1, r2, r3, r4, k1, k2, k3, q1, q2, l1, l2

VARIABLE part

mcVars == <<part, vars, queryVars>>

mcKeyOf == [r \in Record |-> CASE r = r3 -> k2 [] r = r4 -> k3 [] OTHER -> k1]

\* Where there are several records, no other host asks for them, at most one answer for a
\* version of the unique record is lost in a row and none for the record that competes.
mcCacheNext ==
  \/ part = "failures" /\ Next /\ alive' \subseteq {r4}
  \/ part = "flushes" /\ RecordNext /\ r4 \notin alive' /\ \A r \in {r1, r2} : lost'[r] <= 1 /\ lost'[r3] = 0

\* Two lookups share q1, or l2 asks for q2: keys are alike, so that l1 need not move.
mcQueryBound == lookup'[l1].key # q2

mcInit ==
  /\ part \in {"querying", "failures", "flushes"}
  /\ Init /\ QueryInit

mcNext ==
  /\ \/ part = "querying" /\ QueryNext /\ mcQueryBound /\ UNCHANGED vars
     \/ mcCacheNext /\ UNCHANGED queryVars
  /\ UNCHANGED part

mcTick == (Tick /\ vars # vars') \/ (QueryTick /\ queryVars # queryVars')

mcSpec ==
  /\ mcInit /\ [][mcNext]_mcVars
  /\ []<><<mcTick>>_mcVars
  /\ CacheDeadlines /\ QueryDeadlines
=============================================================================
