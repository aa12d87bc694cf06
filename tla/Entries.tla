------------------------------- MODULE Entries -------------------------------
(***************************************************************************)
(* The records the server keeps for its clients (entry.c): entries that    *)
(* are put together to services, addresses and name servers, belong to     *)
(* entry groups and are found by key in a hash map.                        *)
(*                                                                         *)
(* The hash map refers to the first entry of the list of a key and to the  *)
(* key inside its record; entries that were freed stay in the lists, dead, *)
(* until a cleanup.  All names are valid and in the domain "local", and    *)
(* everything is published on all interfaces.  When and whether records    *)
(* are announced is the business of module Announce.                       *)
(***************************************************************************)
EXTENDS Naturals, Sequences, SequencesExt, FiniteSets, FiniteSetsExt

CONSTANTS Grp,        \* entry groups
          Svc,        \* service names
          Port,       \* ports of services
          Text,       \* texts of services
          Host, IP,   \* host names and addresses
          MaxEntries, \* bound on the entries that exist
          MaxServiceEntries \* the same if all of them are of services

ASSUME EntriesAssumption ==
  {MaxEntries, MaxServiceEntries} \subseteq Nat /\ MaxEntries <= MaxServiceEntries

VARIABLES by_key,             \* entries_by_key: key -> list of entries, newest first
          key_of,             \* key -> the record whose key the hash map refers to; NoRecord
          group,              \* group -> "none", "UNCOMMITED", "COMMITED" or "dead"
          need_entry_cleanup,
          need_group_cleanup,
          cleanup_time_event  \* a cleanup is scheduled

entryVars == <<by_key, key_of, group, need_entry_cleanup, need_group_cleanup, cleanup_time_event>>
cleanupVars == <<need_entry_cleanup, need_group_cleanup, cleanup_time_event>>

\* Keys: of the list of services, of the list of types, of services, hosts and addresses
Key == ({"PTR", "ENUM", "SUB", "DNS"} \X {"all"}) \cup ({"SRV", "TXT"} \X Svc) \cup ({"A"} \X (Host \cup IP)) \cup ({"REV"} \X IP)

\* A record to be added
Rec(type, name, data, unique, multiple) ==
  [key |-> <<type, name>>, data |-> data, unique |-> unique, multiple |-> multiple]

\* avahi_server_add_service_strlst: PTR, SRV and TXT record and the enumeration of types
Service(n, port, text) ==
  << Rec("PTR", "all", n, FALSE, FALSE), Rec("SRV", n, port, TRUE, FALSE),
     Rec("TXT", n, text, TRUE, FALSE), Rec("ENUM", "all", "type", FALSE, FALSE) >>

\* avahi_server_add_service_subtype
Subtype(n) == << Rec("SUB", "all", n, FALSE, FALSE) >>

\* avahi_server_add_address: the address and the reverse lookup entry
AddressRecords(h, ip) == << Rec("A", h, ip, TRUE, TRUE), Rec("REV", ip, h, TRUE, FALSE) >>

\* avahi_server_add_dns_server_address and server_add_dns_server_name; the host is named
\* after its address
DNSServer(ip) == << Rec("A", ip, ip, TRUE, TRUE), Rec("DNS", "all", ip, FALSE, FALSE) >>

-----------------------------------------------------------------------------
(* The lists, in a record db with the fields by_key and key_of.            *)

NoRecord == <<0, 0>>
DB == [by_key |-> by_key, key_of |-> key_of]

EntriesOf(db) == UNION {{db.by_key[k][i] : i \in DOMAIN db.by_key[k]} : k \in Key}

\* A record object is known by the entry that holds it and a version.
RecordOf(e) == <<e.id, e.version>>
Ids == 1..MaxServiceEntries + 4
FreshId(db) == Min(Ids \ {e.id : e \in EntriesOf(db)})

\* AVAHI_LLIST_REMOVE of the entry with this id
ListWithout(list, id) == FoldLeft(LAMBDA rest, x : IF x.id = id THEN rest ELSE Append(rest, x), <<>>, list)

Unlinked(db, e) ==
  LET rest == ListWithout(db.by_key[e.key], e.id)
  IN [by_key |-> [db.by_key EXCEPT ![e.key] = rest],
      key_of |-> [db.key_of EXCEPT ![e.key] = IF rest = <<>> THEN NoRecord ELSE RecordOf(rest[1])]]

avahi_entry_free(db, e) == Unlinked(db, e)

\* check_record_conflict
check_record_conflict(db, g, r) ==
  \E i \in DOMAIN db.by_key[r.key] :
    LET e == db.by_key[r.key][i]
    IN ~e.dead /\ (r.unique \/ e.unique) /\ ~(r.multiple /\ e.multiple) /\ r.data # e.data

\* server_add_internal: a new entry comes first in the list of its key.
Added(db, g, r) ==
  LET e == [id |-> FreshId(db), version |-> 0, group |-> g, dead |-> FALSE, key |-> r.key,
            data |-> r.data, unique |-> r.unique, multiple |-> r.multiple]
  IN [db |-> [by_key |-> [db.by_key EXCEPT ![r.key] = <<e>> \o @], key_of |-> [db.key_of EXCEPT ![r.key] = RecordOf(e)]],
      entry |-> e]

AddNext(g, acc, r) ==
  IF ~acc.ok \/ check_record_conflict(acc.db, g, r) THEN [acc EXCEPT !.ok = FALSE]
  ELSE LET a == Added(acc.db, g, r) IN [ok |-> TRUE, db |-> a.db, new |-> Append(acc.new, a.entry)]

\* The records are added one by one until one of them conflicts.
AddEach(db, g, recs) ==
  FoldLeft(LAMBDA acc, r : AddNext(g, acc, r), [ok |-> TRUE, db |-> db, new |-> <<>>], recs)

\* Mutant: the last record added is left behind.
RolledBack_last(acc) == FoldLeft(avahi_entry_free, acc.db, IF acc.new = <<>> THEN <<>> ELSE Front(acc.new))

\* If one fails, those that were added are freed again.
RolledBack(acc) == FoldLeft(avahi_entry_free, acc.db, acc.new)

-----------------------------------------------------------------------------
Bounded(db) ==
  LET n == Cardinality(EntriesOf(db))
  IN \/ n <= MaxEntries
     \/ n <= MaxServiceEntries /\ \A e \in EntriesOf(db) : e.key[1] \in {"PTR", "SRV", "TXT", "ENUM"}

\* avahi_server_add and what is put together from it
Add(g, recs) ==
  LET acc == AddEach(DB, g, recs)
      db == IF acc.ok THEN acc.db ELSE RolledBack(acc)
  IN
  /\ group[g] = "UNCOMMITED"
  /\ Bounded(db)
  /\ by_key' = db.by_key /\ key_of' = db.key_of
  /\ UNCHANGED <<group, cleanupVars>>

KeyAfterUpdate(first, e, k) == IF first THEN [key_of EXCEPT ![k] = RecordOf(e)] ELSE key_of

\* avahi_server_update_service_txt: the first entry of the group gets a new record.
avahi_server_update_service_txt(g, n, text) ==
  LET k == <<"TXT", n>>
      mine == {i \in DOMAIN by_key[k] : ~by_key[k][i].dead /\ by_key[k][i].group = g}
      i == Min(mine)
      e == [by_key[k][i] EXCEPT !.version = 1 - @, !.data = text]
  IN
  /\ group[g] # "dead" /\ mine # {}
  /\ by_key' = [by_key EXCEPT ![k][i] = e]
  /\ key_of' = KeyAfterUpdate(i = 1, e, k)
  /\ UNCHANGED <<group, cleanupVars>>

\* The live entries of the group, marked as dead
Marked(g) ==
  [k \in Key |-> [i \in DOMAIN by_key[k] |-> [by_key[k][i] EXCEPT !.dead = @ \/ by_key[k][i].group = g]]]

LiveEntries(g) == {e \in EntriesOf(DB) : ~e.dead /\ e.group = g}

\* avahi_s_entry_group_new
avahi_s_entry_group_new(g) ==
  /\ group[g] = "none"
  /\ group' = [group EXCEPT ![g] = "UNCOMMITED"]
  /\ UNCHANGED <<by_key, key_of, cleanupVars>>

\* avahi_s_entry_group_commit
avahi_s_entry_group_commit(g) ==
  /\ group[g] = "UNCOMMITED" /\ LiveEntries(g) # {}
  /\ group' = [group EXCEPT ![g] = "COMMITED"]
  /\ UNCHANGED <<by_key, key_of, cleanupVars>>

\* avahi_s_entry_group_reset
ResetGroup(g) ==
  /\ group[g] \in {"UNCOMMITED", "COMMITED"}
  /\ group' = [group EXCEPT ![g] = "UNCOMMITED"]
  /\ by_key' = Marked(g)
  /\ need_entry_cleanup' = TRUE /\ cleanup_time_event' = TRUE
  /\ UNCHANGED <<key_of, need_group_cleanup>>

\* avahi_s_entry_group_free
avahi_s_entry_group_free(g) ==
  /\ group[g] \in {"UNCOMMITED", "COMMITED"}
  /\ group' = [group EXCEPT ![g] = "dead"]
  /\ by_key' = Marked(g)
  /\ need_entry_cleanup' = TRUE /\ need_group_cleanup' = TRUE /\ cleanup_time_event' = TRUE
  /\ UNCHANGED key_of

\* avahi_cleanup_dead_entries, from the time event or after a packet
avahi_cleanup_dead_entries ==
  LET freed == {e \in EntriesOf(DB) : (need_entry_cleanup /\ e.dead) \/ (need_group_cleanup /\ group[e.group] = "dead")}
      db == FoldSet(LAMBDA e, d : avahi_entry_free(d, e), DB, freed)
  IN
  /\ by_key' = db.by_key /\ key_of' = db.key_of
  /\ group' = [g \in Grp |-> IF need_group_cleanup /\ group[g] = "dead" THEN "none" ELSE group[g]]
  /\ need_entry_cleanup' = FALSE /\ need_group_cleanup' = FALSE /\ cleanup_time_event' = FALSE

EntriesInit ==
  /\ by_key = [k \in Key |-> <<>>] /\ key_of = [k \in Key |-> NoRecord]
  /\ group = [g \in Grp |-> "none"]
  /\ need_entry_cleanup = FALSE /\ need_group_cleanup = FALSE /\ cleanup_time_event = FALSE

EntriesNext ==
  \/ \E g \in Grp, n \in Svc, p \in Port, t \in Text : Add(g, Service(n, p, t))
  \/ \E g \in Grp, n \in Svc : Add(g, Subtype(n))
  \/ \E g \in Grp, ip \in IP : Add(g, DNSServer(ip)) \/ \E h \in Host : Add(g, AddressRecords(h, ip))
  \/ \E g \in Grp, n \in Svc, t \in Text : avahi_server_update_service_txt(g, n, t)
  \/ \E g \in Grp : \/ avahi_s_entry_group_new(g) \/ avahi_s_entry_group_commit(g)
                    \/ ResetGroup(g) \/ avahi_s_entry_group_free(g)
  \/ avahi_cleanup_dead_entries

EntriesSpec == EntriesInit /\ [][EntriesNext]_entryVars

-----------------------------------------------------------------------------
EntriesTypeOK ==
  /\ \A e \in EntriesOf(DB) : e.group \in Grp /\ e.version \in 0..1 /\ e.id \in Ids
  /\ \A k \in Key : IsInjective(by_key[k]) /\ \A i \in DOMAIN by_key[k] : by_key[k][i].key = k
  /\ group \in [Grp -> {"none", "UNCOMMITED", "COMMITED", "dead"}]
  /\ {need_entry_cleanup, need_group_cleanup, cleanup_time_event} \subseteq BOOLEAN

\* A service is published completely or not at all: when one of its records conflicts with
\* a record of another group, none of the others stays behind.
ServicesComplete ==
  \A g \in Grp, n \in Svc :
    LET keys == {e.key : e \in LiveEntries(g)}
        listed == \E e \in LiveEntries(g) : e.key[1] = "PTR" /\ e.data = n
    IN /\ listed => {<<"SRV", n>>, <<"TXT", n>>, <<"ENUM", "all">>} \subseteq keys
       /\ <<"SRV", n>> \in keys \/ <<"TXT", n>> \in keys => listed

\* The hash map never refers to a key inside a record that is gone, however entries are
\* added, updated, rolled back and cleaned up in the middle of a list.
KeysAreAlive ==
  \A k \in Key : key_of[k] = IF by_key[k] = <<>> THEN NoRecord ELSE RecordOf(by_key[k][1])

\* No two groups publish different hosts or ports for one service, or different names for
\* one address.
NoLocalConflict ==
  \A e1, e2 \in EntriesOf(DB) :
    ~e1.dead /\ ~e2.dead /\ e1.key = e2.key /\ e1.key[1] \in {"SRV", "REV"} => e1.data = e2.data

\* What is dead will be freed: a cleanup that looks for it is scheduled.
DeadWillBeFreed ==
  /\ (\E e \in EntriesOf(DB) : e.dead) => need_entry_cleanup /\ cleanup_time_event
  /\ (\E g \in Grp : group[g] = "dead") => need_group_cleanup /\ cleanup_time_event

\* Adding, updating, rolling back and freeing in any order leaves complete services that do
\* not contradict each other, in an index without stale keys.
EntriesInv == EntriesTypeOK /\ ServicesComplete /\ KeysAreAlive /\ NoLocalConflict /\ DeadWillBeFreed
=============================================================================
