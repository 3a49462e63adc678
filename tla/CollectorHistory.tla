-------------------------- MODULE CollectorHistory --------------------------
(***************************************************************************)
(* CacheCollector with what its backups promise: an entry, or a member of  *)
(* a hash set, that is in the cache from the begin of a backup to its end, *)
(* and still there when the process stops, is one the next start should    *)
(* find; and one that was gone when the backup began to copy is one it     *)
(* should not find.                                                        *)
(***************************************************************************)
EXTENDS CacheCollector

VARIABLES
  watched,    (* the facts of the cache each running job has found and     *)
              (* that have been so ever since                              *)
  passed,     (* those that were so at some time while it was at work      *)
  safe,       (* those that were so until a backup was complete            *)
  promised    (* those that were so until the process stopped              *)

history == <<watched, passed, safe, promised>>

(* A fact: the cache has the entry under the key, and the entry has the    *)
(* part, which is a member if it is a hash set, or nothing.                *)
Fact(k, r, part) == [key |-> k, entry |-> r, part |-> part]

PartsOf(entry) == {{}} \cup {{m} : m \in MembersOf(entry)}

FactsOf(c, h) ==
  UNION {{Fact(k, c[k], part) : part \in PartsOf(h[c[k]])} : k \in {k \in Keys : c[k] # null}}

(* What is in the entries that these facts are about.                      *)
Inside(facts, h) ==
  UNION {{Fact(f.key, f.entry, part) : part \in PartsOf(h[f.entry])} : f \in facts}

HInit ==
  /\ Init
  /\ watched = [w \in Workers |-> {}]
  /\ passed = [w \in Workers |-> {}]
  /\ safe = {}
  /\ promised = {}

Completes(w) == pc[w] = "close" /\ pc'[w] = "end"

Watch ==
  /\ watched' = [w \in Workers |->
       IF pc'[w] = "free" THEN {}
       ELSE IF pc[w] = "free" THEN FactsOf(cache', heap')
       ELSE watched[w] \cap FactsOf(cache', heap')]
  /\ passed' = [w \in Workers |->
       CASE pc'[w] = "enumerate"         -> passed[w] \cup FactsOf(cache', heap')
         [] pc'[w] \in {"write", "walk"} -> passed[w] \cup Inside(passed[w], heap')
         [] pc'[w] = "close"             -> passed[w]
         [] OTHER                        -> {}]
  /\ safe' = FactsOf(cache', heap') \cap
       (safe \cup UNION {watched[w] : w \in {w \in Workers : Completes(w)}})
  /\ promised' =
       IF up /\ ~up'
       THEN {[key |-> f.key, entry |-> heap[f.entry], part |-> f.part] : f \in safe}
       ELSE IF up' THEN {} ELSE promised

HNext == Next /\ Watch

HSpec == HInit /\ [][HNext]_<<vars, history>>

FairHSpec == HSpec /\ \A w \in Workers : WF_vars(Job(w))

-----------------------------------------------------------------------------
(* What a document has for an entry, with these members if it is a set.    *)
ItemOf(k, entry, members) ==
  Item(k, IF IsSet(entry) THEN WithMembers(entry, members) ELSE entry)

MembersIn(item) ==
  IF EntryJson(item)[3].type = "Array" THEN EntryJson(item)[3].text.body ELSE {}

(* The item says that the entry, with the part, is under the key.          *)
Says(item, k, entry, part) ==
  /\ item = ItemOf(k, entry, MembersIn(item))
  /\ part \subseteq MembersIn(item)

(* A complete backup is a snapshot, although it is taken while the clients *)
(* go on, and change the very sets it writes: it has every entry and every *)
(* member that was in the cache from its begin to its end, no entry that   *)
(* was not there while it copied the cache, no member that was not in that *)
(* entry while it was at work, and no two entries for one key.             *)
BackupsAreSnapshots ==
  [][ \A w \in Workers : Completes(w) =>
        /\ \A f \in watched[w] : \E item \in file'.entries :
             Says(item, f.key, heap[f.entry], f.part)
        /\ \A item \in file'.entries : \E f \in passed[w] :
             /\ Says(item, f.key, heap[f.entry], f.part)
             /\ \A m \in MembersIn(item) : Fact(f.key, f.entry, {m}) \in passed[w]
        /\ \A i, j \in file'.entries : KeyRead(i) = KeyRead(j) => i = j
    ]_<<vars, history>>

(* The entry is what it was, with the part it had of a hash set.           *)
Recovers(entry, was, part) ==
  /\ entry.absolute = was.absolute
  /\ entry.sliding = was.sliding
  /\ IF IsSet(was) THEN IsSet(entry) /\ part \subseteq MembersOf(entry)
                   ELSE entry.value = was.value

(* README.md: an automatic backup/restore to recover stored data during    *)
(* the start process.  Unless the process stopped while it wrote the file, *)
(* a start recovers what a backup promised: the value and its expiration,  *)
(* a hash set with each member that was promised, or nothing when it has   *)
(* expired meanwhile.                                                      *)
StoredIsRecovered ==
  [][ (StartAsync /\ file # null /\ ~file.torn) =>
        \A p \in promised :
          \/ Expired(p.entry, now)
          \/ /\ cache'[p.key] # null
             /\ Recovers(heap'[cache'[p.key]], p.entry, p.part) ]_<<vars, history>>

=============================================================================
