--------------------------- MODULE ReCacheProvider ---------------------------
(***************************************************************************)
(* The in-memory cache (class ReCacheProvider) driven by the threads that  *)
(* serve gRPC calls (GrpcCacheService) and by the timer that cleans it.    *)
(* No lock is held across a call: a call is a sequence of atomic accesses  *)
(* to the concurrent dictionary and of plain accesses to the entry objects *)
(* it hands out, and every step below is one such access.                  *)
(***************************************************************************)
EXTENDS ReCacheEntry, FiniteSets

CONSTANTS
  Threads,      (* the threads that call the provider                      *)
  NameSpaces,   (* name spaces of the keys                                 *)
  Names,        (* names within a name space                               *)
  Values,       (* the strings the clients store                           *)
  Serves,       (* the operations each thread serves                       *)
  MaxEntries,   (* bound: entries one thread creates                       *)
  MaxTime,      (* bound: ticks of the wall clock                          *)
  TornReads     (* whether a sliding deadline can be read half written     *)

Operations ==
  { "SetDictionary", "GetDictionary", "DelDictionary",
    "SetHashSet", "GetHashSet", "DelHashSet", "RemoveHashSet",
    "ListDictionary", "ListDictionaryNamespaces",
    "ListHashSet", "ListHashSetNamespaces",
    "Clear", "ClearAll", "CleanExpired" }

(* ReCacheKey: record equality over the three fields.                      *)
KeyTypes == {"Set", "HashSet"}
Keys     == [Namespace : NameSpaces, Key : Names, KeyType : KeyTypes]

(* An entry object is known by the thread that made it and a serial.       *)
Refs == Threads \X (1 .. MaxEntries)

Contents == Values \cup SUBSET Values

ContentsOf(keyType) == IF keyType = "Set" THEN Values ELSE Contents \ Values

ASSUME ProviderAssumption ==
  /\ Serves \in [Threads -> SUBSET Operations]
  /\ MaxEntries \in Nat
  /\ MaxTime \in Nat
  /\ TornReads \in BOOLEAN
  /\ null \notin Values \cup Refs

VARIABLES
  now,      (* DateTimeOffset.Now, in ticks                                *)
  dict,     (* _concurrentDictionary: the entry object of each key         *)
  heap,     (* the fields of each entry object                             *)
  made,     (* how many entries each thread has created                    *)
  pc,       (* what each thread does next                                  *)
  call,     (* the request each thread serves                              *)
  hit,      (* the key/value pair the thread got from the dictionary       *)
  seen,     (* what a hash set held when the thread began to walk it       *)
  broken,   (* threads whose walk over a hash set was invalidated          *)
  todo,     (* keys an enumeration of the dictionary has still to visit    *)
  reply     (* the last answer of each thread                              *)

vars == <<now, dict, heap, made, pc, call, hit, seen, broken, todo, reply>>

local == <<hit, seen, todo>>

-----------------------------------------------------------------------------
(* Requests: what GrpcCacheService hands to the provider.                  *)

Request(op, key, value, absolute, sliding, nameSpace) ==
  [ op |-> op, key |-> key, value |-> value, absolute |-> absolute,
    sliding |-> sliding, nameSpace |-> nameSpace ]

(* Mutant of KeysOf: equality of keys forgets the type.                    *)
KeysOfAnyType(keyType) == Keys

KeysOf(keyType) == {k \in Keys : k.KeyType = keyType}

StoreRequests(op, keyType) ==
  { Request(op, k, v, a, s, null) :
      k \in KeysOf(keyType), v \in Values,
      a \in AbsoluteTimes \cup {null}, s \in SlidingSpans \cup {null} }

KeyRequests(op, keyType) ==
  { Request(op, k, null, null, null, null) : k \in KeysOf(keyType) }

Requests ==
  StoreRequests("SetDictionary", "Set")
    \cup StoreRequests("SetHashSet", "HashSet")
    \cup KeyRequests("GetDictionary", "Set")
    \cup KeyRequests("DelDictionary", "Set")
    \cup KeyRequests("GetHashSet", "HashSet")
    \cup KeyRequests("RemoveHashSet", "HashSet")
    \cup { Request("DelHashSet", k, v, null, null, null) :
             k \in KeysOf("HashSet"), v \in Values }
    \cup { Request(op, null, null, null, null, n) :
             op \in {"Clear", "ListDictionary", "ListHashSet"}, n \in NameSpaces }
    \cup { Request(op, null, null, null, null, null) :
             op \in {"ClearAll", "CleanExpired",
                    "ListDictionaryNamespaces", "ListHashSetNamespaces"} }

(* null is no object, and a string is no set of strings.                   *)
ASSUME ObjectsAssumption ==
  /\ \A c \in Requests : c # null
  /\ \A k \in Keys, r \in Refs : [key |-> k, entry |-> r] # null
  /\ \A v \in Values, s \in SUBSET Values : v # s

Labels ==
  { "idle", "set", "add", "update", "lookup", "check", "renew", "found", "walk",
    "remove", "removeEntry", "list", "sweep", "evict", "clearAll" }

Setters  == {"SetDictionary", "SetHashSet"}
Sweeps   == {"Clear", "CleanExpired"}
KeyLists == {"ListDictionary", "ListHashSet"}
Lists    == KeyLists \cup {"ListDictionaryNamespaces", "ListHashSetNamespaces"}

(* Mutant of EntryPoint: SetHashSet stores a new set without looking.      *)
EntryPointCreates(op) ==
  CASE op \in Setters                   -> "set"
    [] op = "DelDictionary"             -> "remove"
    [] op = "RemoveHashSet"             -> "removeEntry"
    [] op = "ClearAll"                  -> "clearAll"
    [] op \in Sweeps                    -> "sweep"
    [] op \in Lists                     -> "list"
    [] OTHER                            -> "lookup"

EntryPoint(op) ==
  CASE op = "SetDictionary"             -> "set"
    [] op = "DelDictionary"             -> "remove"
    [] op = "RemoveHashSet"             -> "removeEntry"
    [] op = "ClearAll"                  -> "clearAll"
    [] op \in Sweeps                    -> "sweep"
    [] op \in Lists                     -> "list"
    [] OTHER                            -> "lookup"

Reply(status, data) == [status |-> status, data |-> data]

(* The entry and the key the thread holds.                                 *)
Held(t)    == hit[t].entry
HeldKey(t) == hit[t].key

Init ==
  /\ now = 0
  /\ dict = [k \in Keys |-> null]
  /\ heap = [r \in Refs |-> NewEntry({}, null, null)]
  /\ made = [t \in Threads |-> 0]
  /\ pc = [t \in Threads |-> "idle"]
  /\ call = [t \in Threads |-> null]
  /\ hit = [t \in Threads |-> null]
  /\ seen = [t \in Threads |-> {}]
  /\ broken = {}
  /\ todo = [t \in Threads |-> {}]
  /\ reply = [t \in Threads |-> null]

-----------------------------------------------------------------------------
Goto(t, label) == pc' = [pc EXCEPT ![t] = label]

Hold(t, k) == hit' = [hit EXCEPT ![t] = [key |-> k, entry |-> dict[k]]]

(* The call returns: its locals are gone.                                  *)
Answer(t, status, data) ==
  /\ Goto(t, "idle")
  /\ call' = [call EXCEPT ![t] = null]
  /\ hit' = [hit EXCEPT ![t] = null]
  /\ seen' = [seen EXCEPT ![t] = {}]
  /\ todo' = [todo EXCEPT ![t] = {}]
  /\ reply' = [reply EXCEPT ![t] = Reply(status, data)]

Tick ==
  /\ now < MaxTime
  /\ now' = now + 1
  /\ UNCHANGED <<dict, heap, made, pc, call, local, broken, reply>>

Invoke(t, c) ==
  /\ pc[t] = "idle"
  /\ c.op \in Serves[t]
  /\ c.op \in Setters => made[t] < MaxEntries
  /\ Goto(t, EntryPoint(c.op))
  /\ call' = [call EXCEPT ![t] = c]
  /\ todo' = [todo EXCEPT ![t] = IF EntryPoint(c.op) = "sweep" THEN Keys ELSE {}]
  /\ reply' = [reply EXCEPT ![t] = null]
  /\ UNCHANGED <<now, dict, heap, made, hit, seen, broken>>

(* Set gives the key a new entry object, whatever it had.  AddOrUpdate     *)
(* looks the key up, and adds the entry where there was none, or exchanges *)
(* the one it found.  SetHashSet gets here with a set of its one value.    *)
Peek(t) ==
  /\ pc[t] = "set"
  /\ IF dict[call[t].key] = null
     THEN Goto(t, "add") /\ UNCHANGED hit
     ELSE Goto(t, "update") /\ Hold(t, call[t].key)
  /\ UNCHANGED <<now, dict, heap, made, call, seen, broken, todo, reply>>

(* What the look-up found is what the key still has.                       *)
Unchanged(t) ==
  dict[call[t].key] = IF pc[t] = "update" THEN Held(t) ELSE null

AddOrUpdate(t) ==
  /\ pc[t] \in {"add", "update"}
  /\ Unchanged(t)
  /\ LET c == call[t]
         r == <<t, made[t] + 1>>
         value == IF c.op = "SetHashSet" THEN {c.value} ELSE c.value
     IN  /\ heap' = [heap EXCEPT ![r] = NewEntry(value, c.absolute, c.sliding)]
         /\ dict' = [dict EXCEPT ![c.key] = r]
  /\ made' = [made EXCEPT ![t] = @ + 1]
  /\ Answer(t, "OK", null)
  /\ UNCHANGED <<now, broken>>

(* Another thread was faster: TryAdd finds an entry, or TryUpdate another  *)
(* one or none, and the loop starts again with the same new entry.         *)
Overtaken(t) ==
  /\ pc[t] \in {"add", "update"}
  /\ ~Unchanged(t)
  /\ hit' = [hit EXCEPT ![t] = null]
  /\ Goto(t, "set")
  /\ UNCHANGED <<now, dict, heap, made, call, seen, broken, todo, reply>>

(* Get found nothing, or an expired entry.                                 *)
GotNull(t) ==
  CASE call[t].op = "SetHashSet" ->
         /\ Goto(t, "set")
         /\ hit' = [hit EXCEPT ![t] = null]
         /\ UNCHANGED <<call, seen, todo, reply>>
    [] call[t].op \in {"GetDictionary", "DelDictionary"} ->
         Answer(t, "No result", null)
    [] OTHER ->
         Answer(t, "OK", null)

LookupMiss(t) ==
  /\ pc[t] = "lookup"
  /\ dict[call[t].key] = null
  /\ GotNull(t)
  /\ UNCHANGED <<now, dict, heap, made, broken>>

(* Mutant of LookupHit: the result of TryGetValue is not looked at.        *)
LookupHitUnchecked(t) ==
  /\ pc[t] = "lookup"
  /\ Hold(t, call[t].key)
  /\ Goto(t, "check")
  /\ UNCHANGED <<now, dict, heap, made, call, seen, broken, todo, reply>>

LookupHit(t) ==
  /\ pc[t] = "lookup"
  /\ dict[call[t].key] # null
  /\ Hold(t, call[t].key)
  /\ Goto(t, "check")
  /\ UNCHANGED <<now, dict, heap, made, call, seen, broken, todo, reply>>

(* DelDictionary takes the entry out first and reads its value afterwards. *)
RemoveMiss(t) ==
  /\ pc[t] = "remove"
  /\ dict[call[t].key] = null
  /\ GotNull(t)
  /\ UNCHANGED <<now, dict, heap, made, broken>>

(* Mutant of RemoveHit: the entry is read, and removed by nobody.          *)
RemoveHitLeaves(t) ==
  /\ pc[t] = "remove"
  /\ dict[call[t].key] # null
  /\ Hold(t, call[t].key)
  /\ Goto(t, "check")
  /\ UNCHANGED <<now, dict, heap, made, call, seen, broken, todo, reply>>

RemoveHit(t) ==
  /\ pc[t] = "remove"
  /\ dict[call[t].key] # null
  /\ Hold(t, call[t].key)
  /\ dict' = [dict EXCEPT ![call[t].key] = null]
  /\ Goto(t, "check")
  /\ UNCHANGED <<now, heap, made, call, seen, broken, todo, reply>>

(* The first write of a sliding deadline is not atomic: a thread that      *)
(* reads it meanwhile can see a deadline that is set but still zero.       *)
HalfWritten(t, r) ==
  /\ TornReads
  /\ heap[r].slidingFromNow = null
  /\ heap[r].sliding # null
  /\ \E u \in Threads \ {t} : pc[u] = "renew" /\ Held(u) = r

(* What the property Expired of an entry can answer to thread t.           *)
MayBeExpired(t, r) == Expired(heap[r], now) \/ HalfWritten(t, r)

CheckExpired(t) ==
  /\ pc[t] = "check"
  /\ MayBeExpired(t, Held(t))
  /\ GotNull(t)
  /\ UNCHANGED <<now, dict, heap, made, broken>>

(* Mutant of CheckLive: the getter does not ask whether it expired.        *)
CheckLiveAlways(t) ==
  /\ pc[t] = "check"
  /\ Goto(t, "renew")
  /\ UNCHANGED <<now, dict, heap, made, call, local, broken, reply>>

CheckLive(t) ==
  /\ pc[t] = "check"
  /\ ~Expired(heap[Held(t)], now)
  /\ Goto(t, "renew")
  /\ UNCHANGED <<now, dict, heap, made, call, local, broken, reply>>

(* The rest of the getter of Value: renew the sliding deadline, return.    *)
Renew(t) ==
  /\ pc[t] = "renew"
  /\ heap' = [heap EXCEPT ![Held(t)] = UpdateSliding(@, now)]
  /\ IF call[t].op \in {"GetDictionary", "DelDictionary"}
     THEN Answer(t, "OK", heap[Held(t)].value)
     ELSE Goto(t, "found") /\ UNCHANGED <<call, local, reply>>
  /\ UNCHANGED <<now, dict, made, broken>>

(* The caller has the set object itself.  Adding to it, removing from it   *)
(* and serializing it are walks over shared memory without a lock.         *)
BeginWalk(t) ==
  /\ pc[t] = "found"
  /\ seen' = [seen EXCEPT ![t] = heap[Held(t)].value]
  /\ Goto(t, "walk")
  /\ UNCHANGED <<now, dict, heap, made, call, hit, broken, todo, reply>>

(* What unsynchronised walkers can leave or see: the members none of them  *)
(* touched are sure, the others may be there or not.                       *)
Between(a, b) == {s \in SUBSET (a \cup b) : a \cap b \subseteq s}

(* A member was added: the serializers that enumerate the set notice, they *)
(* would not notice a removal.                                             *)
Enumerators(r) ==
  {u \in Threads : pc[u] = "walk" /\ call[u].op = "GetHashSet" /\ Held(u) = r}

Change(r, after) ==
  /\ heap' = [heap EXCEPT ![r].value = after]
  /\ broken' = IF after \subseteq heap[r].value
               THEN broken
               ELSE broken \cup Enumerators(r)

(* A walk disturbed by another may corrupt its buckets and throw.          *)
WalkOutcomes(t) ==
  IF heap[Held(t)].value = seen[t] THEN {"OK"} ELSE {"OK", "Failed"}

(* Mutant of EndAdd: it puts the set it changed back into the dictionary.  *)
EndAddPutsBack(t) ==
  /\ pc[t] = "walk"
  /\ call[t].op = "SetHashSet"
  /\ \E s \in Between(seen[t], heap[Held(t)].value), status \in WalkOutcomes(t) :
       /\ Change(Held(t), IF status = "OK" THEN s \cup {call[t].value} ELSE s)
       /\ Answer(t, status, null)
  /\ dict' = [dict EXCEPT ![HeldKey(t)] = Held(t)]
  /\ UNCHANGED <<now, made>>

EndAdd(t) ==
  /\ pc[t] = "walk"
  /\ call[t].op = "SetHashSet"
  /\ \E s \in Between(seen[t], heap[Held(t)].value), status \in WalkOutcomes(t) :
       /\ Change(Held(t), IF status = "OK" THEN s \cup {call[t].value} ELSE s)
       /\ Answer(t, status, null)
  /\ UNCHANGED <<now, dict, made>>

EndRemove(t) ==
  /\ pc[t] = "walk"
  /\ call[t].op = "DelHashSet"
  /\ \E s \in Between(seen[t], heap[Held(t)].value), status \in WalkOutcomes(t) :
       /\ Change(Held(t), IF status = "OK" THEN s \ {call[t].value} ELSE s)
       /\ Answer(t, status, null)
  /\ UNCHANGED <<now, dict, made>>

EndSerialize(t) ==
  /\ pc[t] = "walk"
  /\ call[t].op = "GetHashSet"
  /\ t \notin broken
  /\ \E s \in Between(seen[t], heap[Held(t)].value) : Answer(t, "OK", s)
  /\ UNCHANGED <<now, dict, heap, made, broken>>

(* Mutant of SerializeFails: the exception is swallowed.                   *)
SerializeSwallows(t) ==
  /\ pc[t] = "walk"
  /\ call[t].op = "GetHashSet"
  /\ t \in broken
  /\ Answer(t, "OK", {})
  /\ broken' = broken \ {t}
  /\ UNCHANGED <<now, dict, heap, made>>

(* The enumerator throws: the collection was modified.                     *)
SerializeFails(t) ==
  /\ pc[t] = "walk"
  /\ call[t].op = "GetHashSet"
  /\ t \in broken
  /\ Answer(t, "Failed", null)
  /\ broken' = broken \ {t}
  /\ UNCHANGED <<now, dict, heap, made>>

RemoveEntry(t) ==
  /\ pc[t] = "removeEntry"
  /\ dict' = [dict EXCEPT ![call[t].key] = null]
  /\ Answer(t, "OK", null)
  /\ UNCHANGED <<now, heap, made, broken>>

ClearAll(t) ==
  /\ pc[t] = "clearAll"
  /\ dict' = [k \in Keys |-> null]
  /\ Answer(t, "OK", null)
  /\ UNCHANGED <<now, heap, made, broken>>

(* Mutant of Listed: the lists forget the type of the key.                 *)
ListedAnyType(c) ==
  LET stored == {k \in Keys : dict[k] # null}
  IN  IF c.op \in KeyLists
      THEN {k \in stored : k.Namespace = c.nameSpace}
      ELSE {k.Namespace : k \in stored}

(* Keys and Namespaces: the dictionary's Keys are a snapshot.              *)
Listed(c) ==
  LET keyType == IF c.op \in {"ListDictionary", "ListDictionaryNamespaces"}
                 THEN "Set" ELSE "HashSet"
      stored  == {k \in KeysOf(keyType) : dict[k] # null}
  IN  IF c.op \in KeyLists
      THEN {k \in stored : k.Namespace = c.nameSpace}
      ELSE {k.Namespace : k \in stored}

ListKeys(t) ==
  /\ pc[t] = "list"
  /\ Answer(t, "OK", Listed(call[t]))
  /\ UNCHANGED <<now, dict, heap, made, broken>>

(* Clear and CleanExpired enumerate the dictionary, in no known order and  *)
(* without a snapshot, and keep what their Where clause selects.           *)
Selects(t, k) ==
  /\ dict[k] # null
  /\ IF call[t].op = "Clear"
     THEN k.Namespace = call[t].nameSpace
     ELSE MayBeExpired(t, dict[k])

Skips(t, k) ==
  dict[k] # null =>
    IF call[t].op = "Clear"
    THEN k.Namespace # call[t].nameSpace
    ELSE ~Expired(heap[dict[k]], now)

SweepNext(t, k) ==
  /\ pc[t] = "sweep"
  /\ k \in todo[t]
  /\ todo' = [todo EXCEPT ![t] = @ \ {k}]
  /\ \/ Selects(t, k) /\ Hold(t, k) /\ Goto(t, "evict")
     \/ Skips(t, k) /\ UNCHANGED <<hit, pc>>
  /\ UNCHANGED <<now, dict, heap, made, call, seen, broken, reply>>

(* Mutants of Evict: it removes by key; it removes nothing; it stops the   *)
(* enumeration when it fails; it starts the enumeration again.             *)
EvictAnyEntry(t) ==
  /\ pc[t] = "evict"
  /\ dict' = [dict EXCEPT ![HeldKey(t)] = null]
  /\ hit' = [hit EXCEPT ![t] = null]
  /\ Goto(t, "sweep")
  /\ UNCHANGED <<now, heap, made, call, seen, broken, todo, reply>>

EvictNothing(t) ==
  /\ pc[t] = "evict"
  /\ hit' = [hit EXCEPT ![t] = null]
  /\ Goto(t, "sweep")
  /\ UNCHANGED <<now, dict, heap, made, call, seen, broken, todo, reply>>

EvictGivesUp(t) ==
  /\ pc[t] = "evict"
  /\ IF dict[HeldKey(t)] = Held(t)
     THEN dict' = [dict EXCEPT ![HeldKey(t)] = null] /\ UNCHANGED todo
     ELSE todo' = [todo EXCEPT ![t] = {}] /\ UNCHANGED dict
  /\ hit' = [hit EXCEPT ![t] = null]
  /\ Goto(t, "sweep")
  /\ UNCHANGED <<now, heap, made, call, seen, broken, reply>>

EvictRestarts(t) ==
  /\ pc[t] = "evict"
  /\ IF dict[HeldKey(t)] = Held(t)
     THEN dict' = [dict EXCEPT ![HeldKey(t)] = null] /\ UNCHANGED todo
     ELSE todo' = [todo EXCEPT ![t] = Keys] /\ UNCHANGED dict
  /\ hit' = [hit EXCEPT ![t] = null]
  /\ Goto(t, "sweep")
  /\ UNCHANGED <<now, heap, made, call, seen, broken, reply>>

(* TryRemove of a pair: only if the key still has that very entry.         *)
Evict(t) ==
  /\ pc[t] = "evict"
  /\ dict' = IF dict[HeldKey(t)] = Held(t)
             THEN [dict EXCEPT ![HeldKey(t)] = null]
             ELSE dict
  /\ hit' = [hit EXCEPT ![t] = null]
  /\ Goto(t, "sweep")
  /\ UNCHANGED <<now, heap, made, call, seen, broken, todo, reply>>

SweepEnd(t) ==
  /\ pc[t] = "sweep"
  /\ todo[t] = {}
  /\ Answer(t, "OK", null)
  /\ UNCHANGED <<now, dict, heap, made, broken>>

-----------------------------------------------------------------------------
Step(t) ==
  \/ Peek(t)
  \/ AddOrUpdate(t)
  \/ Overtaken(t)
  \/ LookupMiss(t)
  \/ LookupHit(t)
  \/ RemoveMiss(t)
  \/ RemoveHit(t)
  \/ CheckExpired(t)
  \/ CheckLive(t)
  \/ Renew(t)
  \/ BeginWalk(t)
  \/ EndAdd(t)
  \/ EndRemove(t)
  \/ EndSerialize(t)
  \/ SerializeFails(t)
  \/ RemoveEntry(t)
  \/ ListKeys(t)
  \/ ClearAll(t)
  \/ \E k \in Keys : SweepNext(t, k)
  \/ Evict(t)
  \/ SweepEnd(t)

Calls(t) == \E c \in Requests : Invoke(t, c)

Next == Tick \/ \E t \in Threads : Calls(t) \/ Step(t)

Spec == Init /\ [][Next]_vars

-----------------------------------------------------------------------------
(* Properties.                                                             *)

(* Which labels a call can be at.                                          *)
LabelsOf(op) ==
  CASE op = "SetDictionary" -> {"set", "add", "update"}
    [] op = "GetDictionary" -> {"lookup", "check", "renew"}
    [] op = "DelDictionary" -> {"remove", "check", "renew"}
    [] op = "SetHashSet"    ->
         {"lookup", "check", "renew", "set", "add", "update", "found", "walk"}
    [] op \in {"GetHashSet", "DelHashSet"} ->
         {"lookup", "check", "renew", "found", "walk"}
    [] op = "RemoveHashSet" -> {"removeEntry"}
    [] op \in Lists         -> {"list"}
    [] op = "ClearAll"      -> {"clearAll"}
    [] OTHER                -> {"sweep", "evict"}

Holding == {"update", "check", "renew", "found", "walk", "evict"}

(* The type invariant, with the control state that goes with the types: an *)
(* idle thread has no request, a thread at a label serves an operation     *)
(* that gets there, it has a pair in hand exactly where the code does, and *)
(* for its own key.                                                        *)
SharedTypes ==
  /\ now \in 0 .. MaxTime
  /\ dict \in [Keys -> Refs \cup {null}]
  /\ heap \in [Refs -> EntriesOf(Contents)]
  /\ made \in [Threads -> 0 .. MaxEntries]
  /\ broken \subseteq Threads

LocalTypes ==
  /\ pc \in [Threads -> Labels]
  /\ call \in [Threads -> Requests \cup {null}]
  /\ hit \in [Threads -> [key : Keys, entry : Refs] \cup {null}]
  /\ seen \in [Threads -> SUBSET Values]
  /\ todo \in [Threads -> SUBSET Keys]

Control(t) ==
  /\ pc[t] = "idle" <=> call[t] = null
  /\ pc[t] # "idle" => pc[t] \in LabelsOf(call[t].op)
  /\ pc[t] \in Holding <=> hit[t] # null
  /\ hit[t] # null /\ call[t].op \notin Sweeps => HeldKey(t) = call[t].key
  /\ pc[t] # "idle" /\ call[t].op \in Setters => made[t] < MaxEntries

TypeOK == SharedTypes /\ LocalTypes /\ \A t \in Threads : Control(t)

(* Every entry a key has, or that a call got under a key, was stored with  *)
(* what the key's type stands for: the casts of Get<string> and of         *)
(* Get<HashSet<string>> on an object? value never fail.                    *)
CastsSucceed ==
  /\ \A k \in Keys : dict[k] # null =>
       heap[dict[k]].value \in ContentsOf(k.KeyType)
  /\ \A t \in Threads : hit[t] # null =>
       heap[Held(t)].value \in ContentsOf(HeldKey(t).KeyType)

Deleting(t) == pc[t] \in {"check", "renew"} /\ call[t].op = "DelDictionary"

(* DelDictionary takes the entry out in one atomic access: while it reads  *)
(* the value, the entry is in the dictionary no more, and no other         *)
(* DelDictionary has it.  Whoever is told the value owns its removal.      *)
DeletedOnce ==
  \A t \in Threads : Deleting(t) =>
    /\ \A k \in Keys : dict[k] # Held(t)
    /\ \A u \in Threads \ {t} : Deleting(u) => Held(u) # Held(t)

(* A sweep acts on a pair it read some time ago.  What it takes out of the *)
(* dictionary is still a pair its Where clause could select: Clear touches *)
(* its own name space only, and CleanExpired never takes an entry a client *)
(* stored meanwhile, unless its absolute deadline has passed or it has a   *)
(* sliding one.                                                            *)
EvictsOnlySelected ==
  [][\A t \in Threads, k \in Keys :
       (Evict(t) /\ dict[k] # null /\ dict'[k] = null) =>
         \/ call[t].op = "Clear" /\ k.Namespace = call[t].nameSpace
         \/ call[t].op = "CleanExpired" /\ PastAbsolute(heap[dict[k]], now)
         \/ call[t].op = "CleanExpired" /\ heap[dict[k]].sliding # null]_vars

(* The doc of CleanExpired: it cleans expired entries.  What it takes out  *)
(* would be expired when it is taken out.                                  *)
EvictsOnlyExpired ==
  [][\A t \in Threads, k \in Keys :
       (Evict(t) /\ call[t].op = "CleanExpired" /\ dict[k] # null /\ dict'[k] = null)
         => Expired(heap[dict[k]], now)]_vars

=============================================================================
