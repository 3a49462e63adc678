---------------------------- MODULE HashSetProofs ----------------------------
(***************************************************************************)
(* Theorems about HashSetHistory: with one thread that adds and removes    *)
(* members of hash sets, and entries that do not expire, no acknowledged   *)
(* member is lost and none that was taken away comes back, for the cache   *)
(* and for its readers, whatever else the other threads do: they may take  *)
(* whole sets out in every way there is, under the feet of that thread.    *)
(***************************************************************************)
EXTENDS HashSetHistory, ReCacheProviderProofs

USE DEF Goto, Reply, Held, HeldKey, Hold

Changers == {"SetHashSet", "DelHashSet"}

(* The thread writer is the only one that adds members and removes them.   *)
OneWriter(writer) ==
  /\ AbsoluteTimes = {}
  /\ SlidingSpans = {}
  /\ \A t \in Threads \ {writer} : Serves[t] \cap Changers = {}

HashSetKeys == KeysOf("HashSet")

-----------------------------------------------------------------------------
(* The invariant, in parts.                                                *)

(* An entry stays with its key: who got it under one key does not find it  *)
(* under another one later, nor does anybody else hold it under another.   *)
PairsMatch ==
  /\ \A t \in Threads, k \in Keys : hit[t] # null /\ dict[k] = Held(t) => k = HeldKey(t)
  /\ \A t, u \in Threads :
       hit[t] # null /\ hit[u] # null /\ Held(t) = Held(u) => HeldKey(t) = HeldKey(u)

HistoryTypes ==
  /\ undisputed \in [Threads -> [Keys -> SUBSET Values]]
  /\ acked \in [Keys -> SUBSET Values]
  /\ \A k \in Keys : k.KeyType # "HashSet" => acked[k] = {}
  /\ stable \in [Threads -> SUBSET Values]
  /\ gone \in [Keys -> SUBSET Values]
  /\ lacking \in [Threads -> SUBSET Values]
  /\ DOMAIN reply = Threads

(* Nobody relies on what a client is taking away, nobody is rid of what a  *)
(* client is storing, and no call decides what a contrary one is about.    *)
DisputesOK ==
  /\ \A t \in Threads, k \in Keys :
       /\ undisputed[t][k] \subseteq About(t, k)
       /\ undisputed[t][k] \cap Contrary(t, k) = {}
  /\ \A k \in Keys : acked[k] \cap InProgress(Takes, k) = {}
  /\ \A k \in Keys : gone[k] \cap InProgress(Stores, k) = {}

ServesOK == \A t \in Threads : call[t] # null => call[t].op \in Serves[t]

(* What a call that changes the set of its key knows of it: it is still    *)
(* that set, or the key has none any more, and then whoever took it out    *)
(* disputes what is added to it.                                           *)
Changing(t) == call[t] # null /\ call[t].op \in Changers

WriterOK ==
  \A t \in Threads : Changing(t) =>
    /\ pc[t] \in {"check", "renew", "found", "walk"} =>
         \/ dict[call[t].key] = Held(t)
         \/ /\ dict[call[t].key] = null
            /\ call[t].op = "SetHashSet" => undisputed[t][call[t].key] = {}
    /\ pc[t] = "walk" => heap[Held(t)].value = seen[t]
    /\ pc[t] \in {"set", "add"} => dict[call[t].key] = null
    /\ pc[t] # "update"

(* What a reader relies on is in the set it holds, and in what it has      *)
(* begun to serialize.                                                     *)
Reading(t) == call[t] # null /\ call[t].op = "GetHashSet"

ReaderOK ==
  \A t \in Threads : Reading(t) /\ stable[t] # {} =>
    /\ stable[t] \subseteq acked[call[t].key]
    /\ pc[t] \in {"check", "renew", "found", "walk"} => dict[call[t].key] = Held(t)
    /\ pc[t] = "walk" => stable[t] \subseteq seen[t]

HashSetInv ==
  HistoryTypes /\ DisputesOK /\ ServesOK /\ WriterOK /\ ReaderOK /\ AcknowledgedStay

-----------------------------------------------------------------------------
(* A pair somebody has in hand was in the dictionary when it was taken.    *)
LEMMA HitSource ==
  ASSUME TypeInv, NEW t \in Threads, Step(t) \/ Calls(t), NEW u \in Threads, hit'[u] # null
  PROVE  \/ hit'[u] = hit[u]
         \/ /\ UNCHANGED heap /\ ~AddOrUpdate(t)
            /\ \E k \in Keys : dict[k] # null /\ hit'[u] = [key |-> k, entry |-> dict[k]]
<1>1. /\ TypeOK /\ hit \in [Threads -> [key : Keys, entry : Refs] \cup {null}]
  BY DEF TypeInv, TypeOK, LocalTypes
<1>2. CASE \E status, data : Answer(t, status, data)
  BY <1>1, <1>2 DEF Answer
<1>3. CASE LookupHit(t) \/ RemoveHit(t) \/ (Peek(t) /\ dict[call[t].key] # null)
  <2>1. /\ hit' = [hit EXCEPT ![t] = [key |-> call[t].key, entry |-> dict[call[t].key]]]
        /\ dict[call[t].key] # null /\ UNCHANGED heap
        /\ pc[t] \in {"lookup", "remove", "set"}
    BY <1>3 DEF LookupHit, RemoveHit, Peek
  <2>2. call[t].key \in Keys
    BY <1>1, <2>1, AtLabel, RequestTypes DEF LabelsOf, Lists, KeyLists, Operations
  <2> QED
    BY <1>1, <2>1, <2>2 DEF AddOrUpdate
<1>4. CASE \E k \in Keys : SweepNext(t, k)
  <2>1. PICK k \in Keys : SweepNext(t, k)
    BY <1>4
  <2>2. UNCHANGED heap /\ ~AddOrUpdate(t)
    BY <2>1 DEF SweepNext, AddOrUpdate
  <2>3. CASE UNCHANGED hit
    BY <2>3
  <2>4. CASE Selects(t, k) /\ Hold(t, k)
    BY <1>1, <2>2, <2>4 DEF Selects
  <2> QED
    BY <2>1, <2>3, <2>4 DEF SweepNext
<1>5. CASE UNCHANGED hit
  BY <1>5
<1>6. CASE \E v \in Threads : hit' = [hit EXCEPT ![v] = null]
  BY <1>1, <1>6
<1>7. \/ \E status, data : Answer(t, status, data)
      \/ LookupHit(t) \/ RemoveHit(t) \/ \E k \in Keys : SweepNext(t, k)
      \/ Peek(t) /\ dict[call[t].key] # null
      \/ UNCHANGED hit \/ \E v \in Threads : hit' = [hit EXCEPT ![v] = null]
  <2>1. LookupMiss(t) \/ RemoveMiss(t) \/ CheckExpired(t) =>
          \/ hit' = [hit EXCEPT ![t] = null]
          \/ \E status, data : Answer(t, status, data)
    BY DEF LookupMiss, RemoveMiss, CheckExpired, GotNull
  <2>2. Renew(t) => UNCHANGED hit \/ \E status, data : Answer(t, status, data)
    BY DEF Renew, local
  <2>3. AddOrUpdate(t) \/ EndAdd(t) \/ EndRemove(t) \/ EndSerialize(t) \/ SerializeFails(t)
          \/ RemoveEntry(t) \/ ListKeys(t) \/ ClearAll(t) \/ SweepEnd(t)
          => \E status, data : Answer(t, status, data)
    BY DEF AddOrUpdate, EndAdd, EndRemove, EndSerialize, SerializeFails, RemoveEntry,
       ListKeys, ClearAll, SweepEnd
  <2>4. Calls(t) \/ CheckLive(t) \/ BeginWalk(t) => UNCHANGED hit
    BY DEF Calls, Invoke, CheckLive, BeginWalk, local
  <2>5. Evict(t) \/ Overtaken(t) => hit' = [hit EXCEPT ![t] = null]
    BY DEF Evict, Overtaken
  <2>6. Peek(t) => UNCHANGED hit \/ dict[call[t].key] # null
    BY DEF Peek
  <2> QED
    BY <2>1, <2>2, <2>3, <2>4, <2>5, <2>6 DEF Step
<1> QED
  BY <1>2, <1>3, <1>4, <1>5, <1>6, <1>7

LEMMA StepPairsMatch ==
  ASSUME TypeInv, DeleteInv, PairsMatch, NEW t \in Threads, Step(t) \/ Calls(t)
  PROVE  PairsMatch'
<1>1. ASSUME NEW u \in Threads, NEW k \in Keys, hit'[u] # null, dict'[k] = hit'[u].entry
      PROVE  k = hit'[u].key
  <2>1. /\ dict \in [Keys -> Refs \cup {null}] /\ made \in [Threads -> 0 .. MaxEntries]
        /\ hit'[u].entry # null
    <3>1. hit'[u] \in [key : Keys, entry : Refs]
      BY <1>1, NextTypes DEF Next, TypeInv, TypeOK, LocalTypes
    <3> QED
      BY <3>1, ProviderAssumption DEF TypeInv, TypeOK, SharedTypes
  <2>2. CASE ~AddOrUpdate(t)
    <3>1. dict'[k] = dict[k] /\ dict[k] # null
      BY <1>1, <2>1, <2>2, OnlySetAdds
    <3>2. CASE hit'[u] = hit[u]
      BY <1>1, <3>1, <3>2 DEF PairsMatch
    <3>3. ASSUME NEW j \in Keys, dict[j] # null, hit'[u] = [key |-> j, entry |-> dict[j]]
          PROVE  k = hit'[u].key
      <4>1. hit'[u].key = j /\ hit'[u].entry = dict[j]
        BY <3>3
      <4>2. dict[k] = dict[j]
        BY <1>1, <3>1, <4>1
      <4> QED
        BY <3>1, <4>1, <4>2 DEF DeleteInv, DictInjective
    <3> QED
      BY <1>1, <3>2, <3>3, HitSource
  <2>3. CASE AddOrUpdate(t)
    <3>1. hit'[u] = hit[u]
      BY <1>1, <2>3, HitSource
    <3>2. Born(Held(u)) /\ Held(u) \in Refs
      BY <1>1, <3>1 DEF TypeInv, TypeOK, LocalTypes, EntriesBorn
    <3>3. Held(u) # <<t, made[t] + 1>>
      BY <2>1, <3>2, ProviderAssumption DEF Born
    <3>4. dict'[k] = dict[k]
      BY <1>1, <2>1, <2>3, <3>1, <3>3 DEF AddOrUpdate
    <3> QED
      BY <1>1, <3>1, <3>4 DEF PairsMatch
  <2> QED
    BY <2>2, <2>3
<1>2. ASSUME NEW u \in Threads, NEW v \in Threads, hit'[u] # null, hit'[v] # null,
             hit'[u].entry = hit'[v].entry
      PROVE  hit'[u].key = hit'[v].key
  <2> DEFINE New(w) ==
        \E k \in Keys : dict[k] # null /\ hit'[w] = [key |-> k, entry |-> dict[k]]
  <2>1. (hit'[u] = hit[u] \/ New(u)) /\ (hit'[v] = hit[v] \/ New(v))
    BY <1>2, HitSource
  <2>2. CASE hit'[u] = hit[u] /\ hit'[v] = hit[v]
    BY <1>2, <2>2 DEF PairsMatch
  <2>3. CASE hit'[u] = hit[u] /\ New(v)
    BY <1>2, <2>3 DEF PairsMatch
  <2>4. CASE New(u) /\ hit'[v] = hit[v]
    BY <1>2, <2>4 DEF PairsMatch
  <2>5. CASE New(u) /\ New(v)
    BY <1>2, <2>5 DEF DeleteInv, DictInjective
  <2> QED
    BY <2>1, <2>2, <2>3, <2>4, <2>5
<1> QED
  BY <1>1, <1>2 DEF PairsMatch

LEMMA NextPairsMatch ==
  ASSUME TypeInv, DeleteInv, PairsMatch, [Next]_vars PROVE PairsMatch'
<1>1. CASE UNCHANGED <<dict, hit>>
  BY <1>1 DEF PairsMatch
<1>2. Tick \/ UNCHANGED vars => UNCHANGED <<dict, hit>>
  BY DEF Tick, vars, local
<1> QED
  BY <1>1, <1>2, StepPairsMatch DEF Next

LEMMA HistoryWatches ==
  /\ HInit => Init
  /\ [HNext]_<<vars, history>> => [Next]_vars
  BY DEF HInit, HNext, history

LEMMA HInvariants == HSpec => [](TypeInv /\ DeleteInv /\ EvictInv /\ PairsMatch)
<1>1. HInit => TypeInv /\ DeleteInv /\ EvictInv /\ PairsMatch
  <2>1. Init => PairsMatch
    BY DEF Init, PairsMatch
  <2> QED
    BY <2>1, HistoryWatches, InitTypes, InitDelete, InitEvict
<1>2. /\ TypeInv /\ DeleteInv /\ EvictInv /\ PairsMatch
      /\ [HNext]_<<vars, history>>
      => TypeInv' /\ DeleteInv' /\ EvictInv' /\ PairsMatch'
  BY HistoryWatches, NextTypes, NextDelete, NextEvict, NextPairsMatch
<1> QED
  BY <1>1, <1>2, PTL DEF HSpec

-----------------------------------------------------------------------------
(* Without deadlines nothing expires, and no cleaning takes anything out.  *)

LEMMA NothingExpires ==
  ASSUME TypeInv, SlidingSet, AbsoluteTimes = {}, SlidingSpans = {},
         NEW t \in Threads, NEW r \in Refs
  PROVE  /\ ~MayBeExpired(t, r)
         /\ ~PastAbsolute(heap[r], now)
         /\ heap[r].sliding = null
<1>1. heap[r] \in EntriesOf(Contents)
  BY DEF TypeInv, TypeOK, SharedTypes
<1>2. heap[r].absolute = null /\ heap[r].sliding = null
  BY <1>1 DEF EntriesOf
<1>3. heap[r].slidingFromNow = null
  BY <1>2 DEF SlidingSet
<1> QED
  BY <1>2, <1>3 DEF MayBeExpired, Expired, PastAbsolute, PastSliding, HalfWritten

(* A call in progress: its request, and the operations that get there.     *)
LEMMA CallAt ==
  ASSUME TypeInv, ServesOK, NEW t \in Threads, pc[t] # "idle"
  PROVE  /\ call[t] \in Requests /\ call[t] # null
         /\ call[t].op \in Serves[t]
         /\ call[t].op \in Operations
         /\ pc[t] \in LabelsOf(call[t].op)
<1>1. call[t] \in Requests /\ pc[t] \in LabelsOf(call[t].op)
  BY AtLabel DEF TypeInv
<1> QED
  BY <1>1, RequestTypes DEF ServesOK

(* What happens to the set of a key that has one.                          *)
Untouched(k) ==
  dict'[k] = dict[k] /\ (dict[k] # null => heap'[dict[k]].value = heap[dict[k]].value)

(* Steps that leave the values of all entries alone.                       *)
LEMMA QuietValues ==
  ASSUME TypeInv, NEW t \in Threads, Step(t) \/ Calls(t),
         ~AddOrUpdate(t), ~EndAdd(t), ~EndRemove(t), NEW r \in Refs
  PROVE  heap'[r].value = heap[r].value
<1>1. /\ TypeOK /\ heap \in [Refs -> EntriesOf(Contents)] /\ heap[r] \in EntriesOf(Contents)
  BY DEF TypeInv, TypeOK, SharedTypes
<1>2. CASE Renew(t)
  <2>1. heap' = [heap EXCEPT ![Held(t)] = UpdateSliding(heap[Held(t)], now)]
    BY <1>2 DEF Renew
  <2> QED
    BY <1>1, <2>1 DEF UpdateSliding, EntriesOf
<1>3. CASE ~Renew(t)
  <2>1. CASE \E j \in Keys : SweepNext(t, j)
    BY <2>1 DEF SweepNext
  <2> QED
    BY <1>3, <2>1 DEF Step, Calls, Invoke, Peek, Overtaken, LookupMiss, LookupHit,
       RemoveMiss, RemoveHit, CheckExpired, CheckLive, BeginWalk, EndSerialize,
       SerializeFails, RemoveEntry, ListKeys, ClearAll, Evict, SweepEnd
<1> QED
  BY <1>2, <1>3

(* Steps that take nothing out.                                            *)
LEMMA QuietDict ==
  ASSUME TypeInv, NEW t \in Threads, Step(t) \/ Calls(t),
         ~AddOrUpdate(t), ~RemoveHit(t), ~RemoveEntry(t), ~ClearAll(t), ~Evict(t)
  PROVE  dict' = dict
<1>1. CASE \E j \in Keys : SweepNext(t, j)
  BY <1>1 DEF SweepNext
<1> QED
  BY <1>1 DEF Step, Calls, Invoke, Peek, Overtaken, LookupMiss, LookupHit, RemoveMiss,
     CheckExpired, CheckLive, Renew, BeginWalk, EndAdd, EndRemove, EndSerialize,
     SerializeFails, ListKeys, SweepEnd

(* A new entry is none that anybody can reach.                             *)
LEMMA NewIsFresh ==
  ASSUME TypeInv, NEW t \in Threads, AddOrUpdate(t), NEW r \in Refs, Born(r)
  PROVE  heap'[r] = heap[r]
<1>1. heap \in [Refs -> EntriesOf(Contents)] /\ made \in [Threads -> 0 .. MaxEntries]
  BY DEF TypeInv, TypeOK, SharedTypes
<1>2. r # <<t, made[t] + 1>>
  BY <1>1 DEF Born
<1> QED
  BY <1>1, <1>2 DEF AddOrUpdate

(* The writes to strings leave the hash sets alone.                        *)
LEMMA StringStepTouchesNone ==
  ASSUME TypeInv, ServesOK, NEW t \in Threads,
         (AddOrUpdate(t) /\ call[t].op # "SetHashSet") \/ RemoveHit(t),
         NEW k \in HashSetKeys
  PROVE  Untouched(k)
<1>1. /\ dict \in [Keys -> Refs \cup {null}] /\ k \in Keys /\ k.KeyType = "HashSet"
  BY DEF TypeInv, TypeOK, SharedTypes, HashSetKeys, KeysOf
<1>2. CASE RemoveHit(t)
  <2>1. call[t].op = "DelDictionary" /\ call[t].key.KeyType = "Set"
    BY <1>2, CallAt, RequestTypes DEF RemoveHit, LabelsOf, Lists, KeyLists, Operations
  <2> QED
    BY <1>1, <1>2, <2>1 DEF RemoveHit, Untouched
<1>3. CASE AddOrUpdate(t) /\ call[t].op # "SetHashSet"
  <2>1. call[t].op = "SetDictionary" /\ call[t].key.KeyType = "Set"
    BY <1>3, CallAt, RequestTypes DEF AddOrUpdate, LabelsOf, Lists, KeyLists, Operations
  <2>2. dict'[k] = dict[k]
    BY <1>1, <1>3, <2>1 DEF AddOrUpdate
  <2>3. ASSUME dict[k] # null PROVE heap'[dict[k]] = heap[dict[k]]
    BY <1>1, <1>3, <2>3, NewIsFresh DEF TypeInv, EntriesBorn
  <2> QED
    BY <2>2, <2>3 DEF Untouched
<1> QED
  BY <1>2, <1>3

(* A cleaning evicts nothing: only Clear does.                             *)
LEMMA OnlyClearEvicts ==
  ASSUME TypeInv, EvictInv, ServesOK, AbsoluteTimes = {}, SlidingSpans = {},
         NEW t \in Threads, pc[t] = "evict"
  PROVE  /\ call[t] # null /\ call[t].op = "Clear"
         /\ HeldKey(t) \in Keys /\ Held(t) \in Refs
         /\ HeldKey(t).Namespace = call[t].nameSpace
<1>1. /\ call[t] # null /\ call[t].op \in Serves[t]
      /\ HeldKey(t) \in Keys /\ Held(t) \in Refs
  BY CallAt, AtLabel DEF TypeInv, Holding
<1>2. Selected(t) /\ ~PastAbsolute(heap[Held(t)], now) /\ heap[Held(t)].sliding = null
  BY <1>1, NothingExpires DEF EvictInv
<1> QED
  BY <1>1, <1>2 DEF Selected

(* The step takes the whole set of the key out, for a call that says so.   *)
TakesOut(t, k) ==
  /\ dict'[k] = null /\ heap' = heap
  /\ Busy(t, Takes) /\ ~Busy(t, Stores) /\ About(t, k) = Values

LEMMA RemovalTakesOut ==
  ASSUME TypeInv, EvictInv, ServesOK, AbsoluteTimes = {}, SlidingSpans = {},
         NEW t \in Threads, RemoveEntry(t) \/ ClearAll(t) \/ Evict(t), NEW k \in HashSetKeys
  PROVE  Untouched(k) \/ TakesOut(t, k)
<1>1. /\ pc[t] # "idle" /\ heap' = heap /\ k \in Keys /\ dict \in [Keys -> Refs \cup {null}]
  BY DEF RemoveEntry, ClearAll, Evict, HashSetKeys, KeysOf, TypeInv, TypeOK, SharedTypes
<1>2. call[t] # null /\ pc[t] \in LabelsOf(call[t].op) /\ call[t].op \in Operations
  BY <1>1, CallAt
<1>3. CASE dict'[k] = dict[k]
  BY <1>1, <1>3 DEF Untouched
<1>4. CASE dict'[k] # dict[k]
  <2>1. CASE RemoveEntry(t)
    <3>1. call[t].op = "RemoveHashSet"
      BY <1>2, <2>1 DEF RemoveEntry, LabelsOf, Lists, KeyLists, Operations
    <3>2. call[t].key = k /\ dict'[k] = null
      BY <1>1, <1>4, <2>1 DEF RemoveEntry
    <3> QED
      BY <1>1, <1>2, <3>1, <3>2 DEF TakesOut, Busy, About, Takes, Stores
  <2>2. CASE ClearAll(t)
    <3>1. call[t].op = "ClearAll" /\ dict'[k] = null
      BY <1>1, <1>2, <2>2 DEF ClearAll, LabelsOf, Lists, KeyLists, Operations
    <3> QED
      BY <1>1, <1>2, <3>1 DEF TakesOut, Busy, About, Takes, Stores
  <2>3. CASE Evict(t)
    <3>1. call[t].op = "Clear" /\ HeldKey(t).Namespace = call[t].nameSpace
      BY <2>3, OnlyClearEvicts DEF Evict
    <3>2. k = HeldKey(t) /\ dict'[k] = null
      BY <1>1, <1>4, <2>3 DEF Evict
    <3> QED
      BY <1>1, <1>2, <3>1, <3>2 DEF TakesOut, Busy, About, Takes, Stores
  <2> QED
    BY <2>1, <2>2, <2>3
<1> QED
  BY <1>3, <1>4

-----------------------------------------------------------------------------
(* What the history does, from step to step.                               *)

LEMMA AboutTypes ==
  ASSUME NEW t \in Threads, NEW k \in Keys
  PROVE  /\ call[t] \in Requests \cup {null} => About(t, k) \subseteq Values
         /\ call'[t] \in Requests \cup {null} => About(t, k)' \subseteq Values
         /\ Busy(t, Stores) =>
              About(t, k) = IF call[t].key = k THEN {call[t].value} ELSE {}
         /\ Busy(t, {"DelHashSet"}) =>
              About(t, k) = IF call[t].key = k THEN {call[t].value} ELSE {}
         /\ call[t] = null => About(t, k) = {}
         /\ (call[t] = null)' => About(t, k)' = {}
<1>1. ASSUME call[t] \in Requests \cup {null} PROVE About(t, k) \subseteq Values
  <2>1. Busy(t, {"SetHashSet", "DelHashSet"}) => call[t].value \in Values
    BY <1>1, RequestTypes DEF Busy
  <2> QED
    BY <2>1 DEF About
<1>2. ASSUME call'[t] \in Requests \cup {null} PROVE About(t, k)' \subseteq Values
  <2>1. Busy(t, {"SetHashSet", "DelHashSet"})' => call'[t].value \in Values
    BY <1>2, RequestTypes DEF Busy
  <2> QED
    BY <2>1 DEF About
<1>3. Busy(t, Stores) => About(t, k) = IF call[t].key = k THEN {call[t].value} ELSE {}
  BY DEF About, Busy, Stores
<1>4. Busy(t, {"DelHashSet"}) => About(t, k) = IF call[t].key = k THEN {call[t].value} ELSE {}
  BY DEF About, Busy
<1>5. (call[t] = null => About(t, k) = {}) /\ ((call[t] = null)' => About(t, k)' = {})
  BY DEF About, Busy
<1> QED
  BY <1>1, <1>2, <1>3, <1>4, <1>5

LEMMA NextDisputes == ASSUME Watch PROVE DisputesOK'
<1>1. \A t \in Threads, k \in Keys :
        /\ undisputed'[t][k] \subseteq About(t, k)'
        /\ undisputed'[t][k] \cap Contrary(t, k)' = {}
  BY DEF Watch
<1>2. \A k \in Keys : /\ acked'[k] \cap InProgress(Takes, k)' = {}
                      /\ gone'[k] \cap InProgress(Stores, k)' = {}
  BY DEF Watch
<1> QED
  BY <1>1, <1>2 DEF DisputesOK

(* A call in progress settles no more than it could before; what clients   *)
(* rely on or are rid of comes from what they did, and from what is        *)
(* decided in the step.                                                    *)
LEMMA HistoryNext ==
  ASSUME Watch, NEW k \in Keys
  PROVE  /\ \A t \in Threads : call[t] # null => undisputed'[t][k] \subseteq undisputed[t][k]
         /\ acked'[k] \subseteq acked[k] \cup Decided(Stores, k)
         /\ gone'[k] \subseteq gone[k] \cup Decided(Takes, k)
<1>1. \A t \in Threads : undisputed'[t][k] =
        (IF call[t] = null THEN About(t, k)' ELSE About(t, k)' \cap undisputed[t][k])
          \ Contrary(t, k)'
  BY DEF Watch
<1>2. /\ acked'[k] = (acked[k] \cup Decided(Stores, k)) \ InProgress(Takes, k)'
      /\ gone'[k] = (gone[k] \cup Decided(Takes, k)) \ InProgress(Stores, k)'
  BY DEF Watch
<1> QED
  BY <1>1, <1>2

(* Only the thread that takes a step decides anything.                     *)
LEMMA DecidedNext ==
  ASSUME TypeInv, NEW t \in Threads, Step(t) \/ Calls(t), NEW ops, NEW k
  PROVE  Decided(ops, k) = IF Busy(t, ops) /\ call'[t] = null /\ reply'[t].status = "OK"
                           THEN undisputed[t][k] ELSE {}
<1> DEFINE Ends(u) == Busy(u, ops) /\ call'[u] = null /\ reply'[u].status = "OK"
           Enders == {u \in Threads : Ends(u)}
<1>1. \A u \in Threads \ {t} : ~Ends(u)
  BY OthersStay DEF Busy
<1>2. Enders = IF Ends(t) THEN {t} ELSE {}
  BY <1>1
<1>3. Decided(ops, k) = UNION {undisputed[u][k] : u \in Enders}
  BY DEF Decided
<1> HIDE DEF Enders
<1>4. CASE Ends(t)
  BY <1>2, <1>3, <1>4
<1>5. CASE ~Ends(t)
  BY <1>2, <1>3, <1>5
<1> QED
  BY <1>4, <1>5

LEMMA TickDecides ==
  ASSUME UNCHANGED call, NEW ops, NEW k PROVE Decided(ops, k) = {}
  BY DEF Decided, Busy

LEMMA NextReply ==
  ASSUME DOMAIN reply = Threads, NEW t \in Threads, Step(t) \/ Calls(t)
  PROVE  DOMAIN reply' = Threads
<1>1. CASE \E status, data : Answer(t, status, data)
  BY <1>1 DEF Answer
<1>2. CASE UNCHANGED reply
  BY <1>2
<1>3. CASE Calls(t)
  BY <1>3 DEF Calls, Invoke
<1>4. CASE GotNull(t)
  BY <1>1, <1>2, <1>4 DEF GotNull
<1>5. CASE Renew(t)
  BY <1>1, <1>2, <1>5 DEF Renew
<1>6. CASE \E k \in Keys : SweepNext(t, k)
  BY <1>6 DEF SweepNext
<1> QED
  BY <1>1, <1>2, <1>3, <1>4, <1>5, <1>6
  DEF Step, Peek, AddOrUpdate, Overtaken, LookupMiss, LookupHit, RemoveMiss, RemoveHit,
      CheckExpired, CheckLive, BeginWalk, EndAdd, EndRemove, EndSerialize, SerializeFails,
      RemoveEntry, ListKeys, ClearAll, Evict, SweepEnd

LEMMA RequestKey ==
  ASSUME NEW c \in Requests
  PROVE  c.key # null => c.key \in Keys
  BY DEF Requests, StoreRequests, KeyRequests, KeysOf, Request

LEMMA NextHistoryTypes ==
  ASSUME TypeInv, HistoryTypes, DisputesOK, Next, Watch
  PROVE  HistoryTypes'
<1>1. /\ call' \in [Threads -> Requests \cup {null}]
      /\ \A u \in Threads : call[u] \in Requests \cup {null}
  BY NextTypes DEF TypeInv, TypeOK, LocalTypes
<1>2. undisputed' \in [Threads -> [Keys -> SUBSET Values]]
  <2>1. \A u \in Threads, k \in Keys : undisputed'[u][k] \subseteq Values
    BY <1>1, AboutTypes, NextDisputes DEF DisputesOK
  <2>2. undisputed' = [u \in Threads |-> [k \in Keys |-> undisputed'[u][k]]]
    BY DEF Watch
  <2> QED
    BY <2>1, <2>2
<1>3. ASSUME NEW k \in Keys
      PROVE  /\ acked'[k] \in SUBSET Values
             /\ gone'[k] \in SUBSET Values
             /\ k.KeyType # "HashSet" => acked'[k] = {}
  <2>1. \A ops : Decided(ops, k) \subseteq Values
    BY DEF Decided, HistoryTypes
  <2>2. ASSUME k.KeyType # "HashSet" PROVE Decided(Stores, k) = {}
    <3>1. ASSUME NEW u \in Threads, Busy(u, Stores) PROVE undisputed[u][k] = {}
      <4>1. call[u].key # k
        BY <1>1, <2>2, <3>1, RequestTypes DEF Busy, Stores
      <4> QED
        BY <3>1, <4>1, AboutTypes DEF DisputesOK
    <3> QED
      BY <3>1 DEF Decided
  <2> QED
    BY <2>1, <2>2, HistoryNext DEF HistoryTypes
<1>4. /\ acked' = [k \in Keys |-> acked'[k]] /\ gone' = [k \in Keys |-> gone'[k]]
      /\ stable' = [u \in Threads |-> stable'[u]] /\ lacking' = [u \in Threads |-> lacking'[u]]
  BY DEF Watch
<1>5. ASSUME NEW u \in Threads
      PROVE  stable'[u] \in SUBSET Values /\ lacking'[u] \in SUBSET Values
  <2>1. /\ \/ stable'[u] = {}
           \/ stable'[u] \subseteq stable[u]
           \/ call'[u] # null /\ call'[u].key # null /\ stable'[u] = acked'[call'[u].key]
        /\ \/ lacking'[u] = {}
           \/ lacking'[u] \subseteq lacking[u]
           \/ call'[u] # null /\ call'[u].key # null /\ lacking'[u] = gone'[call'[u].key]
    BY DEF Watch
  <2>2. call'[u] # null /\ call'[u].key # null => call'[u].key \in Keys
    BY <1>1, RequestKey
  <2> QED
    BY <1>3, <2>1, <2>2 DEF HistoryTypes
<1>6. DOMAIN reply' = Threads
  <2>1. Tick => UNCHANGED reply
    BY DEF Tick
  <2> QED
    BY <2>1, NextReply DEF Next, HistoryTypes
<1> QED
  BY <1>2, <1>3, <1>4, <1>5, <1>6 DEF HistoryTypes

(* What is relied on comes from what was relied on.                        *)
LEMMA StableNext ==
  ASSUME Watch, NEW u \in Threads, Reading(u)', call[u] = null \/ call'[u] = call[u]
  PROVE  /\ stable'[u] \subseteq acked'[call'[u].key]
         /\ lacking'[u] \subseteq gone'[call'[u].key]
         /\ call'[u] = call[u] =>
              stable'[u] \subseteq stable[u] /\ lacking'[u] \subseteq lacking[u]
  BY DEF Watch, Reading

LEMMA NextServesOK ==
  ASSUME TypeInv, ServesOK, NEW t \in Threads, Step(t) \/ Calls(t)
  PROVE  /\ ServesOK'
         /\ \A u \in Threads : call'[u] # null /\ call[u] # null => call'[u] = call[u]
<1>1. call \in [Threads -> Requests \cup {null}]
  BY DEF TypeInv, TypeOK, LocalTypes
<1>2. ASSUME NEW u \in Threads, call'[u] # null
      PROVE  \/ call'[u] = call[u]
             \/ call[u] = null /\ call'[u].op \in Serves[u]
  <2>1. CASE u # t
    BY <2>1, OthersStay
  <2>2. CASE u = t /\ Calls(t)
    BY <1>1, <2>2 DEF Calls, Invoke, TypeInv, TypeOK, Control
  <2>3. CASE u = t /\ \E status, data : Answer(t, status, data)
    BY <1>1, <1>2, <2>3 DEF Answer
  <2>4. CASE u = t /\ UNCHANGED call
    BY <2>4
  <2>5. Step(t) => UNCHANGED call \/ \E status, data : Answer(t, status, data)
    <3>1. GotNull(t) => UNCHANGED call \/ \E status, data : Answer(t, status, data)
      BY DEF GotNull
    <3>2. Renew(t) => UNCHANGED call \/ \E status, data : Answer(t, status, data)
      BY DEF Renew
    <3>3. (\E k \in Keys : SweepNext(t, k)) => UNCHANGED call
      BY DEF SweepNext
    <3> QED
      BY <3>1, <3>2, <3>3
      DEF Step, Peek, AddOrUpdate, Overtaken, LookupMiss, LookupHit, RemoveMiss, RemoveHit,
          CheckExpired, CheckLive, BeginWalk, EndAdd, EndRemove, EndSerialize,
          SerializeFails, RemoveEntry, ListKeys, ClearAll, Evict, SweepEnd
  <2> QED
    BY <2>1, <2>2, <2>3, <2>4, <2>5
<1> QED
  BY <1>2 DEF ServesOK

-----------------------------------------------------------------------------
(* What a step does to the set of a key.                                   *)

Kept(k) ==
  /\ acked'[k] # {} => dict'[k] # null /\ acked'[k] \subseteq heap'[dict'[k]].value
  /\ acked'[k] # {} /\ acked[k] # {} => dict'[k] = dict[k]

LEMMA UntouchedKept ==
  ASSUME AcknowledgedStay, NEW k \in Keys, Untouched(k), acked'[k] \subseteq acked[k]
  PROVE  Kept(k)
  BY DEF AcknowledgedStay, Untouched, Kept

(* SetHashSet is acknowledged by the step that stores the value.           *)
LEMMA AckSource ==
  ASSUME TypeInv, ServesOK, DisputesOK, NEW t \in Threads, Step(t) \/ Calls(t),
         NEW k \in Keys, Decided(Stores, k) # {}
  PROVE  /\ Decided(Stores, k) = undisputed[t][k]
         /\ Decided(Stores, k) \subseteq {call[t].value}
         /\ call[t] # null /\ call[t].op = "SetHashSet" /\ call[t].key = k
         /\ AddOrUpdate(t) \/ EndAdd(t)
<1>1. /\ Busy(t, Stores) /\ call'[t] = null /\ Decided(Stores, k) = undisputed[t][k]
  BY DecidedNext
<1>2. /\ call[t] # null /\ call[t].op = "SetHashSet" /\ call[t].key = k
      /\ Decided(Stores, k) \subseteq {call[t].value}
  <2>1. call[t] # null /\ call[t].op = "SetHashSet"
    BY <1>1 DEF Busy, Stores
  <2>2. About(t, k) # {}
    BY <1>1 DEF DisputesOK
  <2> QED
    BY <1>1, <2>1, <2>2, AboutTypes DEF DisputesOK
<1>3. /\ pc[t] \in {"lookup", "check", "renew", "set", "add", "update", "found", "walk"}
      /\ call \in [Threads -> Requests \cup {null}]
  <2>1. pc[t] # "idle"
    BY <1>2 DEF TypeInv, TypeOK, Control
  <2>2. pc[t] \in LabelsOf(call[t].op)
    BY <2>1, CallAt
  <2> QED
    BY <1>2, <2>2 DEF LabelsOf, Lists, KeyLists, TypeInv, TypeOK, LocalTypes
<1>4. ~UNCHANGED call
  BY <1>1, <1>2
<1>5. ~LookupMiss(t) /\ ~CheckExpired(t)
  BY <1>2, <1>4 DEF LookupMiss, CheckExpired, GotNull
<1>6. ~LookupHit(t) /\ ~CheckLive(t) /\ ~Renew(t) /\ ~BeginWalk(t) /\ ~Peek(t) /\ ~Overtaken(t)
  BY <1>2, <1>4 DEF LookupHit, CheckLive, Renew, BeginWalk, Peek, Overtaken
<1>7. ~Calls(t)
  BY <1>3 DEF Calls, Invoke
<1> QED
  BY <1>1, <1>2, <1>3, <1>5, <1>6, <1>7
  DEF Step, RemoveMiss, RemoveHit, EndRemove, EndSerialize, SerializeFails, RemoveEntry,
      ListKeys, ClearAll, SweepNext, Evict, SweepEnd

(* Steps that write no member keep the values of the entries in reach.     *)
LEMMA OthersKeepValues ==
  ASSUME TypeInv, ServesOK, NEW t \in Threads, Step(t) \/ Calls(t),
         call[t] # null => call[t].op \notin Changers, NEW r \in Refs, Born(r)
  PROVE  heap'[r].value = heap[r].value
<1>1. ~EndAdd(t) /\ ~EndRemove(t)
  <2>1. pc[t] = "walk" => call[t] # null
    BY CallAt
  <2> QED
    BY <2>1 DEF EndAdd, EndRemove, Changers
<1>2. CASE AddOrUpdate(t)
  BY <1>2, NewIsFresh
<1>3. CASE ~AddOrUpdate(t)
  BY <1>1, <1>3, QuietValues
<1> QED
  BY <1>2, <1>3

(* The calls that add no member and remove none touch no set, or take it   *)
(* out as a whole.                                                         *)
LEMMA OthersTouch ==
  ASSUME TypeInv, EvictInv, ServesOK, AbsoluteTimes = {}, SlidingSpans = {},
         NEW t \in Threads, Step(t) \/ Calls(t), call[t] # null => call[t].op \notin Changers,
         NEW k \in HashSetKeys
  PROVE  Untouched(k) \/ TakesOut(t, k)
<1>1. k \in Keys /\ dict \in [Keys -> Refs \cup {null}]
  BY DEF HashSetKeys, KeysOf, TypeInv, TypeOK, SharedTypes
<1>2. dict[k] # null => heap'[dict[k]].value = heap[dict[k]].value
  BY <1>1, OthersKeepValues DEF TypeInv, EntriesBorn
<1>3. CASE AddOrUpdate(t) \/ RemoveHit(t)
  <2>1. AddOrUpdate(t) => call[t].op # "SetHashSet"
    <3>1. AddOrUpdate(t) => pc[t] # "idle"
      BY DEF AddOrUpdate
    <3> QED
      BY <3>1, CallAt DEF Changers
  <2> QED
    BY <1>3, <2>1, StringStepTouchesNone
<1>4. CASE RemoveEntry(t) \/ ClearAll(t) \/ Evict(t)
  BY <1>4, RemovalTakesOut
<1>5. CASE ~(AddOrUpdate(t) \/ RemoveHit(t) \/ RemoveEntry(t) \/ ClearAll(t) \/ Evict(t))
  BY <1>2, <1>5, QuietDict DEF Untouched
<1> QED
  BY <1>3, <1>4, <1>5

(* A new set is stored where there was none.                               *)
LEMMA CreateStores ==
  ASSUME TypeInv, ServesOK, WriterOK, NEW t \in Threads, AddOrUpdate(t),
         call[t].op = "SetHashSet", NEW k \in HashSetKeys
  PROVE  IF k = call[t].key
         THEN dict[k] = null /\ dict'[k] # null /\ heap'[dict'[k]].value = {call[t].value}
         ELSE Untouched(k)
<1> DEFINE r == <<t, made[t] + 1>>
<1>1. /\ pc[t] \in {"add", "update"} /\ pc[t] # "idle" /\ k \in Keys
      /\ dict \in [Keys -> Refs \cup {null}] /\ heap \in [Refs -> EntriesOf(Contents)]
      /\ made \in [Threads -> 0 .. MaxEntries]
  BY DEF AddOrUpdate, HashSetKeys, KeysOf, TypeInv, TypeOK, SharedTypes
<1>2. /\ call[t] \in Requests /\ call[t] # null /\ call[t].key \in Keys
      /\ call[t].op \in Setters
  BY <1>1, CallAt, RequestTypes DEF Setters
<1>3. r \in Refs /\ r # null
  BY <1>1, <1>2, AtLabel, ProviderAssumption DEF TypeInv
<1>4. /\ dict' = [dict EXCEPT ![call[t].key] = r]
      /\ heap' = [heap EXCEPT ![r] = NewEntry({call[t].value}, call[t].absolute, call[t].sliding)]
  BY <1>2 DEF AddOrUpdate
<1>5. CASE k = call[t].key
  <2>1. dict[k] = null
    BY <1>1, <1>2, <1>5 DEF WriterOK, Changing, Changers
  <2>2. dict'[k] = r /\ heap'[r].value = {call[t].value}
    BY <1>1, <1>2, <1>3, <1>4, <1>5 DEF NewEntry
  <2> HIDE DEF r
  <2> QED
    BY <1>3, <1>5, <2>1, <2>2
<1>6. CASE k # call[t].key
  <2>1. dict'[k] = dict[k]
    BY <1>1, <1>4, <1>6
  <2>2. ASSUME dict[k] # null PROVE heap'[dict[k]] = heap[dict[k]]
    BY <1>1, <2>2, NewIsFresh DEF TypeInv, EntriesBorn
  <2> QED
    BY <1>6, <2>1, <2>2 DEF Untouched
<1> QED
  BY <1>5, <1>6

LEMMA CreateKeeps ==
  ASSUME TypeInv, HashSetInv, NEW t \in Threads, AddOrUpdate(t), call[t].op = "SetHashSet",
         Watch, NEW k \in HashSetKeys
  PROVE  Kept(k)
<1>1. /\ Step(t) /\ k \in Keys /\ ServesOK /\ WriterOK /\ DisputesOK
      /\ AcknowledgedStay
  BY DEF Step, HashSetKeys, KeysOf, HashSetInv
<1>2. acked'[k] \subseteq acked[k] \cup Decided(Stores, k)
  BY <1>1, HistoryNext
<1>3. CASE k = call[t].key
  <2>1. dict[k] = null /\ dict'[k] # null /\ heap'[dict'[k]].value = {call[t].value}
    BY <1>1, <1>3, CreateStores
  <2>2. acked[k] = {} /\ acked'[k] \subseteq {call[t].value}
    BY <1>1, <1>2, <2>1, AckSource DEF AcknowledgedStay
  <2> QED
    BY <2>1, <2>2 DEF Kept
<1>4. CASE k # call[t].key
  <2>1. acked'[k] \subseteq acked[k]
    BY <1>1, <1>2, <1>4, AckSource
  <2> QED
    BY <1>1, <1>4, <2>1, CreateStores, UntouchedKept
<1> QED
  BY <1>3, <1>4

(* Adding and removing a member: the walk was disturbed by nobody, and it  *)
(* went over the set of its key, or over one that was taken out.           *)
LEMMA WalkStores ==
  ASSUME TypeInv, PairsMatch, ServesOK, WriterOK, NEW t \in Threads,
         EndAdd(t) \/ EndRemove(t)
  PROVE  /\ dict' = dict /\ call[t] # null /\ call[t].key \in HashSetKeys
         /\ Held(t) \in Refs /\ Held(t) # null /\ hit[t] # null /\ HeldKey(t) = call[t].key
         /\ \/ dict[call[t].key] = Held(t)
            \/ /\ dict[call[t].key] = null
               /\ EndAdd(t) => undisputed[t][call[t].key] = {}
         /\ EndAdd(t) => heap'[Held(t)].value = heap[Held(t)].value \cup {call[t].value}
         /\ EndRemove(t) => heap'[Held(t)].value = heap[Held(t)].value \ {call[t].value}
         /\ \A q \in Refs \ {Held(t)} : heap'[q] = heap[q]
         /\ \A k \in HashSetKeys \ {call[t].key} : Untouched(k)
<1> DEFINE key == call[t].key
           r == Held(t)
<1>1. /\ pc[t] = "walk" /\ pc[t] # "idle" /\ dict' = dict
      /\ EndAdd(t) => call[t].op = "SetHashSet"
      /\ call[t].op \in {"SetHashSet", "DelHashSet"}
      /\ dict \in [Keys -> Refs \cup {null}] /\ heap \in [Refs -> EntriesOf(Contents)]
  BY DEF EndAdd, EndRemove, TypeInv, TypeOK, SharedTypes
<1>2. /\ call[t] \in Requests /\ call[t] # null /\ key \in Keys /\ key \in HashSetKeys
      /\ r \in Refs /\ r # null /\ hit[t] # null /\ heap[r].value \in SUBSET Values
  BY <1>1, CallAt, RequestTypes, WalkerHoldsSet, ProviderAssumption DEF HashSetKeys, KeysOf
<1>3. HeldKey(t) = key
  BY <1>1, <1>2 DEF TypeInv, TypeOK, Control, Sweeps
<1>4. /\ heap[r].value = seen[t]
      /\ \/ dict[key] = r
         \/ dict[key] = null /\ (EndAdd(t) => undisputed[t][key] = {})
  BY <1>1, <1>2 DEF WriterOK, Changing, Changers
<1>5. /\ EndAdd(t) => heap' = [heap EXCEPT ![r].value = heap[r].value \cup {call[t].value}]
      /\ EndRemove(t) => heap' = [heap EXCEPT ![r].value = heap[r].value \ {call[t].value}]
  <2>1. Between(seen[t], heap[r].value) = {heap[r].value} /\ WalkOutcomes(t) = {"OK"}
    BY <1>4 DEF Between, WalkOutcomes
  <2> HIDE DEF r
  <2>2. EndAdd(t) => Change(r, heap[r].value \cup {call[t].value})
    BY <2>1 DEF EndAdd, r
  <2>3. EndRemove(t) => Change(r, heap[r].value \ {call[t].value})
    BY <2>1 DEF EndRemove, r
  <2> QED
    BY <2>2, <2>3 DEF Change
<1>6. EndAdd(t) => heap'[r].value = heap[r].value \cup {call[t].value}
  BY <1>1, <1>2, <1>5 DEF EntriesOf
<1>7. EndRemove(t) => heap'[r].value = heap[r].value \ {call[t].value}
  BY <1>1, <1>2, <1>5 DEF EntriesOf
<1>8. \A q \in Refs \ {r} : heap'[q] = heap[q]
  BY <1>1, <1>5
<1>9. ASSUME NEW k \in HashSetKeys \ {key} PROVE Untouched(k)
  <2>1. k \in Keys /\ k # key
    BY DEF HashSetKeys, KeysOf
  <2>2. dict[k] # r
    BY <1>2, <1>3, <2>1 DEF PairsMatch
  <2> QED
    BY <1>1, <1>8, <2>1, <2>2 DEF Untouched
<1> QED
  BY <1>1, <1>2, <1>3, <1>4, <1>6, <1>7, <1>8, <1>9

LEMMA WalkKeeps ==
  ASSUME TypeInv, PairsMatch, HashSetInv, NEW t \in Threads, EndAdd(t) \/ EndRemove(t),
         Watch, NEW k \in HashSetKeys
  PROVE  Kept(k)
<1>1. /\ Step(t) /\ k \in Keys /\ ServesOK /\ WriterOK /\ DisputesOK
      /\ AcknowledgedStay
  BY DEF Step, HashSetKeys, KeysOf, HashSetInv
<1>2. acked'[k] \subseteq acked[k] \cup Decided(Stores, k)
  BY <1>1, HistoryNext
<1>3. Decided(Stores, k) # {} =>
        /\ Decided(Stores, k) = undisputed[t][k] /\ Decided(Stores, k) \subseteq {call[t].value}
        /\ call[t].key = k /\ call[t].op = "SetHashSet"
  BY <1>1, AckSource
<1>4. CASE k # call[t].key
  BY <1>1, <1>2, <1>3, <1>4, WalkStores, UntouchedKept
<1>5. CASE k = call[t].key /\ dict[k] = null
  <2>1. acked[k] = {}
    BY <1>1, <1>5 DEF AcknowledgedStay
  <2>2. Decided(Stores, k) = {}
    <3>1. EndRemove(t) => call[t].op # "SetHashSet"
      BY DEF EndRemove
    <3> QED
      BY <1>1, <1>3, <1>5, <3>1, WalkStores
  <2> QED
    BY <1>2, <2>1, <2>2 DEF Kept
<1>6. CASE k = call[t].key /\ dict[k] # null
  <2>1. /\ dict[k] = Held(t) /\ dict'[k] = dict[k] /\ dict'[k] # null
        /\ EndAdd(t) => heap'[dict[k]].value = heap[dict[k]].value \cup {call[t].value}
        /\ EndRemove(t) => heap'[dict[k]].value = heap[dict[k]].value \ {call[t].value}
    BY <1>1, <1>6, WalkStores
  <2>2. acked[k] \subseteq heap[dict[k]].value
    BY <1>1 DEF AcknowledgedStay
  <2>3. EndRemove(t) => acked'[k] \subseteq acked[k] /\ call[t].value \notin acked[k]
    <3> SUFFICES ASSUME EndRemove(t)
                 PROVE  acked'[k] \subseteq acked[k] /\ call[t].value \notin acked[k]
      OBVIOUS
    <3>1. call[t].op = "DelHashSet" /\ call[t] # null
      BY <1>1, WalkStores DEF EndRemove
    <3>2. call[t].value \in About(t, k) /\ Busy(t, Takes)
      BY <1>6, <3>1 DEF About, Busy, Takes
    <3>3. call[t].value \in InProgress(Takes, k)
      BY <3>2 DEF InProgress
    <3> QED
      BY <1>1, <1>2, <1>3, <3>1, <3>3 DEF DisputesOK
  <2> QED
    BY <1>2, <1>3, <2>1, <2>2, <2>3 DEF Kept
<1> QED
  BY <1>4, <1>5, <1>6

(* What takes a whole set out: nobody relies on any of it.                 *)
LEMMA TakenIsNotRelied ==
  ASSUME HistoryTypes, DisputesOK, NEW t \in Threads, NEW k \in Keys, TakesOut(t, k)
  PROVE  /\ acked[k] = {}
         /\ \A u \in Threads : Busy(u, Stores) => undisputed[u][k] = {}
<1>1. Values \subseteq InProgress(Takes, k)
  BY DEF TakesOut, InProgress
<1>2. acked[k] = {}
  BY <1>1 DEF DisputesOK, HistoryTypes
<1>3. ASSUME NEW u \in Threads, Busy(u, Stores) PROVE undisputed[u][k] = {}
  <2>1. Contrary(u, k) = InProgress(Takes, k)
    BY <1>3 DEF Contrary
  <2> QED
    BY <1>1, <2>1 DEF DisputesOK, HistoryTypes
<1> QED
  BY <1>2, <1>3

LEMMA TakingKeeps ==
  ASSUME TypeInv, HashSetInv, NEW t \in Threads, Step(t) \/ Calls(t), Watch,
         NEW k \in HashSetKeys, TakesOut(t, k)
  PROVE  Kept(k)
<1>1. k \in Keys /\ HistoryTypes /\ DisputesOK
  BY DEF HashSetKeys, KeysOf, HashSetInv
<1>2. Decided(Stores, k) = {}
  BY DecidedNext DEF TakesOut
<1> QED
  BY <1>1, <1>2, HistoryNext, TakenIsNotRelied DEF Kept

LEMMA StepKeeps ==
  ASSUME TypeInv, PairsMatch, EvictInv, HashSetInv, AbsoluteTimes = {}, SlidingSpans = {},
         NEW t \in Threads, Step(t) \/ Calls(t), Watch, NEW k \in HashSetKeys
  PROVE  Kept(k)
<1>1. k \in Keys /\ ServesOK /\ AcknowledgedStay /\ DisputesOK
  BY DEF HashSetKeys, KeysOf, HashSetInv
<1>2. Untouched(k) /\ Decided(Stores, k) = {} => Kept(k)
  BY <1>1, HistoryNext, UntouchedKept
<1>3. CASE AddOrUpdate(t) /\ call[t].op = "SetHashSet"
  BY <1>3, CreateKeeps
<1>4. CASE EndAdd(t) \/ EndRemove(t)
  BY <1>4, WalkKeeps
<1>5. ASSUME ~(AddOrUpdate(t) /\ call[t].op = "SetHashSet"), ~EndAdd(t)
      PROVE  Decided(Stores, k) = {}
  BY <1>1, <1>5, AckSource
<1>6. CASE (AddOrUpdate(t) /\ call[t].op # "SetHashSet") \/ RemoveHit(t)
  <2>1. ~EndAdd(t) /\ ~(AddOrUpdate(t) /\ call[t].op = "SetHashSet")
    BY <1>6 DEF RemoveHit, AddOrUpdate, EndAdd
  <2> QED
    BY <1>1, <1>2, <1>5, <1>6, <2>1, StringStepTouchesNone
<1>7. CASE RemoveEntry(t) \/ ClearAll(t) \/ Evict(t)
  <2>1. ~EndAdd(t) /\ ~AddOrUpdate(t)
    BY <1>7 DEF RemoveEntry, ClearAll, Evict, AddOrUpdate, EndAdd
  <2> QED
    BY <1>1, <1>2, <1>5, <1>7, <2>1, RemovalTakesOut, TakingKeeps
<1>8. CASE ~(AddOrUpdate(t) \/ RemoveHit(t) \/ EndAdd(t) \/ EndRemove(t) \/ RemoveEntry(t)
             \/ ClearAll(t) \/ Evict(t))
  <2>1. dict \in [Keys -> Refs \cup {null}]
    BY DEF TypeInv, TypeOK, SharedTypes
  <2>2. Untouched(k)
    BY <1>1, <1>8, <2>1, QuietDict, QuietValues DEF Untouched
  <2> QED
    BY <1>2, <1>5, <1>8, <2>2
<1> QED
  BY <1>3, <1>4, <1>6, <1>7, <1>8

(* What a thread saw stays so, for the steps of the others.                *)
LEMMA OthersSee ==
  ASSUME TypeInv, NEW t \in Threads, Step(t) \/ Calls(t), NEW u \in Threads, u # t
  PROVE  seen'[u] = seen[u]
<1>1. seen \in [Threads -> SUBSET Values]
  BY DEF TypeInv, TypeOK, LocalTypes
<1>2. CASE \E status, data : Answer(t, status, data)
  BY <1>1, <1>2 DEF Answer
<1>3. CASE GotNull(t)
  BY <1>2, <1>3 DEF GotNull
<1>4. CASE Renew(t)
  BY <1>2, <1>4 DEF Renew, local
<1>5. CASE BeginWalk(t)
  BY <1>1, <1>5 DEF BeginWalk
<1>6. CASE \E k \in Keys : SweepNext(t, k)
  BY <1>6 DEF SweepNext
<1>7. CASE \/ Calls(t) \/ LookupHit(t) \/ RemoveHit(t) \/ CheckLive(t) \/ Evict(t)
           \/ Peek(t) \/ Overtaken(t)
  BY <1>7 DEF Calls, Invoke, LookupHit, RemoveHit, CheckLive, Evict, Peek, Overtaken, local
<1> QED
  BY <1>2, <1>3, <1>4, <1>5, <1>6, <1>7
  DEF Step, AddOrUpdate, LookupMiss, RemoveMiss, CheckExpired, EndAdd, EndRemove,
      EndSerialize, SerializeFails, RemoveEntry, ListKeys, ClearAll, SweepEnd

(* How a call that works on a hash set goes on.                            *)
LEMMA OwnStep ==
  ASSUME TypeInv, EvictInv, ServesOK, AbsoluteTimes = {}, SlidingSpans = {},
         NEW t \in Threads, Step(t) \/ Calls(t), call'[t] # null,
         call'[t].op \in {"SetHashSet", "GetHashSet", "DelHashSet"}
  PROVE  \/ pc'[t] = "lookup" /\ dict' = dict
         \/ /\ UNCHANGED <<call, dict>> /\ pc[t] = "lookup" /\ pc'[t] = "check"
            /\ hit'[t].entry = dict[call[t].key]
         \/ /\ UNCHANGED <<call, dict>> /\ pc'[t] = "set" /\ dict[call[t].key] = null
            /\ call[t].op = "SetHashSet"
         \/ UNCHANGED <<call, dict>> /\ call[t].op = "SetHashSet" /\ (Peek(t) \/ Overtaken(t))
         \/ /\ UNCHANGED <<call, dict, hit>> /\ pc[t] \in {"check", "renew"}
            /\ pc'[t] \in {"renew", "found"}
         \/ /\ UNCHANGED <<call, dict, hit, heap>> /\ pc[t] = "found" /\ pc'[t] = "walk"
            /\ seen'[t] = heap[Held(t)].value
<1>1. /\ pc \in [Threads -> Labels] /\ call \in [Threads -> Requests \cup {null}]
      /\ hit \in [Threads -> [key : Keys, entry : Refs] \cup {null}]
      /\ seen \in [Threads -> SUBSET Values]
  BY DEF TypeInv, TypeOK, LocalTypes
<1>2. CASE Calls(t)
  <2>1. PICK c \in Requests : Invoke(t, c)
    BY <1>2 DEF Calls
  <2>2. call'[t] = c /\ pc'[t] = EntryPoint(c.op) /\ dict' = dict
    BY <1>1, <2>1 DEF Invoke
  <2>3. pc'[t] = "lookup"
    BY <2>2 DEF EntryPoint, Sweeps, Lists, KeyLists
  <2> QED
    BY <2>2, <2>3
<1>3. CASE \E status, data : Answer(t, status, data)
  BY <1>1, <1>3 DEF Answer
<1>4. ASSUME Step(t), UNCHANGED call
      PROVE  /\ pc[t] # "idle" /\ call[t].op \in {"SetHashSet", "GetHashSet", "DelHashSet"}
             /\ pc[t] \in {"lookup", "check", "renew", "set", "add", "update", "found", "walk"}
             /\ pc[t] \in {"set", "add", "update"} => call[t].op = "SetHashSet"
  <2>1. pc[t] # "idle"
    BY <1>4 DEF TypeInv, TypeOK, Control
  <2>2. pc[t] \in LabelsOf(call[t].op)
    BY <2>1, CallAt
  <2> QED
    BY <1>4, <2>1, <2>2 DEF LabelsOf, Lists, KeyLists
<1>5. CASE LookupHit(t)
  BY <1>1, <1>5 DEF LookupHit
<1>6. CASE CheckLive(t)
  BY <1>1, <1>6 DEF CheckLive, local
<1>7. CASE Renew(t)
  BY <1>1, <1>3, <1>7 DEF Renew, local
<1>8. CASE BeginWalk(t)
  BY <1>1, <1>8 DEF BeginWalk
<1>9. CASE LookupMiss(t)
  BY <1>1, <1>3, <1>9 DEF LookupMiss, GotNull
<1>10. ~CheckExpired(t)
  BY NothingExpires, AtLabel DEF CheckExpired, TypeInv, EvictInv, Holding
<1>11. CASE Peek(t) \/ Overtaken(t)
  <2>1. UNCHANGED <<call, dict>> /\ pc[t] \in {"set", "add", "update"}
    BY <1>11, LoopGoesOn
  <2> QED
    BY <1>4, <1>11, <2>1 DEF Step
<1>12. CASE RemoveHit(t) \/ RemoveMiss(t) \/ Evict(t) \/ \E k \in Keys : SweepNext(t, k)
  <2>1. \/ UNCHANGED call
        \/ \E status, data : Answer(t, status, data)
    BY <1>12 DEF RemoveHit, RemoveMiss, GotNull, Evict, SweepNext
  <2>2. CASE UNCHANGED call
    <3>1. /\ pc[t] \in {"lookup", "check", "renew", "set", "add", "update", "found", "walk"}
          /\ Step(t)
      BY <1>4, <1>12, <2>2 DEF Step
    <3> QED
      BY <1>12, <3>1 DEF RemoveHit, RemoveMiss, Evict, SweepNext
  <2> QED
    BY <1>3, <2>1, <2>2
<1>13. CASE \/ AddOrUpdate(t) \/ EndAdd(t) \/ EndRemove(t) \/ EndSerialize(t)
            \/ SerializeFails(t) \/ RemoveEntry(t) \/ ListKeys(t) \/ ClearAll(t) \/ SweepEnd(t)
  BY <1>3, <1>13
  DEF AddOrUpdate, EndAdd, EndRemove, EndSerialize, SerializeFails, RemoveEntry, ListKeys,
      ClearAll, SweepEnd
<1> QED
  BY <1>2, <1>5, <1>6, <1>7, <1>8, <1>9, <1>10, <1>11, <1>12, <1>13 DEF Step

-----------------------------------------------------------------------------
(* Preservation, part by part.                                             *)

LEMMA NextAcknowledged ==
  ASSUME TypeInv, PairsMatch, EvictInv, HashSetInv, AbsoluteTimes = {}, SlidingSpans = {},
         NEW t \in Threads, Step(t) \/ Calls(t), Watch
  PROVE  AcknowledgedStay'
<1>1. HistoryTypes'
  BY NextHistoryTypes DEF HashSetInv, Next
<1>2. ASSUME NEW k \in Keys, acked'[k] # {}
      PROVE  dict'[k] # null /\ acked'[k] \subseteq heap'[dict'[k]].value
  <2>1. k \in HashSetKeys
    BY <1>1, <1>2 DEF HistoryTypes, HashSetKeys, KeysOf
  <2> QED
    BY <1>2, <2>1, StepKeeps DEF Kept
<1> QED
  BY <1>2 DEF AcknowledgedStay

(* The writer is alone: a thread that adds or removes members is the       *)
(* writer.                                                                 *)
LEMMA ChangerWrites ==
  ASSUME TypeInv, ServesOK, NEW writer \in Threads, OneWriter(writer),
         NEW t \in Threads, call[t] # null, call[t].op \in Changers
  PROVE  t = writer
  BY DEF ServesOK, OneWriter

(* What the writer knows survives the steps of the others: they leave the  *)
(* set alone, or take it out.                                              *)
LEMMA OthersLetWrite ==
  ASSUME TypeInv, EvictInv, HashSetInv, NEW writer \in Threads, OneWriter(writer),
         NEW t \in Threads, Step(t) \/ Calls(t), Watch,
         NEW u \in Threads, u # t, Changing(u)'
  PROVE  /\ pc'[u] \in {"check", "renew", "found", "walk"} =>
              \/ dict'[call'[u].key] = hit'[u].entry
              \/ /\ dict'[call'[u].key] = null
                 /\ call'[u].op = "SetHashSet" => undisputed'[u][call'[u].key] = {}
         /\ pc'[u] = "walk" => heap'[hit'[u].entry].value = seen'[u]
         /\ pc'[u] \in {"set", "add"} => dict'[call'[u].key] = null
         /\ pc'[u] # "update"
<1>1. AbsoluteTimes = {} /\ SlidingSpans = {} /\ ServesOK /\ TypeOK /\ HistoryTypes /\ DisputesOK
  BY DEF OneWriter, HashSetInv, TypeInv
<1>2. UNCHANGED <<pc[u], call[u], hit[u], seen[u]>> /\ Changing(u)
  BY OthersStay, OthersSee DEF Changing
<1>3. call[u].key \in HashSetKeys /\ call[u].key \in Keys /\ pc[u] # "idle"
  <2>1. pc[u] # "idle"
    BY <1>1, <1>2 DEF Changing, TypeOK, Control
  <2> QED
    BY <1>1, <1>2, <2>1, CallAt, RequestTypes DEF Changing, Changers, HashSetKeys, KeysOf
<1>4. u = writer
  BY <1>1, <1>2, ChangerWrites DEF Changing
<1>5. call[t] # null => call[t].op \notin Changers
  BY <1>1, <1>4, ChangerWrites
<1>6. pc[u] \in {"check", "renew", "found", "walk"} =>
        /\ Held(u) \in Refs /\ Held(u) # null
        /\ heap'[Held(u)].value = heap[Held(u)].value
  <2> SUFFICES ASSUME pc[u] \in {"check", "renew", "found", "walk"}
               PROVE  /\ Held(u) \in Refs /\ Held(u) # null
                      /\ heap'[Held(u)].value = heap[Held(u)].value
    OBVIOUS
  <2>1. Held(u) \in Refs /\ hit[u] # null
    BY <1>1, <1>3, AtLabel DEF Holding, TypeOK, Control
  <2>2. Born(Held(u))
    BY <2>1 DEF TypeInv, EntriesBorn
  <2> QED
    BY <1>1, <1>5, <2>1, <2>2, OthersKeepValues, ProviderAssumption
<1>7. /\ pc[u] \in {"check", "renew", "found", "walk"} =>
           \/ dict[call[u].key] = Held(u)
           \/ /\ dict[call[u].key] = null
              /\ call[u].op = "SetHashSet" => undisputed[u][call[u].key] = {}
      /\ pc[u] = "walk" => heap[Held(u)].value = seen[u]
      /\ pc[u] \in {"set", "add"} => dict[call[u].key] = null
      /\ pc[u] # "update"
  BY <1>2 DEF HashSetInv, WriterOK
<1>8. undisputed'[u][call[u].key] \subseteq undisputed[u][call[u].key]
  BY <1>2, <1>3, HistoryNext DEF Changing
<1>9. CASE Untouched(call[u].key)
  BY <1>2, <1>6, <1>7, <1>8, <1>9 DEF Untouched
<1>10. CASE TakesOut(t, call[u].key)
  <2>1. dict'[call[u].key] = null
    BY <1>10 DEF TakesOut
  <2>2. call[u].op = "SetHashSet" => undisputed'[u][call[u].key] = {}
    BY <1>1, <1>2, <1>3, <1>8, <1>10, TakenIsNotRelied DEF Busy, Stores, Changing
  <2> QED
    BY <1>2, <1>6, <1>7, <2>1, <2>2
<1> QED
  BY <1>1, <1>3, <1>5, <1>9, <1>10, OthersTouch

LEMMA NextWriter ==
  ASSUME TypeInv, EvictInv, HashSetInv, NEW writer \in Threads, OneWriter(writer),
         NEW t \in Threads, Step(t) \/ Calls(t), Watch
  PROVE  WriterOK'
<1>1. AbsoluteTimes = {} /\ SlidingSpans = {} /\ ServesOK /\ pc \in [Threads -> Labels]
  BY DEF OneWriter, HashSetInv, TypeInv, TypeOK, LocalTypes
<1> SUFFICES ASSUME NEW u \in Threads, Changing(u)'
             PROVE  /\ pc'[u] \in {"check", "renew", "found", "walk"} =>
                         \/ dict'[call'[u].key] = hit'[u].entry
                         \/ /\ dict'[call'[u].key] = null
                            /\ call'[u].op = "SetHashSet" => undisputed'[u][call'[u].key] = {}
                    /\ pc'[u] = "walk" => heap'[hit'[u].entry].value = seen'[u]
                    /\ pc'[u] \in {"set", "add"} => dict'[call'[u].key] = null
                    /\ pc'[u] # "update"
  BY DEF WriterOK
<1>2. CASE u # t
  BY <1>2, OthersLetWrite
<1>3. CASE u = t
  <2>1. call'[t] # null /\ call'[t].op \in {"SetHashSet", "GetHashSet", "DelHashSet"}
    BY <1>3 DEF Changing, Changers
  <2>2. UNCHANGED call =>
          /\ Changing(t) /\ pc[t] # "update" /\ call[t].key \in Keys
          /\ undisputed'[t][call[t].key] \subseteq undisputed[t][call[t].key]
          /\ pc[t] \in {"check", "renew", "found", "walk"} =>
               \/ dict[call[t].key] = Held(t)
               \/ /\ dict[call[t].key] = null
                  /\ call[t].op = "SetHashSet" => undisputed[t][call[t].key] = {}
          /\ pc[t] \in {"set", "add"} => dict[call[t].key] = null
    <3> SUFFICES ASSUME UNCHANGED call
                 PROVE  /\ Changing(t) /\ pc[t] # "update" /\ call[t].key \in Keys
                        /\ undisputed'[t][call[t].key] \subseteq undisputed[t][call[t].key]
                        /\ pc[t] \in {"check", "renew", "found", "walk"} =>
                             \/ dict[call[t].key] = Held(t)
                             \/ /\ dict[call[t].key] = null
                                /\ call[t].op = "SetHashSet" =>
                                     undisputed[t][call[t].key] = {}
                        /\ pc[t] \in {"set", "add"} => dict[call[t].key] = null
      OBVIOUS
    <3>1. Changing(t)
      BY <1>3 DEF Changing
    <3>2. call[t].key \in Keys
      BY <3>1, RequestTypes DEF Changing, Changers, TypeInv, TypeOK, LocalTypes
    <3> QED
      BY <3>1, <3>2, HistoryNext DEF HashSetInv, WriterOK, Changing
  <2>3. CASE UNCHANGED <<call, dict>> /\ (Peek(t) \/ Overtaken(t))
    <3>1. pc'[t] = "add" /\ dict[call[t].key] = null
      BY <1>1, <2>2, <2>3, ProviderAssumption DEF Peek, Overtaken, Unchanged
    <3> QED
      BY <1>3, <2>3, <3>1
  <2>4. CASE pc'[t] = "lookup"
    BY <1>3, <2>4
  <2>5. CASE /\ UNCHANGED <<call, dict>> /\ pc[t] = "lookup" /\ pc'[t] = "check"
             /\ hit'[t].entry = dict[call[t].key]
    BY <1>3, <2>5
  <2>6. CASE /\ UNCHANGED <<call, dict>> /\ pc'[t] = "set" /\ dict[call[t].key] = null
    BY <1>3, <2>6
  <2>7. CASE /\ UNCHANGED <<call, dict, hit>> /\ pc[t] \in {"check", "renew"}
             /\ pc'[t] \in {"renew", "found"}
    BY <1>3, <2>2, <2>7
  <2>8. CASE /\ UNCHANGED <<call, dict, hit, heap>> /\ pc[t] = "found" /\ pc'[t] = "walk"
             /\ seen'[t] = heap[Held(t)].value
    BY <1>3, <2>2, <2>8
  <2> QED
    BY <1>1, <2>1, <2>3, <2>4, <2>5, <2>6, <2>7, <2>8, OwnStep
<1> QED
  BY <1>2, <1>3

LEMMA NextReader ==
  ASSUME TypeInv, PairsMatch, EvictInv, HashSetInv, AbsoluteTimes = {}, SlidingSpans = {},
         NEW t \in Threads, Step(t) \/ Calls(t), Watch
  PROVE  ReaderOK'
<1>1. ServesOK /\ TypeOK
  BY DEF HashSetInv, TypeInv
<1> SUFFICES ASSUME NEW u \in Threads, Reading(u)', stable'[u] # {}
             PROVE  /\ stable'[u] \subseteq acked'[call'[u].key]
                    /\ pc'[u] \in {"check", "renew", "found", "walk"} =>
                         dict'[call'[u].key] = hit'[u].entry
                    /\ pc'[u] = "walk" => stable'[u] \subseteq seen'[u]
  BY DEF ReaderOK
<1>2. call[u] = null \/ call'[u] = call[u]
  BY <1>1, NextServesOK DEF Reading
<1>3. stable'[u] \subseteq acked'[call'[u].key]
  BY <1>2, StableNext
<1>4. ASSUME call'[u] = call[u]
      PROVE  /\ Reading(u) /\ stable'[u] \subseteq stable[u] /\ stable[u] # {}
             /\ stable[u] \subseteq acked[call[u].key]
             /\ pc[u] \in {"check", "renew", "found", "walk"} => dict[call[u].key] = Held(u)
             /\ pc[u] = "walk" => stable[u] \subseteq seen[u]
             /\ call[u].key \in HashSetKeys /\ call[u].key \in Keys /\ pc[u] # "idle"
  <2>1. Reading(u) /\ stable'[u] \subseteq stable[u] /\ stable[u] # {}
    BY <1>4, StableNext DEF Reading
  <2>2. pc[u] # "idle"
    BY <1>1, <2>1 DEF Reading, TypeOK, Control
  <2>3. call[u].key \in HashSetKeys /\ call[u].key \in Keys
    BY <1>1, <2>1, <2>2, CallAt, RequestTypes DEF Reading, HashSetKeys, KeysOf
  <2> QED
    BY <2>1, <2>2, <2>3 DEF HashSetInv, ReaderOK
<1>5. CASE u # t
  <2>1. UNCHANGED <<pc[u], call[u], hit[u], seen[u]>>
    BY <1>5, OthersStay, OthersSee
  <2>2. dict'[call[u].key] = dict[call[u].key]
    BY <1>3, <1>4, <2>1, StepKeeps DEF Kept
  <2> QED
    BY <1>3, <1>4, <2>1, <2>2
<1>6. CASE u = t
  <2>1. call'[t] # null /\ call'[t].op \in {"SetHashSet", "GetHashSet", "DelHashSet"}
    BY <1>6 DEF Reading
  <2>2. pc'[t] = "walk" =>
          UNCHANGED <<call, dict, hit>> /\ pc[t] = "found" /\ seen'[t] = heap[Held(t)].value
    BY <1>1, <2>1, OwnStep, LoopGoesOn
  <2>3. pc'[t] = "walk" => stable'[t] \subseteq seen'[t]
    <3> SUFFICES ASSUME pc'[t] = "walk" PROVE stable'[t] \subseteq seen'[t]
      OBVIOUS
    <3>1. stable'[t] \subseteq acked[call[t].key] /\ dict[call[t].key] = Held(t)
      BY <1>4, <1>6, <2>2
    <3>2. acked[call[t].key] \subseteq heap[dict[call[t].key]].value
      BY <1>4, <1>6, <2>2 DEF HashSetInv, AcknowledgedStay
    <3> QED
      BY <2>2, <3>1, <3>2
  <2>4. pc'[t] \in {"check", "renew", "found", "walk"} => dict'[call'[t].key] = hit'[t].entry
    BY <1>1, <1>4, <1>6, <2>1, OwnStep, LoopGoesOn
  <2> QED
    BY <1>3, <1>6, <2>3, <2>4
<1> QED
  BY <1>5, <1>6

LEMMA InitHashSet == HInit => HashSetInv
<1> SUFFICES ASSUME HInit PROVE HashSetInv
  OBVIOUS
<1>1. /\ call = [t \in Threads |-> null] /\ reply = [t \in Threads |-> null]
      /\ acked = [k \in Keys |-> {}] /\ gone = [k \in Keys |-> Values]
      /\ undisputed = [t \in Threads |-> [k \in Keys |-> {}]]
      /\ stable = [t \in Threads |-> {}] /\ lacking = [t \in Threads |-> {}]
  BY DEF HInit, Init
<1>2. \A ops, k : InProgress(ops, k) = {}
  BY <1>1 DEF InProgress, Busy
<1>3. HistoryTypes
  BY <1>1 DEF HistoryTypes
<1>4. DisputesOK
  BY <1>1, <1>2 DEF DisputesOK
<1>5. ServesOK /\ WriterOK /\ ReaderOK /\ AcknowledgedStay
  BY <1>1 DEF ServesOK, WriterOK, ReaderOK, Changing, Reading, AcknowledgedStay
<1> QED
  BY <1>3, <1>4, <1>5 DEF HashSetInv

(* The clock changes nothing but the time.                                 *)
LEMMA TickHistory ==
  ASSUME TypeInv, Tick, Watch
  PROVE  /\ UNCHANGED <<dict, heap, made, pc, call, hit, seen, todo, reply>>
         /\ \A k \in Keys : acked'[k] \subseteq acked[k] /\ gone'[k] \subseteq gone[k]
<1>1. UNCHANGED <<dict, heap, made, pc, call, hit, seen, todo, reply>>
  BY DEF Tick, local
<1> QED
  BY <1>1, TickDecides, HistoryNext

LEMMA TickHashSet ==
  ASSUME TypeInv, HashSetInv, Tick, Watch PROVE HashSetInv'
<1>1. /\ UNCHANGED <<dict, heap, made, pc, call, hit, seen, todo, reply>>
      /\ \A k \in Keys : acked'[k] \subseteq acked[k]
  BY TickHistory
<1>2. HistoryTypes' /\ DisputesOK'
  BY NextHistoryTypes, NextDisputes DEF HashSetInv, Next
<1>3. ServesOK'
  BY <1>1 DEF HashSetInv, ServesOK
<1>4. WriterOK'
  <2> SUFFICES ASSUME NEW u \in Threads, Changing(u)
               PROVE  /\ pc[u] \in {"check", "renew", "found", "walk"} =>
                           \/ dict[call[u].key] = Held(u)
                           \/ /\ dict[call[u].key] = null
                              /\ call[u].op = "SetHashSet" => undisputed'[u][call[u].key] = {}
                      /\ pc[u] = "walk" => heap[Held(u)].value = seen[u]
                      /\ pc[u] \in {"set", "add"} => dict[call[u].key] = null
                      /\ pc[u] # "update"
    BY <1>1 DEF WriterOK, Changing
  <2>1. call[u].key \in Keys
    BY RequestTypes DEF Changing, Changers, TypeInv, TypeOK, LocalTypes
  <2>2. undisputed'[u][call[u].key] \subseteq undisputed[u][call[u].key]
    BY <2>1, HistoryNext DEF Changing
  <2> QED
    BY <2>2 DEF HashSetInv, WriterOK
<1>5. AcknowledgedStay'
  BY <1>1 DEF HashSetInv, AcknowledgedStay
<1>6. ReaderOK'
  <2> SUFFICES ASSUME NEW u \in Threads, Reading(u), stable'[u] # {}
               PROVE  /\ stable'[u] \subseteq acked'[call[u].key]
                      /\ pc[u] \in {"check", "renew", "found", "walk"} =>
                           dict[call[u].key] = Held(u)
                      /\ pc[u] = "walk" => stable'[u] \subseteq seen[u]
    BY <1>1 DEF ReaderOK, Reading
  <2>1. stable'[u] \subseteq acked'[call[u].key] /\ stable'[u] \subseteq stable[u]
    BY <1>1, StableNext DEF Reading
  <2> QED
    BY <2>1 DEF HashSetInv, ReaderOK
<1> QED
  BY <1>2, <1>3, <1>4, <1>5, <1>6 DEF HashSetInv

LEMMA NextHashSet ==
  ASSUME TypeInv, PairsMatch, EvictInv, HashSetInv,
         NEW writer \in Threads, OneWriter(writer), [HNext]_<<vars, history>>
  PROVE  HashSetInv'
<1>1. AbsoluteTimes = {} /\ SlidingSpans = {}
  BY DEF OneWriter
<1>2. CASE UNCHANGED <<vars, history>>
  <2>1. UNCHANGED <<dict, heap, pc, call, hit, seen, reply, undisputed, acked, stable, gone,
                    lacking>>
    BY <1>2 DEF vars, history
  <2> QED
    BY <2>1
    DEF HashSetInv, HistoryTypes, DisputesOK, Contrary, InProgress, About, Busy, ServesOK,
        WriterOK, ReaderOK, Changing, Reading, AcknowledgedStay
<1>3. ASSUME NEW t \in Threads, Step(t) \/ Calls(t), Watch PROVE HashSetInv'
  <2>1. HistoryTypes' /\ DisputesOK'
    BY <1>3, NextHistoryTypes, NextDisputes DEF HashSetInv, Next
  <2>2. ServesOK'
    BY <1>3, NextServesOK DEF HashSetInv
  <2> QED
    BY <1>1, <1>3, <2>1, <2>2, NextWriter, NextReader, NextAcknowledged DEF HashSetInv
<1> QED
  BY <1>2, <1>3, TickHashSet DEF HNext, Next

LEMMA HashSetInvariant ==
  ASSUME NEW writer \in Threads, OneWriter(writer) PROVE HSpec => []HashSetInv
<1>1. TypeInv /\ PairsMatch /\ EvictInv /\ HashSetInv /\ [HNext]_<<vars, history>>
      => HashSetInv'
  BY NextHashSet
<1> QED
  BY <1>1, InitHashSet, HInvariants, PTL DEF HSpec

(* With one thread that adds and removes members, a member that SetHashSet *)
(* acknowledged stays until a client takes it away, or the whole set,      *)
(* although the others take sets out while that thread works on them.      *)
THEOREM NoAddIsLost ==
  ASSUME NEW writer \in Threads, OneWriter(writer)
  PROVE  HSpec => []AcknowledgedStay
<1>1. HashSetInv => AcknowledgedStay
  BY DEF HashSetInv
<1> QED
  BY <1>1, HashSetInvariant, PTL

(* With one such thread, GetHashSet answers with every member that was     *)
(* there from its request to its answer.                                   *)
THEOREM ReadersMissNone ==
  ASSUME NEW writer \in Threads, OneWriter(writer)
  PROVE  HSpec => ReadsWhole
<1> DEFINE Whole(t) ==
       ( /\ pc[t] # "idle" /\ call[t].op = "GetHashSet"
         /\ pc'[t] = "idle" /\ reply'[t].status = "OK" /\ stable[t] # {} )
         => stable[t] \subseteq reply'[t].data
           AllWhole == \A t \in Threads : Whole(t)
<1>1. /\ TypeInv /\ EvictInv /\ HashSetInv /\ [HNext]_<<vars, history>>
      => [AllWhole]_<<vars, history>>
  <2> SUFFICES ASSUME TypeInv, EvictInv, HashSetInv, HNext, NEW t \in Threads,
                      pc[t] # "idle", call[t].op = "GetHashSet", pc'[t] = "idle",
                      stable[t] # {}, reply'[t].status = "OK"
               PROVE  stable[t] \subseteq reply'[t].data
    BY DEF AllWhole
  <2>1. /\ AbsoluteTimes = {} /\ SlidingSpans = {} /\ ServesOK /\ TypeOK
    BY DEF OneWriter, HashSetInv, TypeInv
  <2>2. /\ call[t] # null /\ call[t] \in Requests /\ call[t].key \in Keys
        /\ pc[t] \in {"lookup", "check", "renew", "found", "walk"}
    <3>1. call[t] # null /\ call[t] \in Requests /\ pc[t] \in LabelsOf(call[t].op)
      BY <2>1, CallAt
    <3> QED
      BY <3>1, RequestTypes DEF LabelsOf, Lists, KeyLists
  <2>3. /\ stable[t] \subseteq acked[call[t].key]
        /\ pc[t] = "walk" => dict[call[t].key] = Held(t) /\ stable[t] \subseteq seen[t]
    BY <2>2 DEF HashSetInv, ReaderOK, Reading
  <2>4. /\ dict[call[t].key] # null
        /\ acked[call[t].key] \subseteq heap[dict[call[t].key]].value
    BY <2>2, <2>3 DEF HashSetInv, AcknowledgedStay
  <2>5. Step(t)
    <3>1. PICK u \in Threads : Calls(u) \/ Step(u)
      BY DEF HNext, Next, Tick
    <3>2. u = t
      BY <3>1, OthersStay
    <3> QED
      BY <3>1, <3>2 DEF Calls, Invoke
  <2>6. ~CheckExpired(t)
    BY <2>1, NothingExpires, AtLabel DEF CheckExpired, EvictInv, Holding
  <2>7. pc \in [Threads -> Labels]
    BY DEF TypeInv, TypeOK, LocalTypes
  <2>8. EndSerialize(t) \/ SerializeFails(t)
    BY <2>2, <2>4, <2>5, <2>6, <2>7
    DEF Step, Peek, AddOrUpdate, Overtaken, LookupMiss, LookupHit, RemoveMiss, RemoveHit,
        CheckLive, Renew, BeginWalk, EndAdd, EndRemove, RemoveEntry, ListKeys, ClearAll,
        SweepNext, Evict, SweepEnd
  <2>9. \A status, data : Answer(t, status, data) =>
          reply'[t].status = status /\ reply'[t].data = data
    BY DEF Answer, HashSetInv, HistoryTypes
  <2> QED
    BY <2>3, <2>4, <2>8, <2>9 DEF EndSerialize, SerializeFails, Between
<1> QED
  BY <1>1, HashSetInvariant, HInvariants, PTL DEF HSpec, ReadsWhole

-----------------------------------------------------------------------------
(* What the clients are rid of.  The invariant, in parts.                  *)

(* A Clear has emptied its name space, but for what it has yet to visit,   *)
(* for what it is about to take out, and for what was stored meanwhile: of *)
(* that it decides nothing.                                                *)
Clearing(t, k) ==
  call[t] # null /\ call[t].op = "Clear" /\ call[t].nameSpace = k.Namespace

Passed(t, k) ==
  \/ dict[k] = null
  \/ k \in todo[t]
  \/ pc[t] = "evict" /\ HeldKey(t) = k /\ Held(t) = dict[k]
  \/ heap[dict[k]].value \cap undisputed[t][k] = {}

ClearOK == \A t \in Threads, k \in HashSetKeys : Clearing(t, k) => Passed(t, k)

(* What a reader's key lacks, the set it holds and what it has begun to    *)
(* serialize lack too, also when the key has that set no more.             *)
LackingOK ==
  \A t \in Threads : Reading(t) =>
    /\ lacking[t] \subseteq gone[call[t].key]
    /\ pc[t] \in {"check", "renew", "found", "walk"} =>
         heap[Held(t)].value \cap lacking[t] = {}
    /\ pc[t] = "walk" => seen[t] \cap lacking[t] = {}

GoneInv == ClearOK /\ LackingOK /\ WithdrawnStay

(* What is being stored at a key, no Clear of the key decides about, and   *)
(* nobody is rid of.                                                       *)
LEMMA StoringDisputes ==
  ASSUME DisputesOK, NEW t \in Threads, call[t] # null, call[t].op = "SetHashSet",
         call[t].key \in Keys
  PROVE  /\ call[t].value \notin gone[call[t].key]
         /\ \A u \in Threads : Clearing(u, call[t].key) =>
              call[t].value \notin undisputed[u][call[t].key]
<1> DEFINE k == call[t].key
<1>1. call[t].value \in About(t, k) /\ Busy(t, Stores)
  BY DEF About, Busy, Stores
<1>2. call[t].value \in InProgress(Stores, k)
  BY <1>1 DEF InProgress
<1>3. ASSUME NEW u \in Threads, Clearing(u, k) PROVE Contrary(u, k) = InProgress(Stores, k)
  BY <1>3 DEF Clearing, Contrary, Busy, Stores
<1> QED
  BY <1>2, <1>3 DEF DisputesOK

(* What a step does to the set of a key, if the key has one after it.      *)
LEMMA StepStores ==
  ASSUME TypeInv, PairsMatch, EvictInv, ServesOK, WriterOK,
         AbsoluteTimes = {}, SlidingSpans = {},
         NEW t \in Threads, Step(t) \/ Calls(t), NEW k \in HashSetKeys, dict'[k] # null
  PROVE  \/ Untouched(k)
         \/ /\ AddOrUpdate(t) /\ call[t] # null /\ call[t].op = "SetHashSet"
            /\ call[t].key = k /\ heap'[dict'[k]].value = {call[t].value}
         \/ /\ EndAdd(t) /\ call[t] # null /\ call[t].op = "SetHashSet"
            /\ call[t].key = k /\ dict[k] # null /\ dict'[k] = dict[k]
            /\ heap'[dict'[k]].value = heap[dict[k]].value \cup {call[t].value}
         \/ /\ EndRemove(t) /\ call[t].key = k /\ dict[k] # null /\ dict'[k] = dict[k]
            /\ heap'[dict'[k]].value = heap[dict[k]].value \ {call[t].value}
<1>1. /\ k \in Keys /\ dict \in [Keys -> Refs \cup {null}]
  BY DEF HashSetKeys, KeysOf, TypeInv, TypeOK, SharedTypes
<1>2. CASE AddOrUpdate(t) /\ call[t].op = "SetHashSet"
  <2>1. call[t] # null
    BY <1>2, CallAt DEF AddOrUpdate
  <2> QED
    BY <1>2, <2>1, CreateStores
<1>3. CASE (AddOrUpdate(t) /\ call[t].op # "SetHashSet") \/ RemoveHit(t)
  BY <1>3, StringStepTouchesNone
<1>4. CASE EndAdd(t) \/ EndRemove(t)
  <2>1. EndAdd(t) => call[t].op = "SetHashSet"
    BY DEF EndAdd
  <2> QED
    BY <1>4, <2>1, WalkStores
<1>5. CASE RemoveEntry(t) \/ ClearAll(t) \/ Evict(t)
  BY <1>5, RemovalTakesOut DEF TakesOut
<1>6. CASE ~(AddOrUpdate(t) \/ RemoveHit(t) \/ EndAdd(t) \/ EndRemove(t) \/ RemoveEntry(t)
             \/ ClearAll(t) \/ Evict(t))
  BY <1>1, <1>6, QuietDict, QuietValues DEF Untouched
<1> QED
  BY <1>2, <1>3, <1>4, <1>5, <1>6

(* A Clear that was done with a key stays so, whatever the others store    *)
(* there meanwhile.                                                        *)
LEMMA OthersLetClear ==
  ASSUME TypeInv, PairsMatch, EvictInv, HashSetInv, ClearOK,
         AbsoluteTimes = {}, SlidingSpans = {},
         NEW t \in Threads, Step(t) \/ Calls(t), Watch,
         NEW u \in Threads, u # t, NEW k \in HashSetKeys, Clearing(u, k)'
  PROVE  Passed(u, k)'
<1>1. /\ UNCHANGED <<pc[u], call[u], hit[u], todo[u]>> /\ k \in Keys /\ ServesOK /\ WriterOK
      /\ DisputesOK
  BY OthersStay DEF HashSetKeys, KeysOf, HashSetInv
<1>2. Clearing(u, k) /\ Passed(u, k) /\ undisputed'[u][k] \subseteq undisputed[u][k]
  BY <1>1, HistoryNext DEF Clearing, ClearOK
<1>3. CASE dict'[k] = null
  BY <1>3 DEF Passed
<1>4. CASE Untouched(k)
  BY <1>1, <1>2, <1>4 DEF Passed, Untouched
<1>5. ASSUME call[t] # null, call[t].op = "SetHashSet", call[t].key = k
      PROVE  call[t].value \notin undisputed[u][k]
  BY <1>1, <1>2, <1>5, StoringDisputes
<1>6. CASE /\ call[t] # null /\ call[t].op = "SetHashSet"
           /\ call[t].key = k /\ heap'[dict'[k]].value = {call[t].value}
  BY <1>2, <1>5, <1>6 DEF Passed
<1>7. CASE /\ call[t] # null /\ call[t].op = "SetHashSet"
           /\ call[t].key = k /\ dict[k] # null /\ dict'[k] = dict[k]
           /\ heap'[dict'[k]].value = heap[dict[k]].value \cup {call[t].value}
  BY <1>1, <1>2, <1>5, <1>7 DEF Passed
<1>8. CASE /\ dict[k] # null /\ dict'[k] = dict[k]
           /\ heap'[dict'[k]].value = heap[dict[k]].value \ {call[t].value}
  BY <1>1, <1>2, <1>8 DEF Passed
<1> QED
  BY <1>1, <1>3, <1>4, <1>6, <1>7, <1>8, StepStores

LEMMA OwnClear ==
  ASSUME TypeInv, HashSetInv, ClearOK, NEW t \in Threads, Step(t) \/ Calls(t), Watch,
         NEW k \in HashSetKeys, Clearing(t, k)'
  PROVE  Passed(t, k)'
<1>1. /\ pc \in [Threads -> Labels] /\ call \in [Threads -> Requests \cup {null}]
      /\ hit \in [Threads -> [key : Keys, entry : Refs] \cup {null}]
      /\ todo \in [Threads -> SUBSET Keys] /\ dict \in [Keys -> Refs \cup {null}]
      /\ k \in Keys /\ ServesOK /\ TypeOK
  BY DEF TypeInv, TypeOK, LocalTypes, SharedTypes, HashSetKeys, KeysOf, HashSetInv
<1>2. CASE Calls(t)
  <2>1. PICK c \in Requests : Invoke(t, c)
    BY <1>2 DEF Calls
  <2>2. call'[t] = c /\ c.op = "Clear"
    BY <1>1, <2>1 DEF Invoke, Clearing
  <2>3. EntryPoint(c.op) = "sweep"
    BY <2>2 DEF EntryPoint, Sweeps, Lists, KeyLists
  <2> QED
    BY <1>1, <2>1, <2>3 DEF Invoke, Passed
<1>3. CASE Step(t)
  <2>1. ~\E status, data : Answer(t, status, data)
    BY <1>1 DEF Answer, Clearing
  <2>2. pc[t] # "idle"
    BY <1>3 DEF Step, Peek, AddOrUpdate, Overtaken, LookupMiss, LookupHit, RemoveMiss,
       RemoveHit, CheckExpired, CheckLive, Renew, BeginWalk, EndAdd, EndRemove, EndSerialize,
       SerializeFails, RemoveEntry, ListKeys, ClearAll, SweepNext, Evict, SweepEnd
  <2>3. /\ call[t] # null /\ call'[t] = call[t] /\ Clearing(t, k) /\ Passed(t, k)
        /\ undisputed'[t][k] \subseteq undisputed[t][k]
    <3>1. call[t] # null
      BY <1>1, <2>2, CallAt
    <3>2. call'[t] = call[t]
      BY <1>1, <3>1, NextServesOK DEF Clearing
    <3> QED
      BY <1>1, <3>1, <3>2, HistoryNext DEF Clearing, ClearOK
  <2>4. pc[t] \in {"sweep", "evict"}
    <3>1. pc[t] \in LabelsOf(call[t].op)
      BY <1>1, <2>2, CallAt
    <3> QED
      BY <2>3, <3>1 DEF LabelsOf, Lists, KeyLists, Clearing
  <2>5. Evict(t) \/ \E j \in Keys : SweepNext(t, j)
    BY <1>3, <2>1, <2>4
    DEF Step, Peek, AddOrUpdate, Overtaken, LookupMiss, LookupHit, RemoveMiss, RemoveHit,
        CheckExpired, CheckLive, Renew, BeginWalk, EndAdd, EndRemove, EndSerialize,
        SerializeFails, RemoveEntry, ListKeys, ClearAll, SweepEnd
  <2>6. CASE Evict(t)
    <3>1. /\ pc[t] = "evict" /\ todo' = todo /\ heap' = heap
          /\ dict' = IF dict[HeldKey(t)] = Held(t)
                     THEN [dict EXCEPT ![HeldKey(t)] = null] ELSE dict
      BY <2>6 DEF Evict
    <3>2. dict'[k] = null \/ dict'[k] = dict[k]
      BY <1>1, <3>1
    <3>3. pc[t] = "evict" /\ HeldKey(t) = k /\ Held(t) = dict[k] => dict'[k] = null
      BY <1>1, <3>1
    <3> QED
      BY <2>3, <3>1, <3>2, <3>3 DEF Passed
  <2>7. ASSUME NEW j \in Keys, SweepNext(t, j) PROVE Passed(t, k)'
    <3>1. /\ pc[t] = "sweep" /\ dict' = dict /\ heap' = heap /\ todo'[t] = todo[t] \ {j}
          /\ \/ Hold(t, j) /\ Goto(t, "evict")
             \/ Skips(t, j)
      BY <1>1, <2>7 DEF SweepNext
    <3>2. CASE k # j
      BY <2>3, <3>1, <3>2 DEF Passed
    <3>3. CASE k = j /\ Hold(t, j) /\ Goto(t, "evict")
      BY <1>1, <3>1, <3>3 DEF Passed
    <3>4. CASE k = j /\ Skips(t, j)
      BY <2>3, <3>1, <3>4 DEF Skips, Passed, Clearing
    <3> QED
      BY <3>1, <3>2, <3>3, <3>4
  <2> QED
    BY <2>5, <2>6, <2>7
<1> QED
  BY <1>2, <1>3

LEMMA NextClear ==
  ASSUME TypeInv, PairsMatch, EvictInv, HashSetInv, ClearOK,
         AbsoluteTimes = {}, SlidingSpans = {},
         NEW t \in Threads, Step(t) \/ Calls(t), Watch
  PROVE  ClearOK'
<1>1. ASSUME NEW u \in Threads, NEW k \in HashSetKeys, Clearing(u, k)' PROVE Passed(u, k)'
  BY <1>1, OthersLetClear, OwnClear
<1> QED
  BY <1>1 DEF ClearOK

(* What takes a value away for good: the key has no set any more, or one   *)
(* without what the call decides about.                                    *)
LEMMA ClearedSource ==
  ASSUME TypeInv, PairsMatch, EvictInv, HashSetInv, ClearOK,
         AbsoluteTimes = {}, SlidingSpans = {},
         NEW t \in Threads, Step(t) \/ Calls(t), NEW k \in HashSetKeys
  PROVE  dict'[k] = null \/ heap'[dict'[k]].value \cap Decided(Takes, k) = {}
<1> SUFFICES ASSUME Decided(Takes, k) # {}
             PROVE  dict'[k] = null \/ heap'[dict'[k]].value \cap Decided(Takes, k) = {}
  OBVIOUS
<1>1. /\ pc \in [Threads -> Labels] /\ dict \in [Keys -> Refs \cup {null}]
      /\ k \in Keys /\ ServesOK /\ WriterOK /\ DisputesOK /\ TypeOK
  BY DEF HashSetKeys, KeysOf, HashSetInv, TypeInv, TypeOK, LocalTypes, SharedTypes
<1>2. /\ Busy(t, Takes) /\ call'[t] = null /\ Decided(Takes, k) = undisputed[t][k]
      /\ undisputed[t][k] \subseteq About(t, k) /\ About(t, k) # {}
  BY <1>1, DecidedNext DEF DisputesOK
<1>3. /\ call[t] # null
      /\ \/ /\ call[t].op = "DelHashSet" /\ call[t].key = k
            /\ undisputed[t][k] \subseteq {call[t].value}
         \/ call[t].op = "RemoveHashSet" /\ call[t].key = k
         \/ Clearing(t, k)
         \/ call[t].op = "ClearAll"
  BY <1>2 DEF About, Busy, Takes, Clearing
<1>4. pc[t] # "idle" /\ pc[t] \in LabelsOf(call[t].op)
  <2>1. pc[t] # "idle"
    BY <1>1, <1>3 DEF TypeOK, Control
  <2> QED
    BY <1>1, <2>1, CallAt
<1>5. Step(t) /\ ~UNCHANGED call
  BY <1>2, <1>3, <1>4 DEF Calls, Invoke
<1>6. ~CheckExpired(t)
  BY NothingExpires, AtLabel, <1>1 DEF CheckExpired, EvictInv, Holding
<1>7. /\ ~LookupHit(t) /\ ~CheckLive(t) /\ ~BeginWalk(t) /\ ~Evict(t) /\ ~Peek(t)
      /\ ~Overtaken(t) /\ ~\E j \in Keys : SweepNext(t, j)
  BY <1>5 DEF LookupHit, CheckLive, BeginWalk, Evict, Peek, Overtaken, SweepNext
<1>8. CASE call[t].op = "DelHashSet" /\ call[t].key = k /\ undisputed[t][k] \subseteq {call[t].value}
  <2>1. pc[t] \in {"lookup", "check", "renew", "found", "walk"}
    BY <1>4, <1>8 DEF LabelsOf, Lists, KeyLists
  <2>2. ~Renew(t)
    BY <1>5, <1>8 DEF Renew
  <2>3. LookupMiss(t) \/ EndRemove(t)
    BY <1>5, <1>6, <1>7, <1>8, <2>1, <2>2
    DEF Step, AddOrUpdate, RemoveMiss, RemoveHit, EndAdd, EndSerialize, SerializeFails,
        RemoveEntry, ListKeys, ClearAll, SweepEnd
  <2>4. CASE LookupMiss(t)
    BY <1>8, <2>4 DEF LookupMiss
  <2>5. CASE EndRemove(t)
    BY <1>1, <1>2, <1>8, <2>5, WalkStores
  <2> QED
    BY <2>3, <2>4, <2>5
<1>9. CASE call[t].op = "RemoveHashSet" /\ call[t].key = k
  <2>1. pc[t] = "removeEntry"
    BY <1>4, <1>9 DEF LabelsOf, Lists, KeyLists
  <2>2. RemoveEntry(t)
    BY <1>5, <1>7, <2>1
    DEF Step, AddOrUpdate, LookupMiss, RemoveMiss, RemoveHit, CheckExpired, Renew, EndAdd,
        EndRemove, EndSerialize, SerializeFails, ListKeys, ClearAll, SweepEnd
  <2> QED
    BY <1>1, <1>9, <2>2 DEF RemoveEntry
<1>10. CASE call[t].op = "ClearAll"
  <2>1. pc[t] = "clearAll"
    BY <1>4, <1>10 DEF LabelsOf, Lists, KeyLists
  <2>2. ClearAll(t)
    BY <1>5, <1>7, <2>1
    DEF Step, AddOrUpdate, LookupMiss, RemoveMiss, RemoveHit, CheckExpired, Renew, EndAdd,
        EndRemove, EndSerialize, SerializeFails, RemoveEntry, ListKeys, SweepEnd
  <2> QED
    BY <1>1, <2>2 DEF ClearAll
<1>11. CASE Clearing(t, k)
  <2>1. pc[t] \in {"sweep", "evict"}
    BY <1>4, <1>11 DEF LabelsOf, Lists, KeyLists, Clearing
  <2>2. SweepEnd(t)
    BY <1>5, <1>7, <2>1
    DEF Step, AddOrUpdate, LookupMiss, RemoveMiss, RemoveHit, CheckExpired, Renew, EndAdd,
        EndRemove, EndSerialize, SerializeFails, RemoveEntry, ListKeys, ClearAll
  <2>3. pc[t] = "sweep" /\ todo[t] = {} /\ dict' = dict /\ heap' = heap
    BY <2>2 DEF SweepEnd
  <2> QED
    BY <1>2, <1>11, <2>3 DEF ClearOK, Passed
<1> QED
  BY <1>3, <1>8, <1>9, <1>10, <1>11

LEMMA NextWithdrawnStay ==
  ASSUME TypeInv, PairsMatch, EvictInv, HashSetInv, GoneInv,
         AbsoluteTimes = {}, SlidingSpans = {},
         NEW t \in Threads, Step(t) \/ Calls(t), Watch
  PROVE  WithdrawnStay'
<1> SUFFICES ASSUME NEW k \in HashSetKeys, dict'[k] # null
             PROVE  heap'[dict'[k]].value \cap gone'[k] = {}
  BY DEF WithdrawnStay, HashSetKeys
<1>1. k \in Keys /\ ServesOK /\ WriterOK /\ DisputesOK /\ ClearOK
  BY DEF HashSetKeys, KeysOf, HashSetInv, GoneInv
<1>2. gone'[k] \subseteq gone[k] \cup Decided(Takes, k)
  BY <1>1, HistoryNext
<1>3. dict[k] # null => heap[dict[k]].value \cap gone[k] = {}
  BY DEF GoneInv, WithdrawnStay, HashSetKeys
<1>4. call[t] # null /\ call[t].op = "SetHashSet" /\ call[t].key = k =>
        call[t].value \notin gone[k]
  BY <1>1, StoringDisputes
<1>5. heap'[dict'[k]].value \cap gone[k] = {}
  BY <1>1, <1>3, <1>4, StepStores DEF Untouched
<1>6. heap'[dict'[k]].value \cap Decided(Takes, k) = {}
  BY <1>1, ClearedSource
<1> QED
  BY <1>2, <1>5, <1>6

(* What a step does to the set a reader holds, in the dictionary or not.   *)
LEMMA HeldSetNext ==
  ASSUME TypeInv, PairsMatch, ServesOK, WriterOK, NEW t \in Threads, Step(t) \/ Calls(t),
         NEW u \in Threads, Reading(u), pc[u] \in {"check", "renew", "found", "walk"}
  PROVE  \/ heap'[Held(u)].value \subseteq heap[Held(u)].value
         \/ /\ EndAdd(t) /\ call[t] # null /\ call[t].op = "SetHashSet"
            /\ call[t].key = call[u].key
            /\ heap'[Held(u)].value = heap[Held(u)].value \cup {call[t].value}
<1>1. /\ TypeOK /\ Held(u) \in Refs /\ Born(Held(u)) /\ hit[u] # null
      /\ HeldKey(u) = call[u].key
  <2>1. TypeOK /\ Held(u) \in Refs /\ hit[u] # null
    BY AtLabel DEF TypeInv, TypeOK, Control, Holding
  <2>2. HeldKey(u) = call[u].key
    BY <2>1 DEF TypeOK, Control, Reading, Sweeps
  <2> QED
    BY <2>1, <2>2 DEF TypeInv, EntriesBorn
<1>2. CASE AddOrUpdate(t)
  BY <1>1, <1>2, NewIsFresh
<1>3. CASE EndAdd(t) \/ EndRemove(t)
  <2>1. CASE Held(t) # Held(u)
    BY <1>1, <1>3, <2>1, WalkStores
  <2>2. CASE Held(t) = Held(u)
    <3>1. call[t].key = call[u].key
      BY <1>1, <1>3, <2>2, WalkStores DEF PairsMatch
    <3>2. EndAdd(t) => call[t].op = "SetHashSet"
      BY DEF EndAdd
    <3> QED
      BY <1>3, <2>2, <3>1, <3>2, WalkStores
  <2> QED
    BY <2>1, <2>2
<1>4. CASE ~AddOrUpdate(t) /\ ~EndAdd(t) /\ ~EndRemove(t)
  BY <1>1, <1>4, QuietValues
<1> QED
  BY <1>2, <1>3, <1>4

LEMMA NextLacking ==
  ASSUME TypeInv, PairsMatch, EvictInv, HashSetInv, GoneInv,
         AbsoluteTimes = {}, SlidingSpans = {},
         NEW t \in Threads, Step(t) \/ Calls(t), Watch
  PROVE  LackingOK'
<1>1. ServesOK /\ WriterOK /\ DisputesOK /\ TypeOK
  BY DEF HashSetInv, TypeInv
<1> SUFFICES ASSUME NEW u \in Threads, Reading(u)'
             PROVE  /\ lacking'[u] \subseteq gone'[call'[u].key]
                    /\ pc'[u] \in {"check", "renew", "found", "walk"} =>
                         heap'[hit'[u].entry].value \cap lacking'[u] = {}
                    /\ pc'[u] = "walk" => seen'[u] \cap lacking'[u] = {}
  BY DEF LackingOK
<1>2. call[u] = null \/ call'[u] = call[u]
  BY <1>1, NextServesOK DEF Reading
<1>3. lacking'[u] \subseteq gone'[call'[u].key]
  BY <1>2, StableNext
<1>4. ASSUME call'[u] = call[u]
      PROVE  /\ Reading(u) /\ lacking'[u] \subseteq lacking[u]
             /\ lacking[u] \subseteq gone[call[u].key]
             /\ pc[u] \in {"check", "renew", "found", "walk"} =>
                  heap[Held(u)].value \cap lacking[u] = {}
             /\ pc[u] = "walk" => seen[u] \cap lacking[u] = {}
             /\ call[u].key \in HashSetKeys /\ call[u].key \in Keys /\ pc[u] # "idle"
  <2>1. Reading(u) /\ lacking'[u] \subseteq lacking[u]
    BY <1>4, StableNext DEF Reading
  <2>2. pc[u] # "idle"
    BY <1>1, <2>1 DEF Reading, TypeOK, Control
  <2>3. call[u].key \in HashSetKeys /\ call[u].key \in Keys
    BY <1>1, <2>1, <2>2, CallAt, RequestTypes DEF Reading, HashSetKeys, KeysOf
  <2> QED
    BY <2>1, <2>2, <2>3 DEF GoneInv, LackingOK
<1>5. ASSUME call'[u] = call[u], pc[u] \in {"check", "renew", "found", "walk"}
      PROVE  heap'[Held(u)].value \cap lacking'[u] = {}
  <2>1. /\ Reading(u) /\ heap[Held(u)].value \cap lacking[u] = {}
        /\ lacking'[u] \subseteq lacking[u] /\ lacking[u] \subseteq gone[call[u].key]
        /\ call[u].key \in Keys
    BY <1>4, <1>5
  <2>2. call[t] # null /\ call[t].op = "SetHashSet" /\ call[t].key = call[u].key =>
          call[t].value \notin gone[call[u].key]
    BY <1>1, <2>1, StoringDisputes
  <2> QED
    BY <1>1, <1>5, <2>1, <2>2, HeldSetNext
<1>6. CASE u # t
  <2>1. UNCHANGED <<pc[u], call[u], hit[u], seen[u]>>
    BY <1>6, OthersStay, OthersSee
  <2> QED
    BY <1>3, <1>4, <1>5, <2>1
<1>7. CASE u = t
  <2>1. call'[t] # null /\ call'[t].op = "GetHashSet"
    BY <1>7 DEF Reading
  <2>2. CASE pc'[t] = "lookup"
    BY <1>3, <1>7, <2>2
  <2>3. CASE /\ UNCHANGED <<call, dict>> /\ pc[t] = "lookup" /\ pc'[t] = "check"
             /\ hit'[t].entry = dict[call[t].key]
    <3>1. call[t].key \in HashSetKeys /\ lacking'[t] \subseteq gone[call[t].key]
      BY <1>4, <1>7, <2>3
    <3>2. dict'[call[t].key] # null
      <4>1. hit'[t] # null /\ hit'[t] \in [key : Keys, entry : Refs]
        BY <2>3, NextTypes DEF Next, TypeInv, TypeOK, LocalTypes, Control, Holding
      <4> QED
        BY <2>3, <4>1, ProviderAssumption
    <3>3. heap'[dict[call[t].key]].value = heap[dict[call[t].key]].value
      <4>1. ~AddOrUpdate(t) /\ ~EndAdd(t) /\ ~EndRemove(t)
        BY <2>3 DEF AddOrUpdate, EndAdd, EndRemove
      <4>2. dict[call[t].key] \in Refs
        BY <2>3, <3>1, <3>2 DEF HashSetKeys, KeysOf, TypeInv, TypeOK, SharedTypes
      <4> QED
        BY <4>1, <4>2, QuietValues
    <3>4. heap[dict[call[t].key]].value \cap gone[call[t].key] = {}
      BY <2>3, <3>1, <3>2 DEF GoneInv, WithdrawnStay, HashSetKeys
    <3> QED
      BY <1>3, <1>7, <2>3, <3>1, <3>3, <3>4
  <2>4. CASE /\ UNCHANGED <<call, dict, hit>> /\ pc[t] \in {"check", "renew"}
             /\ pc'[t] \in {"renew", "found"}
    BY <1>3, <1>5, <1>7, <2>4
  <2>5. CASE /\ UNCHANGED <<call, dict, hit, heap>> /\ pc[t] = "found" /\ pc'[t] = "walk"
             /\ seen'[t] = heap[Held(t)].value
    BY <1>3, <1>5, <1>7, <2>5
  <2> QED
    BY <1>1, <2>1, <2>2, <2>3, <2>4, <2>5, OwnStep
<1> QED
  BY <1>6, <1>7

LEMMA InitGone == HInit => GoneInv
<1> SUFFICES ASSUME HInit PROVE GoneInv
  OBVIOUS
<1>1. /\ dict = [k \in Keys |-> null] /\ call = [t \in Threads |-> null]
  BY DEF HInit, Init
<1>2. ClearOK /\ LackingOK
  BY <1>1 DEF ClearOK, LackingOK, Clearing, Reading
<1>3. WithdrawnStay
  BY <1>1 DEF WithdrawnStay, KeysOf
<1> QED
  BY <1>2, <1>3 DEF GoneInv

LEMMA TickGone ==
  ASSUME TypeInv, GoneInv, Tick, Watch PROVE GoneInv'
<1>1. /\ UNCHANGED <<dict, heap, pc, call, hit, seen, todo>>
      /\ \A k \in Keys : gone'[k] \subseteq gone[k]
      /\ \A k \in HashSetKeys : k \in Keys
  BY TickHistory DEF HashSetKeys, KeysOf
<1>2. ClearOK'
  <2> SUFFICES ASSUME NEW u \in Threads, NEW k \in HashSetKeys, Clearing(u, k)
               PROVE  Passed(u, k)'
    BY <1>1 DEF ClearOK, Clearing
  <2>1. Passed(u, k) /\ undisputed'[u][k] \subseteq undisputed[u][k]
    BY <1>1, HistoryNext DEF GoneInv, ClearOK, Clearing
  <2> QED
    BY <1>1, <2>1 DEF Passed
<1>3. WithdrawnStay'
  BY <1>1 DEF GoneInv, WithdrawnStay, HashSetKeys
<1>4. LackingOK'
  <2> SUFFICES ASSUME NEW u \in Threads, Reading(u)
               PROVE  /\ lacking'[u] \subseteq gone'[call[u].key]
                      /\ pc[u] \in {"check", "renew", "found", "walk"} =>
                           heap[Held(u)].value \cap lacking'[u] = {}
                      /\ pc[u] = "walk" => seen[u] \cap lacking'[u] = {}
    BY <1>1 DEF LackingOK, Reading
  <2>1. lacking'[u] \subseteq gone'[call[u].key] /\ lacking'[u] \subseteq lacking[u]
    BY <1>1, StableNext DEF Reading
  <2> QED
    BY <2>1 DEF GoneInv, LackingOK
<1> QED
  BY <1>2, <1>3, <1>4 DEF GoneInv

LEMMA NextGone ==
  ASSUME TypeInv, PairsMatch, EvictInv, HashSetInv, GoneInv,
         NEW writer \in Threads, OneWriter(writer), [HNext]_<<vars, history>>
  PROVE  GoneInv'
<1>1. AbsoluteTimes = {} /\ SlidingSpans = {}
  BY DEF OneWriter
<1>2. CASE UNCHANGED <<vars, history>>
  <2>1. UNCHANGED <<dict, heap, pc, call, hit, seen, todo, undisputed, gone, lacking>>
    BY <1>2 DEF vars, local, history
  <2> QED
    BY <2>1 DEF GoneInv, ClearOK, Clearing, Passed, LackingOK, Reading, WithdrawnStay
<1>3. ASSUME NEW t \in Threads, Step(t) \/ Calls(t), Watch PROVE GoneInv'
  BY <1>1, <1>3, NextClear, NextLacking, NextWithdrawnStay DEF GoneInv
<1> QED
  BY <1>2, <1>3, TickGone DEF HNext, Next

LEMMA GoneInvariant ==
  ASSUME NEW writer \in Threads, OneWriter(writer) PROVE HSpec => []GoneInv
<1>1. TypeInv /\ PairsMatch /\ EvictInv /\ HashSetInv /\ GoneInv /\ [HNext]_<<vars, history>>
      => GoneInv'
  BY NextGone
<1> QED
  BY <1>1, InitGone, HashSetInvariant, HInvariants, PTL DEF HSpec

(* With one thread that adds and removes members, what a client was told   *)
(* to be taken away does not come back until it is stored again, although  *)
(* that thread may hold, and change, a set that somebody else took out:    *)
(* with NoAddIsLost, the set of a key has every member its clients rely on *)
(* and none that they are rid of.                                          *)
THEOREM RemovalsLast ==
  ASSUME NEW writer \in Threads, OneWriter(writer)
  PROVE  HSpec => []WithdrawnStay
<1>1. GoneInv => WithdrawnStay
  BY DEF GoneInv
<1> QED
  BY <1>1, GoneInvariant, PTL

(* With one such thread, GetHashSet answers with no member that was away   *)
(* from its request to its answer, although it may serialize a set that    *)
(* was taken out of the dictionary meanwhile.                              *)
THEOREM ReadersSeeNoneRemoved ==
  ASSUME NEW writer \in Threads, OneWriter(writer)
  PROVE  HSpec => ReadsNoneWithdrawn
<1> DEFINE Clean(t) ==
       ( /\ pc[t] # "idle" /\ call[t].op = "GetHashSet"
         /\ pc'[t] = "idle" /\ reply'[t].status = "OK" /\ reply'[t].data # null )
         => reply'[t].data \cap lacking[t] = {}
           AllClean == \A t \in Threads : Clean(t)
<1>1. /\ TypeInv /\ HashSetInv /\ GoneInv /\ [HNext]_<<vars, history>>
      => [AllClean]_<<vars, history>>
  <2> SUFFICES ASSUME TypeInv, HashSetInv, GoneInv, HNext, NEW t \in Threads,
                      pc[t] # "idle", call[t].op = "GetHashSet", pc'[t] = "idle",
                      reply'[t].status = "OK", reply'[t].data # null
               PROVE  reply'[t].data \cap lacking[t] = {}
    BY DEF AllClean
  <2>1. ServesOK /\ pc \in [Threads -> Labels]
    BY DEF HashSetInv, TypeInv, TypeOK, LocalTypes
  <2>2. /\ call[t] # null /\ Reading(t)
        /\ pc[t] \in {"lookup", "check", "renew", "found", "walk"}
    <3>1. call[t] # null /\ pc[t] \in LabelsOf(call[t].op)
      BY <2>1, CallAt
    <3> QED
      BY <3>1 DEF LabelsOf, Lists, KeyLists, Reading
  <2>3. Step(t)
    <3>1. PICK u \in Threads : Calls(u) \/ Step(u)
      BY DEF HNext, Next, Tick
    <3>2. u = t
      BY <3>1, OthersStay
    <3> QED
      BY <3>1, <3>2 DEF Calls, Invoke
  <2>4. \A status, data : Answer(t, status, data) =>
          reply'[t].status = status /\ reply'[t].data = data
    BY DEF Answer, HashSetInv, HistoryTypes
  <2>5. ~LookupMiss(t) /\ ~CheckExpired(t)
    BY <2>4 DEF LookupMiss, CheckExpired, GotNull
  <2>6. ~SerializeFails(t)
    BY <2>4 DEF SerializeFails
  <2>7. EndSerialize(t)
    BY <2>1, <2>2, <2>3, <2>5, <2>6
    DEF Step, Peek, AddOrUpdate, Overtaken, LookupHit, RemoveMiss, RemoveHit, CheckLive,
        Renew, BeginWalk, EndAdd, EndRemove, RemoveEntry, ListKeys, ClearAll, SweepNext,
        Evict, SweepEnd
  <2>8. PICK s \in Between(seen[t], heap[Held(t)].value) : Answer(t, "OK", s)
    BY <2>7 DEF EndSerialize
  <2>9. heap[Held(t)].value \cap lacking[t] = {} /\ seen[t] \cap lacking[t] = {}
    BY <2>2, <2>7 DEF GoneInv, LackingOK, EndSerialize
  <2> QED
    BY <2>4, <2>8, <2>9 DEF Between
<1> QED
  BY <1>1, GoneInvariant, HashSetInvariant, HInvariants, PTL DEF HSpec, ReadsNoneWithdrawn

=============================================================================
