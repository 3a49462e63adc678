----------------------- MODULE ProviderRefinementProofs -----------------------
(***************************************************************************)
(* ReCacheProvider implements CacheStore: each of its steps is a step of   *)
(* the atomic map, or leaves what a client of strings can tell unchanged.  *)
(***************************************************************************)
EXTENDS ProviderRefinement, ReCacheProviderProofs

USE DEF Goto, Reply, Held, HeldKey, Hold

(* The item of a string: nothing but a new entry changes what an entry     *)
(* with a string stands for, a read renews what the map does not know.     *)
LEMMA ItemStays ==
  ASSUME TypeInv, [Next]_vars, NEW r \in Refs, Born(r), heap[r].value \in Values
  PROVE  heap'[r].value = heap[r].value /\ Mortal(heap'[r]) = Mortal(heap[r])
<1>1. /\ TypeOK /\ heap \in [Refs -> EntriesOf(Contents)] /\ heap[r] \in EntriesOf(Contents)
  BY DEF TypeInv, TypeOK, SharedTypes
<1>2. ASSUME NEW t \in Threads, AddOrUpdate(t) PROVE heap'[r].value = heap[r].value
  <2>1. r # <<t, made[t] + 1>>
    BY <1>1, ProviderAssumption DEF Born, TypeOK, SharedTypes
  <2> QED
    BY <1>1, <1>2, <2>1 DEF AddOrUpdate
<1>3. ASSUME NEW t \in Threads, Renew(t) PROVE heap'[r].value = heap[r].value
  <2>1. heap' = [heap EXCEPT ![Held(t)] = UpdateSliding(heap[Held(t)], now)]
    BY <1>3 DEF Renew
  <2> QED
    BY <1>1, <2>1 DEF UpdateSliding, EntriesOf
<1>4. ASSUME NEW t \in Threads, EndAdd(t) \/ EndRemove(t) PROVE heap'[r].value = heap[r].value
  <2>1. pc[t] \in {"found", "walk"}
    BY <1>4 DEF EndAdd, EndRemove
  <2>2. r # Held(t)
    <3>1. heap[Held(t)].value \in SUBSET Values
      BY <2>1, WalkerHoldsSet
    <3> QED
      BY <3>1, ObjectsAssumption
  <2>3. PICK after : heap' = [heap EXCEPT ![Held(t)].value = after]
    BY <1>4 DEF EndAdd, EndRemove, Change
  <2> QED
    BY <1>1, <2>2, <2>3
<1>5. ASSUME NEW t \in Threads, Step(t) \/ Calls(t), ~AddOrUpdate(t), ~Renew(t),
             ~EndAdd(t), ~EndRemove(t)
      PROVE  heap' = heap
  <2>1. CASE \E j \in Keys : SweepNext(t, j)
    BY <2>1 DEF SweepNext
  <2> QED
    BY <1>5, <2>1 DEF Step, Calls, Invoke, Peek, Overtaken, LookupMiss, LookupHit,
       RemoveMiss, RemoveHit, CheckExpired, CheckLive, BeginWalk, EndSerialize, SerializeFails, RemoveEntry,
       ListKeys, ClearAll, Evict, SweepEnd
<1>6. Tick \/ UNCHANGED vars => heap' = heap
  BY DEF Tick, vars
<1>7. heap'[r].value = heap[r].value
  BY <1>2, <1>3, <1>4, <1>5, <1>6 DEF Next
<1> QED
  BY <1>7, ExpirationFixed DEF Mortal

(* The entries the map and the calls on strings refer to.                  *)
LEMMA StringEntries ==
  ASSUME TypeInv
  PROVE  /\ \A k \in StringKeys : dict[k] # null =>
              dict[k] \in Refs /\ Born(dict[k]) /\ heap[dict[k]].value \in Values
         /\ \A t \in Threads : Finds(t) =>
              /\ Held(t) \in Refs /\ Born(Held(t)) /\ heap[Held(t)].value \in Values
              /\ call[t] \in Requests /\ hit[t] # null /\ HeldKey(t) = call[t].key
<1>1. TypeOK /\ CastsSucceed /\ EntriesBorn
  BY DEF TypeInv
<1>2. ASSUME NEW k \in StringKeys, dict[k] # null
      PROVE  dict[k] \in Refs /\ Born(dict[k]) /\ heap[dict[k]].value \in Values
  <2>1. k \in Keys /\ k.KeyType = "Set"
    BY DEF StringKeys, KeysOf
  <2> QED
    BY <1>1, <1>2, <2>1 DEF TypeOK, SharedTypes, EntriesBorn, CastsSucceed, ContentsOf
<1>3. ASSUME NEW t \in Threads, Finds(t)
      PROVE  /\ Held(t) \in Refs /\ Born(Held(t)) /\ heap[Held(t)].value \in Values
             /\ call[t] \in Requests /\ hit[t] # null /\ HeldKey(t) = call[t].key
  <2>1. pc[t] \in Holding /\ pc[t] # "idle"
    BY <1>3 DEF Finds, Holding
  <2>2. hit[t] # null /\ Held(t) \in Refs /\ call[t] \in Requests
    BY <1>1, <2>1, AtLabel DEF TypeOK, Control
  <2>3. HeldKey(t) = call[t].key
    BY <1>1, <1>3, <2>2 DEF TypeOK, Control, Sweeps, Finds
  <2>4. HeldKey(t).KeyType = "Set"
    BY <1>3, <2>2, <2>3, RequestTypes DEF Finds
  <2> QED
    BY <1>1, <2>2, <2>3, <2>4 DEF EntriesBorn, CastsSucceed, ContentsOf
<1> QED
  BY <1>2, <1>3

-----------------------------------------------------------------------------
(* What a step does to the map and to what the calls have found.           *)

LEMMA StoreAt ==
  ASSUME TypeInv, [Next]_vars, NEW k \in StringKeys
  PROVE  /\ dict'[k] = dict[k] => StoreOf'[k] = StoreOf[k]
         /\ dict'[k] = null => StoreOf'[k] = null
         /\ dict[k] = null => StoreOf[k] = null
         /\ dict[k] # null => StoreOf[k] = ItemOf(dict[k])
<1>1. /\ StoreOf[k] = IF dict[k] = null THEN null ELSE ItemOf(dict[k])
      /\ StoreOf'[k] = IF dict'[k] = null THEN null
                       ELSE [data |-> heap'[dict'[k]].value, mortal |-> Mortal(heap'[dict'[k]])]
  BY DEF StoreOf, ItemOf
<1>2. dict[k] # null => /\ heap'[dict[k]].value = heap[dict[k]].value
                        /\ Mortal(heap'[dict[k]]) = Mortal(heap[dict[k]])
  BY StringEntries, ItemStays
<1> QED
  BY <1>1, <1>2 DEF ItemOf

LEMMA StoreSame ==
  ASSUME TypeInv, [Next]_vars, \A k \in StringKeys : dict'[k] = dict[k]
  PROVE  StoreOf' = StoreOf
<1>1. \A k \in StringKeys : StoreOf'[k] = StoreOf[k]
  BY StoreAt
<1>2. /\ StoreOf = [k \in StringKeys |-> StoreOf[k]]
      /\ StoreOf' = [k \in StringKeys |-> StoreOf'[k]]
  BY DEF StoreOf
<1> HIDE DEF StoreOf
<1> QED
  BY <1>1, <1>2

LEMMA StoreLoses ==
  ASSUME TypeInv, [Next]_vars, NEW j \in StringKeys, dict'[j] = null,
         \A k \in StringKeys \ {j} : dict'[k] = dict[k]
  PROVE  StoreOf' = [StoreOf EXCEPT ![j] = null]
<1>1. \A k \in StringKeys : StoreOf'[k] = IF k = j THEN null ELSE StoreOf[k]
  BY StoreAt
<1>2. /\ StoreOf = [k \in StringKeys |-> StoreOf[k]]
      /\ StoreOf' = [k \in StringKeys |-> StoreOf'[k]]
  BY DEF StoreOf
<1> HIDE DEF StoreOf
<1> QED
  BY <1>1, <1>2

LEMMA FoundAt ==
  ASSUME TypeInv, [Next]_vars, NEW t \in Threads
  PROVE  /\ Finds(t) /\ Finds(t)' /\ hit'[t] = hit[t] => FoundOf'[t] = FoundOf[t]
         /\ ~Finds(t)' => FoundOf'[t] = null
         /\ ~Finds(t) => FoundOf[t] = null
         /\ Finds(t) => FoundOf[t] = ItemOf(Held(t))
<1>1. /\ FoundOf[t] = IF Finds(t) THEN ItemOf(Held(t)) ELSE null
      /\ FoundOf'[t] = IF Finds(t)'
                       THEN [data |-> heap'[hit'[t].entry].value, mortal |-> Mortal(heap'[hit'[t].entry])]
                       ELSE null
  BY DEF FoundOf, ItemOf
<1>2. Finds(t) => /\ heap'[Held(t)].value = heap[Held(t)].value
                  /\ Mortal(heap'[Held(t)]) = Mortal(heap[Held(t)])
  BY StringEntries, ItemStays
<1> QED
  BY <1>1, <1>2 DEF ItemOf

(* A step of thread t changes at most what t has found.                    *)
LEMMA FoundOthers ==
  ASSUME TypeInv, NEW t \in Threads, Step(t) \/ Calls(t)
  PROVE  FoundOf' = [FoundOf EXCEPT ![t] = FoundOf'[t]]
<1>1. [Next]_vars
  BY DEF Next
<1>2. \A u \in Threads \ {t} : FoundOf'[u] = FoundOf[u]
  BY <1>1, OthersStay, FoundAt DEF Finds
<1>3. /\ FoundOf = [u \in Threads |-> FoundOf[u]]
      /\ FoundOf' = [u \in Threads |-> FoundOf'[u]]
  BY DEF FoundOf
<1> HIDE DEF FoundOf
<1> QED
  BY <1>2, <1>3

-----------------------------------------------------------------------------
(* The steps, by what they are in the map.                                 *)

(* The answer of a call.                                                   *)
LEMMA AnswerTells ==
  ASSUME TypeInv, NEW t \in Threads, Step(t) \/ Calls(t), NEW status, NEW data,
         Answer(t, status, data)
  PROVE  Store!Tell(t, status, data)
<1>1. ~Finds(t)'
  BY DEF Answer, Finds, TypeInv, TypeOK, LocalTypes
<1>2. FoundOf' = [FoundOf EXCEPT ![t] = null]
  BY <1>1, FoundOthers, FoundAt DEF Next
<1> QED
  BY <1>2 DEF Answer, Store!Tell

(* A thread that goes on with nothing a client can tell has not moved.     *)
LEMMA Unseen ==
  ASSUME TypeInv, NEW t \in Threads, Step(t) \/ Calls(t), UNCHANGED <<call, reply>>,
         \A k \in StringKeys : dict'[k] = dict[k],
         \/ ~Finds(t) /\ ~Finds(t)'
         \/ Finds(t) /\ Finds(t)' /\ hit'[t] = hit[t]
  PROVE  UNCHANGED Store!storeVars
<1>1. [Next]_vars
  BY DEF Next
<1>2. StoreOf' = StoreOf
  BY <1>1, StoreSame
<1>3. FoundOf'[t] = FoundOf[t]
  BY <1>1, FoundAt
<1>4. FoundOf' = FoundOf
  <2>1. FoundOf = [FoundOf EXCEPT ![t] = FoundOf[t]]
    BY DEF FoundOf
  <2> QED
    BY <1>3, <2>1, FoundOthers
<1> QED
  BY <1>2, <1>4 DEF Store!storeVars

LEMMA InvokeAsks ==
  ASSUME TypeInv, NEW t \in Threads, NEW c \in Requests, Invoke(t, c) PROVE Store!Ask(t, c)
<1>1. call[t] = null /\ pc[t] = "idle"
  BY DEF Invoke, TypeInv, TypeOK, Control
<1>2. Calls(t) /\ [Next]_vars
  BY DEF Calls, Next
<1>3. StoreOf' = StoreOf
  BY <1>2, StoreSame DEF Invoke
<1>4. ~Finds(t) /\ ~Finds(t)'
  <2>1. pc'[t] = EntryPoint(c.op)
    BY DEF Invoke, TypeInv, TypeOK, LocalTypes
  <2>2. EntryPoint(c.op) \notin {"check", "renew"}
    BY RequestTypes DEF EntryPoint, Operations, Lists, KeyLists, Sweeps
  <2> QED
    BY <1>1, <2>1, <2>2 DEF Finds
<1>5. FoundOf' = FoundOf
  <2>1. FoundOf = [FoundOf EXCEPT ![t] = FoundOf[t]]
    BY DEF FoundOf
  <2>2. FoundOf'[t] = FoundOf[t]
    BY <1>2, <1>4, FoundAt
  <2> QED
    BY <1>2, <2>1, <2>2, FoundOthers
<1> QED
  BY <1>1, <1>3, <1>5 DEF Invoke, Store!Ask

LEMMA TickUnseen ==
  ASSUME TypeInv, Tick \/ UNCHANGED vars PROVE UNCHANGED Store!storeVars
  BY DEF Tick, vars, local, Store!storeVars, StoreOf, FoundOf, Finds, ItemOf

(* Where a call on strings is.                                             *)
LEMMA StringCall ==
  ASSUME TypeInv, NEW t \in Threads, pc[t] # "idle"
  PROVE  /\ call[t] \in Requests /\ call[t] # null
         /\ pc[t] \in LabelsOf(call[t].op)
         /\ call[t].op \in {"SetDictionary", "GetDictionary", "DelDictionary"} =>
              call[t].key \in StringKeys
         /\ call[t].op \in {"SetHashSet", "GetHashSet", "DelHashSet", "RemoveHashSet"} =>
              call[t].key \in Keys \ StringKeys
<1>1. call[t] \in Requests /\ pc[t] \in LabelsOf(call[t].op)
  BY AtLabel DEF TypeInv
<1> QED
  BY <1>1, RequestTypes DEF StringKeys, KeysOf

LEMMA SetPuts ==
  ASSUME TypeInv, NEW t \in Threads, AddOrUpdate(t) PROVE Store!StoreNext
<1> DEFINE key == call[t].key
           r == <<t, made[t] + 1>>
<1>1. /\ Step(t) /\ [Next]_vars /\ pc[t] # "idle" /\ Answer(t, "OK", null)
      /\ pc[t] \in {"add", "update"}
  BY DEF AddOrUpdate, Step, Next
<1>2. Store!Tell(t, "OK", null)
  BY <1>1, AnswerTells
<1>3. /\ dict \in [Keys -> Refs \cup {null}] /\ made \in [Threads -> 0 .. MaxEntries]
      /\ heap \in [Refs -> EntriesOf(Contents)] /\ dict' = [dict EXCEPT ![key] = r]
  BY DEF AddOrUpdate, TypeInv, TypeOK, SharedTypes
<1>4. CASE call[t].op = "SetDictionary"
  <2>1. key \in StringKeys /\ key \in Keys /\ call[t] # null
    BY <1>1, <1>4, StringCall DEF StringKeys, KeysOf
  <2>2. r \in Refs /\ r # null
    BY <1>1, <1>4, AtLabel, ProviderAssumption DEF TypeInv, Setters
  <2>3. heap'[r] = NewEntry(call[t].value, call[t].absolute, call[t].sliding)
    BY <1>3, <1>4, <2>2 DEF AddOrUpdate
  <2>4. StoreOf'[key] = Store!Item(call[t])
    <3>1. dict'[key] = r
      BY <1>3, <2>1
    <3>2. StoreOf'[key] = [data |-> heap'[r].value, mortal |-> Mortal(heap'[r])]
      <4> HIDE DEF r, key
      <4> QED
        BY <2>1, <2>2, <3>1 DEF StoreOf, ItemOf
    <3> QED
      BY <2>3, <3>2 DEF NewEntry, Mortal, Store!Item
  <2>5. \A k \in StringKeys : k # key => StoreOf'[k] = StoreOf[k]
    <3>1. \A k \in StringKeys : k # key => dict'[k] = dict[k]
      BY <1>3 DEF StringKeys, KeysOf
    <3> QED
      BY <1>1, <3>1, StoreAt
  <2>6. StoreOf' = [StoreOf EXCEPT ![key] = Store!Item(call[t])]
    <3>1. /\ StoreOf = [k \in StringKeys |-> StoreOf[k]]
          /\ StoreOf' = [k \in StringKeys |-> StoreOf'[k]]
      BY DEF StoreOf
    <3> HIDE DEF StoreOf, key
    <3> QED
      BY <2>4, <2>5, <3>1
  <2>7. Store!Put(t)
    BY <1>2, <1>4, <2>1, <2>6 DEF Store!Put, Store!Asking
  <2> QED
    BY <2>7 DEF Store!StoreNext
<1>5. CASE call[t].op = "SetHashSet"
  <2>1. key \notin StringKeys /\ call[t] # null
    BY <1>1, <1>5, StringCall
  <2>2. \A k \in StringKeys : dict'[k] = dict[k]
    BY <1>3, <2>1 DEF StringKeys, KeysOf
  <2>3. Store!Finish(t)
    BY <1>1, <1>2, <1>5, <2>1, <2>2, StoreSame DEF Store!Finish, Store!Asking
  <2> QED
    BY <2>3 DEF Store!StoreNext
<1>6. call[t].op \in {"SetDictionary", "SetHashSet"}
  BY <1>1, StringCall, RequestTypes DEF LabelsOf, Lists, KeyLists, Operations
<1> QED
  BY <1>4, <1>5, <1>6

(* The ends of the calls on hash sets, and of the lists of their keys.     *)
LEMMA EndFinishes ==
  ASSUME TypeInv, NEW t \in Threads, Step(t),
         NEW status \in {"OK", "Failed"},
         NEW data \in (SUBSET Values) \cup (SUBSET Keys) \cup (SUBSET NameSpaces) \cup {null},
         Answer(t, status, data), \A k \in StringKeys : dict'[k] = dict[k],
         call[t] # null,
         call[t].op \in {"Clear", "CleanExpired", "SetHashSet", "GetHashSet",
                "DelHashSet", "RemoveHashSet", "ListHashSet", "ListHashSetNamespaces"}
  PROVE  Store!Finish(t)
<1>1. Store!Tell(t, status, data)
  BY AnswerTells
<1>2. StoreOf' = StoreOf
  BY StoreSame DEF Next
<1>3. \E s \in {"OK", "Failed"},
         d \in ((SUBSET Values) \cup (SUBSET Keys) \cup (SUBSET NameSpaces)) \cup {null} :
        Store!Tell(t, s, d)
  BY <1>1
<1>4. Store!Asking(t, {"Clear", "CleanExpired", "SetHashSet", "GetHashSet",
                "DelHashSet", "RemoveHashSet", "ListHashSet", "ListHashSetNamespaces"})
  BY DEF Store!Asking
<1> QED
  BY <1>2, <1>3, <1>4 DEF Store!Finish

LEMMA EndFinishesEmpty ==
  ASSUME TypeInv, NEW t \in Threads, Step(t), NEW status \in {"OK", "Failed"},
         Answer(t, status, null), \A k \in StringKeys : dict'[k] = dict[k],
         call[t] # null,
         call[t].op \in {"Clear", "CleanExpired", "SetHashSet", "GetHashSet",
                "DelHashSet", "RemoveHashSet", "ListHashSet", "ListHashSetNamespaces"}
  PROVE  Store!Finish(t)
<1>1. null \in (SUBSET Values) \cup (SUBSET Keys) \cup (SUBSET NameSpaces) \cup {null}
  OBVIOUS
<1> QED
  BY <1>1, EndFinishes

(* Nothing is there.                                                       *)
LEMMA NothingMisses ==
  ASSUME TypeInv, NEW t \in Threads, LookupMiss(t) \/ RemoveMiss(t)
  PROVE  Store!StoreNext \/ UNCHANGED Store!storeVars
<1>1. /\ Step(t) /\ [Next]_vars /\ pc[t] \in {"lookup", "remove"} /\ GotNull(t)
      /\ dict[call[t].key] = null /\ dict' = dict
  BY DEF LookupMiss, RemoveMiss, Step, Next
<1>2. /\ call[t] # null /\ pc[t] # "idle"
      /\ call[t].op \in {"GetDictionary", "DelDictionary", "SetHashSet", "GetHashSet", "DelHashSet"}
  BY <1>1, StringCall, RequestTypes DEF LabelsOf, Lists, KeyLists, Operations
<1>3. ~Finds(t)
  BY <1>1 DEF Finds
<1>4. CASE call[t].op = "SetHashSet"
  <2>1. Goto(t, "set") /\ UNCHANGED <<call, reply>>
    BY <1>4 DEF GotNull, LookupMiss, RemoveMiss
  <2>2. ~Finds(t)'
    BY <2>1, <1>4 DEF Finds
  <2> QED
    BY <1>1, <1>3, <2>1, <2>2, Unseen
<1>5. CASE call[t].op \in {"GetDictionary", "DelDictionary"}
  <2>1. Store!Tell(t, "No result", null)
    BY <1>1, <1>5, AnswerTells DEF GotNull
  <2>2. StoreOf[call[t].key] = null /\ StoreOf' = StoreOf /\ FoundOf[t] = null
    BY <1>1, <1>2, <1>3, <1>5, StringCall, StoreAt, StoreSame, FoundAt
  <2>3. Store!Miss(t)
    BY <1>2, <1>5, <2>1, <2>2 DEF Store!Miss, Store!Asking
  <2> QED
    BY <2>3 DEF Store!StoreNext
<1>6. CASE call[t].op \in {"GetHashSet", "DelHashSet"}
  <2>1. Answer(t, "OK", null)
    BY <1>1, <1>6 DEF GotNull
  <2>2. Store!Finish(t)
    BY <1>1, <1>2, <1>6, <2>1, EndFinishesEmpty
  <2> QED
    BY <2>2 DEF Store!StoreNext
<1> QED
  BY <1>2, <1>4, <1>5, <1>6

LEMMA ItemNotNull ==
  ASSUME NEW r, heap[r].value \in Values PROVE ItemOf(r) # null
  BY ItemsAssumption DEF ItemOf, Mortal

(* An entry is there, and the call holds it.                               *)
LEMMA HitFinds ==
  ASSUME TypeInv, NEW t \in Threads, LookupHit(t) \/ RemoveHit(t)
  PROVE  Store!StoreNext \/ UNCHANGED Store!storeVars
<1> DEFINE key == call[t].key
<1>1. /\ Step(t) /\ [Next]_vars /\ pc[t] # "idle" /\ dict[key] # null
      /\ pc[t] \in {"lookup", "remove"}
      /\ hit'[t] = [key |-> key, entry |-> dict[key]] /\ pc'[t] = "check"
      /\ UNCHANGED <<call, reply, heap>>
  BY DEF LookupHit, RemoveHit, Step, Next, TypeInv, TypeOK, LocalTypes
<1>2. /\ call[t] # null /\ key \in Keys
      /\ call[t].op \in {"GetDictionary", "DelDictionary", "SetHashSet", "GetHashSet", "DelHashSet"}
      /\ pc[t] = "lookup" => call[t].op # "DelDictionary"
      /\ pc[t] = "remove" => call[t].op = "DelDictionary"
  BY <1>1, StringCall, RequestTypes DEF LabelsOf, Lists, KeyLists, Operations
<1>3. ~Finds(t)
  BY <1>1 DEF Finds
<1>4. FoundOf[t] = null
  BY <1>1, <1>3, FoundAt
<1>5. CASE call[t].op \notin {"GetDictionary", "DelDictionary"}
  <2>1. dict' = dict /\ ~Finds(t)'
    BY <1>1, <1>2, <1>5 DEF LookupHit, RemoveHit, Finds
  <2> QED
    BY <1>1, <1>3, <2>1, Unseen
<1>6. CASE call[t].op \in {"GetDictionary", "DelDictionary"}
  <2>1. key \in StringKeys
    BY <1>1, <1>6, StringCall
  <2>2. StoreOf[key] # null /\ StoreOf[key] = ItemOf(dict[key])
    BY <1>1, <2>1, StoreAt, ItemNotNull, StringEntries
  <2>3. FoundOf' = [FoundOf EXCEPT ![t] = StoreOf[key]]
    <3>1. Finds(t)'
      BY <1>1, <1>6 DEF Finds
    <3>2. FoundOf'[t] = [data |-> heap'[hit'[t].entry].value, mortal |-> Mortal(heap'[hit'[t].entry])]
      BY <3>1 DEF FoundOf, ItemOf
    <3>3. FoundOf'[t] = StoreOf[key]
      BY <1>1, <2>2, <3>2 DEF ItemOf
    <3> QED
      BY <1>1, <3>3, FoundOthers
  <2>4. CASE pc[t] = "lookup"
    <3>1. dict' = dict /\ call[t].op = "GetDictionary"
      BY <1>1, <1>2, <1>6, <2>4 DEF LookupHit, RemoveHit
    <3>2. StoreOf' = StoreOf
      BY <1>1, <3>1, StoreSame
    <3>3. Store!Read(t)
      BY <1>1, <1>2, <1>4, <2>2, <2>3, <3>1, <3>2 DEF Store!Read, Store!Asking
    <3> QED
      BY <3>3 DEF Store!StoreNext
  <2>5. CASE pc[t] = "remove"
    <3>1. dict' = [dict EXCEPT ![key] = null] /\ call[t].op = "DelDictionary"
      BY <1>1, <1>2, <2>5 DEF LookupHit, RemoveHit
    <3>2. dict'[key] = null /\ \A k \in StringKeys \ {key} : dict'[k] = dict[k]
      BY <1>2, <3>1 DEF TypeInv, TypeOK, SharedTypes, StringKeys, KeysOf
    <3>3. StoreOf' = [StoreOf EXCEPT ![key] = null]
      <4> HIDE DEF key
      <4> QED
        BY <1>1, <2>1, <3>2, StoreLoses
    <3>4. Store!Take(t)
      BY <1>1, <1>2, <1>4, <2>2, <2>3, <3>1, <3>3 DEF Store!Take, Store!Asking
    <3> QED
      BY <3>4 DEF Store!StoreNext
  <2> QED
    BY <1>1, <2>4, <2>5
<1> QED
  BY <1>5, <1>6

(* What a call of a string key found may be told, or be gone if mortal.    *)
LEMMA FoundDelivers ==
  ASSUME TypeInv, NEW t \in Threads, Step(t), pc[t] \in {"check", "renew"},
         call[t].op \in {"GetDictionary", "DelDictionary"},
         \/ Answer(t, "OK", heap[Held(t)].value)
         \/ Answer(t, "No result", null) /\ Mortal(heap[Held(t)]),
         dict' = dict
  PROVE  Store!Deliver(t)
<1>1. Finds(t) /\ [Next]_vars /\ call[t] # null
  BY StringCall DEF Finds, Next
<1>2. FoundOf[t] = ItemOf(Held(t)) /\ StoreOf' = StoreOf
  BY <1>1, FoundAt, StoreSame
<1>3. FoundOf[t] # null /\ FoundOf[t].data = heap[Held(t)].value
      /\ FoundOf[t].mortal = Mortal(heap[Held(t)])
  <2>1. ItemOf(hit[t].entry) # null
    <3>1. heap[hit[t].entry].value \in Values
      BY <1>1, StringEntries
    <3> QED
      BY <3>1, ItemNotNull
  <2>2. /\ ItemOf(hit[t].entry).data = heap[hit[t].entry].value
        /\ ItemOf(hit[t].entry).mortal = Mortal(heap[hit[t].entry])
    BY DEF ItemOf
  <2> HIDE DEF ItemOf, Mortal
  <2> QED
    BY <1>2, <2>1, <2>2
<1>4. \/ Store!Tell(t, "OK", heap[Held(t)].value)
      \/ Store!Tell(t, "No result", null) /\ Mortal(heap[Held(t)])
  BY AnswerTells
<1> QED
  BY <1>1, <1>2, <1>3, <1>4 DEF Store!Deliver, Store!Asking

LEMMA CheckDelivers ==
  ASSUME TypeInv, SlidingSet, NEW t \in Threads, CheckExpired(t)
  PROVE  Store!StoreNext \/ UNCHANGED Store!storeVars
<1>1. /\ Step(t) /\ [Next]_vars /\ pc[t] = "check" /\ GotNull(t) /\ dict' = dict
  BY DEF CheckExpired, Step, Next
<1>2. /\ call[t] # null /\ pc[t] # "idle"
      /\ call[t].op \in {"GetDictionary", "DelDictionary", "SetHashSet", "GetHashSet", "DelHashSet"}
  BY <1>1, StringCall, RequestTypes DEF LabelsOf, Lists, KeyLists, Operations
<1>3. Held(t) \in Refs /\ Mortal(heap[Held(t)])
  <2>1. Held(t) \in Refs
    BY <1>1, AtLabel DEF TypeInv, Holding
  <2> QED
    BY <2>1
    DEF CheckExpired, MayBeExpired, Expired, HalfWritten, PastAbsolute, PastSliding,
        SlidingSet, Mortal
<1>4. CASE call[t].op = "SetHashSet"
  <2>1. Goto(t, "set") /\ UNCHANGED <<call, reply>>
    BY <1>4, <1>1 DEF GotNull
  <2>2. ~Finds(t) /\ ~Finds(t)'
    BY <2>1, <1>4 DEF Finds
  <2> QED
    BY <1>1, <2>1, <2>2, Unseen
<1>5. CASE call[t].op \in {"GetDictionary", "DelDictionary"}
  <2>1. Store!Deliver(t)
    BY <1>1, <1>3, <1>5, FoundDelivers DEF GotNull
  <2> QED
    BY <2>1 DEF Store!StoreNext
<1>6. CASE call[t].op \in {"GetHashSet", "DelHashSet"}
  <2>1. Answer(t, "OK", null)
    BY <1>1, <1>6 DEF GotNull
  <2>2. Store!Finish(t)
    BY <1>1, <1>2, <1>6, <2>1, EndFinishesEmpty
  <2> QED
    BY <2>2 DEF Store!StoreNext
<1> QED
  BY <1>2, <1>4, <1>5, <1>6

LEMMA RenewDelivers ==
  ASSUME TypeInv, NEW t \in Threads, Renew(t)
  PROVE  Store!StoreNext \/ UNCHANGED Store!storeVars
<1>1. Step(t) /\ pc[t] = "renew" /\ dict' = dict
  BY DEF Renew, Step
<1>2. CASE call[t].op \in {"GetDictionary", "DelDictionary"}
  <2>1. Store!Deliver(t)
    BY <1>1, <1>2, FoundDelivers DEF Renew
  <2> QED
    BY <2>1 DEF Store!StoreNext
<1>3. CASE call[t].op \notin {"GetDictionary", "DelDictionary"}
  <2>1. UNCHANGED <<call, reply>>
    BY <1>3 DEF Renew
  <2>2. ~Finds(t) /\ ~Finds(t)'
    BY <1>3, <2>1 DEF Finds
  <2> QED
    BY <1>1, <2>1, <2>2, Unseen
<1> QED
  BY <1>2, <1>3

(* Steps of calls in between.                                              *)
LEMMA LoopUnseen ==
  ASSUME TypeInv, NEW t \in Threads, Peek(t) \/ Overtaken(t)
  PROVE  UNCHANGED Store!storeVars
<1>1. /\ Step(t) /\ UNCHANGED <<dict, call, reply>>
      /\ pc[t] \in {"set", "add", "update"} /\ pc'[t] \in {"set", "add", "update"}
  BY LoopGoesOn DEF Step
<1>2. ~Finds(t) /\ ~Finds(t)'
  BY <1>1 DEF Finds
<1> QED
  BY <1>1, <1>2, Unseen

LEMMA WalksUnseen ==
  ASSUME TypeInv, NEW t \in Threads, CheckLive(t) \/ BeginWalk(t)
  PROVE  UNCHANGED Store!storeVars
<1>1. /\ Step(t) /\ UNCHANGED <<dict, call, hit, reply>>
      /\ pc[t] = "check" => pc'[t] = "renew"
      /\ pc[t] # "check" => pc[t] = "found" /\ pc'[t] = "walk"
  BY DEF CheckLive, BeginWalk, Step, local, TypeInv, TypeOK, LocalTypes
<1>2. (~Finds(t) /\ ~Finds(t)') \/ (Finds(t) /\ Finds(t)')
  <2>1. CASE CheckLive(t)
    BY <1>1, <2>1 DEF Finds, CheckLive
  <2>2. CASE BeginWalk(t)
    BY <1>1, <2>2 DEF Finds, BeginWalk
  <2> QED
    BY <2>1, <2>2
<1> QED
  BY <1>1, <1>2, Unseen

LEMMA WalksFinish ==
  ASSUME TypeInv, NEW t \in Threads,
         EndAdd(t) \/ EndRemove(t) \/ EndSerialize(t) \/ SerializeFails(t)
  PROVE  Store!StoreNext
<1>1. /\ Step(t) /\ dict' = dict /\ pc[t] = "walk" /\ pc[t] # "idle"
      /\ call[t].op \in {"SetHashSet", "GetHashSet", "DelHashSet"}
  BY DEF EndAdd, EndRemove, EndSerialize, SerializeFails, Step
<1>2. call[t] # null
  BY <1>1, StringCall
<1>3. PICK status \in {"OK", "Failed"}, data \in (SUBSET Values) \cup {null} :
        Answer(t, status, data)
  <2>1. heap[Held(t)].value \in SUBSET Values /\ seen[t] \in SUBSET Values
    BY <1>1, WalkerHoldsSet DEF TypeInv, TypeOK, LocalTypes
  <2>2. CASE EndAdd(t) \/ EndRemove(t)
    <3>1. WalkOutcomes(t) \subseteq {"OK", "Failed"}
      BY DEF WalkOutcomes
    <3>2. PICK status \in WalkOutcomes(t) : Answer(t, status, null)
      BY <2>2 DEF EndAdd, EndRemove
    <3> QED
      BY <3>1, <3>2
  <2>3. CASE EndSerialize(t)
    BY <2>1, <2>3 DEF EndSerialize, Between
  <2>4. CASE SerializeFails(t)
    BY <2>4 DEF SerializeFails
  <2> QED
    BY <2>2, <2>3, <2>4
<1>4. data \in (SUBSET Values) \cup (SUBSET Keys) \cup (SUBSET NameSpaces) \cup {null}
  OBVIOUS
<1>5. Store!Finish(t)
  BY <1>1, <1>2, <1>3, <1>4, EndFinishes
<1> QED
  BY <1>5 DEF Store!StoreNext

LEMMA RemovesFinish ==
  ASSUME TypeInv, NEW t \in Threads, RemoveEntry(t) \/ SweepEnd(t)
  PROVE  Store!StoreNext
<1>1. /\ Step(t) /\ pc[t] # "idle" /\ Answer(t, "OK", null)
      /\ pc[t] \in {"removeEntry", "sweep"}
  BY DEF RemoveEntry, SweepEnd, Step
<1>2. /\ call[t] # null
      /\ pc[t] = "removeEntry" => call[t].op = "RemoveHashSet" /\ call[t].key \notin StringKeys
      /\ pc[t] = "sweep" => call[t].op \in {"Clear", "CleanExpired"}
  BY <1>1, StringCall, RequestTypes DEF LabelsOf, Lists, KeyLists, Operations
<1>3. \A k \in StringKeys : dict'[k] = dict[k]
  <2>1. CASE RemoveEntry(t)
    BY <1>2, <2>1 DEF RemoveEntry, TypeInv, TypeOK, SharedTypes, StringKeys, KeysOf
  <2>2. CASE SweepEnd(t)
    BY <2>2 DEF SweepEnd
  <2> QED
    BY <2>1, <2>2
<1>4. Store!Finish(t)
  BY <1>1, <1>2, <1>3, EndFinishesEmpty
<1> QED
  BY <1>4 DEF Store!StoreNext

LEMMA ClearAllWipes ==
  ASSUME TypeInv, NEW t \in Threads, ClearAll(t) PROVE Store!StoreNext
<1>1. /\ Step(t) /\ [Next]_vars /\ pc[t] = "clearAll" /\ Answer(t, "OK", null)
      /\ dict' = [k \in Keys |-> null]
  BY DEF ClearAll, Step, Next
<1>2. call[t] # null /\ call[t].op = "ClearAll"
  BY <1>1, StringCall, RequestTypes DEF LabelsOf, Lists, KeyLists, Operations
<1>3. StoreOf' = [k \in StringKeys |-> null]
  BY <1>1 DEF StoreOf, StringKeys, KeysOf
<1>4. Store!Tell(t, "OK", null)
  BY <1>1, AnswerTells
<1>5. Store!WipeAll(t)
  BY <1>2, <1>3, <1>4 DEF Store!WipeAll, Store!Asking
<1> QED
  BY <1>5 DEF Store!StoreNext

LEMMA ListKeysLists ==
  ASSUME TypeInv, NEW t \in Threads, ListKeys(t) PROVE Store!StoreNext
<1>1. /\ Step(t) /\ [Next]_vars /\ pc[t] = "list" /\ dict' = dict
      /\ Answer(t, "OK", Listed(call[t]))
  BY DEF ListKeys, Step, Next
<1>2. call[t] # null /\ call[t].op \in Lists /\ call[t] \in Requests
  BY <1>1, StringCall, RequestTypes DEF LabelsOf, Lists, KeyLists, Operations
<1>3. StoreOf' = StoreOf
  BY <1>1, StoreSame
<1>4. {k \in StringKeys : StoreOf[k] # null} = {k \in StringKeys : dict[k] # null}
  BY <1>1, StoreAt, StringEntries, ItemNotNull
<1>5. CASE call[t].op = "ListDictionary"
  <2>1. Listed(call[t]) = {k \in StringKeys : StoreOf[k] # null /\ k.Namespace = call[t].nameSpace}
    BY <1>4, <1>5 DEF Listed, KeyLists, StringKeys
  <2>2. Store!Tell(t, "OK",
          {k \in StringKeys : StoreOf[k] # null /\ k.Namespace = call[t].nameSpace})
    BY <1>1, <2>1, AnswerTells
  <2>3. Store!ListItems(t)
    BY <1>2, <1>3, <1>5, <2>2 DEF Store!ListItems, Store!Asking
  <2> QED
    BY <2>3 DEF Store!StoreNext
<1>6. CASE call[t].op = "ListDictionaryNamespaces"
  <2>1. Listed(call[t]) = {k.Namespace : k \in {k \in StringKeys : StoreOf[k] # null}}
    BY <1>4, <1>6 DEF Listed, KeyLists, StringKeys
  <2>2. Store!Tell(t, "OK", {k.Namespace : k \in {k \in StringKeys : StoreOf[k] # null}})
    BY <1>1, <2>1, AnswerTells
  <2>3. Store!ListNamespaces(t)
    BY <1>2, <1>3, <1>6, <2>2 DEF Store!ListNamespaces, Store!Asking
  <2> QED
    BY <2>3 DEF Store!StoreNext
<1>7. CASE call[t].op \in {"ListHashSet", "ListHashSetNamespaces"}
  <2>1. Listed(call[t]) \in (SUBSET Keys) \cup (SUBSET NameSpaces)
    BY <1>7 DEF Listed, KeysOf, Keys, KeyLists
  <2>2. Listed(call[t]) \in (SUBSET Values) \cup (SUBSET Keys) \cup (SUBSET NameSpaces) \cup {null}
    BY <2>1
  <2>3. Store!Finish(t)
    <3> DEFINE data == Listed(call[t])
    <3> HIDE DEF data
    <3>1. data \in (SUBSET Values) \cup (SUBSET Keys) \cup (SUBSET NameSpaces) \cup {null}
      BY <2>2 DEF data
    <3>2. Answer(t, "OK", data)
      BY <1>1 DEF data
    <3> QED
      BY <1>1, <1>2, <1>7, <3>1, <3>2, EndFinishes
  <2> QED
    BY <2>3 DEF Store!StoreNext
<1> QED
  BY <1>2, <1>5, <1>6, <1>7 DEF Lists, KeyLists

(* Enumerating is no step of the map.                                      *)
LEMMA SweepsUnseen ==
  ASSUME TypeInv, NEW t \in Threads, NEW k \in Keys, SweepNext(t, k)
  PROVE  UNCHANGED Store!storeVars
<1>1. /\ Step(t) /\ UNCHANGED <<dict, call, reply>> /\ pc[t] = "sweep"
      /\ pc'[t] \in {"sweep", "evict"}
  BY DEF SweepNext, Step, TypeInv, TypeOK, LocalTypes
<1>2. ~Finds(t) /\ ~Finds(t)'
  BY <1>1 DEF Finds
<1> QED
  BY <1>1, <1>2, Unseen

(* Clear wipes one item, CleanExpired lets a mortal one vanish.            *)
LEMMA EvictWipes ==
  ASSUME TypeInv, EvictInv, NEW t \in Threads, Evict(t)
  PROVE  Store!StoreNext \/ UNCHANGED Store!storeVars
<1> DEFINE key == HeldKey(t)
<1>1. /\ Step(t) /\ [Next]_vars /\ pc[t] = "evict" /\ pc'[t] = "sweep" /\ UNCHANGED <<call, reply>>
      /\ dict \in [Keys -> Refs \cup {null}] /\ StringKeys \subseteq Keys
      /\ dict' = IF dict[key] = Held(t) THEN [dict EXCEPT ![key] = null] ELSE dict
  BY DEF Evict, Step, Next, TypeInv, TypeOK, SharedTypes, LocalTypes, StringKeys, KeysOf
<1>2. call[t] # null /\ Selected(t) /\ hit[t] # null /\ Held(t) \in Refs /\ key \in Keys
  BY <1>1, StringCall, AtLabel DEF EvictInv, TypeInv, TypeOK, Control, Holding
<1>3. ~Finds(t) /\ ~Finds(t)'
  BY <1>1 DEF Finds
<1>4. CASE dict[key] # Held(t) \/ key \notin StringKeys
  <2>1. \A k \in StringKeys : dict'[k] = dict[k]
    BY <1>1, <1>4
  <2> QED
    BY <1>1, <1>3, <2>1, Unseen
<1>5. CASE dict[key] = Held(t) /\ key \in StringKeys
  <2>1. dict'[key] = null /\ \A k \in StringKeys \ {key} : dict'[k] = dict[k]
    BY <1>1, <1>5
  <2>2. StoreOf' = [StoreOf EXCEPT ![key] = null]
    <3> HIDE DEF key
    <3> QED
      BY <1>1, <1>5, <2>1, StoreLoses
  <2>3. FoundOf' = FoundOf
    <3>1. FoundOf = [FoundOf EXCEPT ![t] = FoundOf[t]]
      BY DEF FoundOf
    <3>2. FoundOf'[t] = FoundOf[t]
      BY <1>1, <1>3, FoundAt
    <3> QED
      BY <1>1, <3>1, <3>2, FoundOthers
  <2>4. dict[key] # null /\ StoreOf[key] = ItemOf(dict[key]) /\ StoreOf[key] # null
    <3>1. dict[key] # null
      BY <1>2, <1>5, ProviderAssumption
    <3> QED
      BY <1>1, <1>5, <3>1, StoreAt, StringEntries, ItemNotNull
  <2>5. CASE call[t].op = "Clear"
    <3>1. key.Namespace = call[t].nameSpace
      BY <1>2, <2>5 DEF Selected
    <3>2. Store!Asking(t, {"Clear"})
      BY <1>2, <2>5 DEF Store!Asking
    <3>3. Store!Wipe(t, key)
      <4> HIDE DEF key
      <4> QED
        BY <1>1, <2>2, <2>3, <3>1, <3>2 DEF Store!Wipe
    <3> QED
      BY <1>5, <3>3 DEF Store!StoreNext
  <2>6. CASE call[t].op # "Clear"
    <3>1. StoreOf[key].mortal
      <4>1. heap[Held(t)].absolute # null \/ heap[Held(t)].sliding # null
        BY <1>2, <2>6 DEF Selected, PastAbsolute
      <4>2. ItemOf(dict[key]).mortal = Mortal(heap[Held(t)])
        BY <1>5 DEF ItemOf
      <4> HIDE DEF key, ItemOf
      <4> QED
        BY <2>4, <4>1, <4>2 DEF Mortal
    <3>2. Store!Vanish(key)
      BY <1>1, <2>2, <2>3, <2>4, <3>1 DEF Store!Vanish
    <3> QED
      BY <1>5, <3>2 DEF Store!StoreNext
  <2> QED
    BY <2>5, <2>6
<1> QED
  BY <1>4, <1>5

-----------------------------------------------------------------------------
LEMMA NextRefines ==
  ASSUME TypeInv, EvictInv, [Next]_vars PROVE Store!StoreNext \/ UNCHANGED Store!storeVars
<1>1. CASE Tick \/ UNCHANGED vars
  BY <1>1, TickUnseen
<1>2. ASSUME NEW t \in Threads, Calls(t) PROVE Store!StoreNext
  BY <1>2, InvokeAsks DEF Calls, Store!StoreNext
<1>3. ASSUME NEW t \in Threads, Step(t) PROVE Store!StoreNext \/ UNCHANGED Store!storeVars
  BY <1>3, SetPuts, NothingMisses, HitFinds, CheckDelivers, RenewDelivers, LoopUnseen,
     WalksUnseen, WalksFinish, RemovesFinish, ClearAllWipes, ListKeysLists, SweepsUnseen, EvictWipes
  DEF Step, EvictInv
<1> QED
  BY <1>1, <1>2, <1>3 DEF Next

(* Every behaviour of the provider is one of the atomic store, whatever    *)
(* calls, sweeps and hash set operations overlap.                          *)
THEOREM ProviderRefines == Spec => StoreSpec
<1>1. Init => Store!StoreInit
  BY DEF Init, Store!StoreInit, StoreOf, FoundOf, Finds, StringKeys, KeysOf
<1>2. TypeInv /\ EvictInv /\ [Next]_vars => [Store!StoreNext]_(Store!storeVars)
  BY NextRefines
<1> QED
  BY <1>1, <1>2, TypeInvariant, EvictInvariant, PTL DEF Spec, StoreSpec, Store!StoreSpec

=============================================================================
