------------------------ MODULE ReCacheProviderProofs ------------------------
(***************************************************************************)
(* Theorems about ReCacheProvider, for any number of threads, keys, values *)
(* and entries, and any clock.                                             *)
(***************************************************************************)
EXTENDS ReCacheProvider, FiniteSetTheorems, TLAPS

USE DEF Goto, Reply, Held, HeldKey, Hold

(* What a request of each kind carries.                                    *)
LEMMA RequestTypes ==
  ASSUME NEW c \in Requests
  PROVE  /\ c # null
         /\ c.op \in Operations
         /\ c.op \in {"SetDictionary", "GetDictionary", "DelDictionary"} =>
              c.key \in Keys /\ c.key.KeyType = "Set"
         /\ c.op \in {"SetHashSet", "GetHashSet", "DelHashSet", "RemoveHashSet"} =>
              c.key \in Keys /\ c.key.KeyType = "HashSet"
         /\ c.op \in Lists \cup {"Clear", "ClearAll", "CleanExpired"} => c.key = null
         /\ c.op \in {"SetDictionary", "SetHashSet", "DelHashSet"} => c.value \in Values
         /\ c.op \in Setters =>
              /\ c.absolute \in AbsoluteTimes \cup {null}
              /\ c.sliding \in SlidingSpans \cup {null}
<1>1. c # null
  BY ObjectsAssumption
<1> QED
  BY <1>1 DEF Requests, StoreRequests, KeyRequests, KeysOf, Request, Operations, Setters,
     Lists, KeyLists

-----------------------------------------------------------------------------
(* Type correctness.  The set object a walker works on has to be a set, so *)
(* the types are only inductive together with the kinds of the contents.   *)

(* An entry somebody can reach has been created: a new one is nobody's.    *)
Born(r) == r[2] <= made[r[1]]

EntriesBorn ==
  /\ \A k \in Keys : dict[k] # null => Born(dict[k])
  /\ \A t \in Threads : hit[t] # null => Born(Held(t))

TypeInv == TypeOK /\ CastsSucceed /\ EntriesBorn

LEMMA InitTypes == Init => TypeInv
<1> SUFFICES ASSUME Init PROVE TypeInv
  OBVIOUS
<1>1. SharedTypes
  BY ProviderAssumption, TimesAssumption
  DEF Init, SharedTypes, NewEntry, EntriesOf, Contents
<1>2. LocalTypes
  BY DEF Init, LocalTypes, Labels
<1>3. \A t \in Threads : Control(t)
  BY DEF Init, Control, Holding
<1>4. CastsSucceed /\ EntriesBorn
  BY DEF Init, CastsSucceed, EntriesBorn
<1> QED
  BY <1>1, <1>2, <1>3, <1>4 DEF TypeInv, TypeOK

(* A call that returns leaves the control state of its thread and of the   *)
(* others in order.                                                        *)
LEMMA AnswerTypes ==
  ASSUME LocalTypes, \A u \in Threads : Control(u),
         NEW t \in Threads, NEW status, NEW data, Answer(t, status, data),
         \A u \in Threads \ {t} : made'[u] = made[u]
  PROVE  /\ LocalTypes'
         /\ \A u \in Threads : Control(u)'
         /\ \A u \in Threads : hit'[u] # null => hit'[u] = hit[u]
<1>1. LocalTypes'
  BY DEF Answer, LocalTypes, Labels
<1>2. ASSUME NEW u \in Threads PROVE Control(u)'
  <2>1. CASE u = t
    BY <2>1 DEF Answer, LocalTypes, Control, Holding
  <2>2. CASE u # t
    BY <2>2 DEF Answer, LocalTypes, Control
  <2> QED
    BY <2>1, <2>2
<1>3. \A u \in Threads : hit'[u] # null => hit'[u] = hit[u]
  BY DEF Answer, LocalTypes
<1> QED
  BY <1>1, <1>2, <1>3

(* A thread that goes on, with or without a pair in hand.                  *)
LEMMA GoTypes ==
  ASSUME LocalTypes, \A u \in Threads : Control(u),
         NEW t \in Threads, NEW label \in Labels \ {"idle"},
         call[t] # null, label \in LabelsOf(call[t].op), Goto(t, label),
         UNCHANGED <<call, made>>, hit' \in [Threads -> [key : Keys, entry : Refs] \cup {null}],
         \A u \in Threads \ {t} : hit'[u] = hit[u],
         label \in Holding <=> hit'[t] # null,
         hit'[t] # null /\ call[t].op \notin Sweeps => hit'[t].key = call[t].key
  PROVE  \A u \in Threads : Control(u)'
<1> SUFFICES ASSUME NEW u \in Threads PROVE Control(u)'
  OBVIOUS
<1>1. CASE u = t
  BY <1>1 DEF LocalTypes, Control
<1>2. CASE u # t
  BY <1>2 DEF LocalTypes, Control
<1> QED
  BY <1>1, <1>2

(* Where a thread is tells what it serves and what it holds.               *)
LEMMA AtLabel ==
  ASSUME TypeOK, NEW t \in Threads, pc[t] # "idle"
  PROVE  /\ call[t] \in Requests
         /\ pc[t] \in LabelsOf(call[t].op)
         /\ pc[t] \in Holding =>
              /\ hit[t] \in [key : Keys, entry : Refs]
              /\ Held(t) \in Refs
              /\ HeldKey(t) \in Keys
         /\ call[t].op \in Setters =>
              /\ made[t] + 1 \in 1 .. MaxEntries
              /\ <<t, made[t] + 1>> \in Refs
<1>1. call[t] \in Requests /\ pc[t] \in LabelsOf(call[t].op)
  BY DEF TypeOK, LocalTypes, Control
<1>2. pc[t] \in Holding => hit[t] \in [key : Keys, entry : Refs]
  BY DEF TypeOK, LocalTypes, Control
<1>3. call[t].op \in Setters => made[t] + 1 \in 1 .. MaxEntries
  BY ProviderAssumption DEF TypeOK, SharedTypes, Control
<1> QED
  BY <1>1, <1>2, <1>3 DEF Refs

LEMMA AddOrUpdateTypes ==
  ASSUME TypeInv, NEW t \in Threads, AddOrUpdate(t) PROVE TypeInv'
<1> DEFINE c == call[t]
           r == <<t, made[t] + 1>>
           value == IF c.op = "SetHashSet" THEN {c.value} ELSE c.value
<1>1. pc[t] # "idle" /\ TypeOK /\ CastsSucceed /\ EntriesBorn
  BY DEF AddOrUpdate, TypeInv
<1>2. /\ c \in Requests /\ c.op \in Setters /\ r \in Refs /\ c.key \in Keys
      /\ value \in ContentsOf(c.key.KeyType) /\ value \in Contents
      /\ c.absolute \in AbsoluteTimes \cup {null}
      /\ c.sliding \in SlidingSpans \cup {null}
  <2>1. c \in Requests /\ pc[t] \in LabelsOf(c.op)
    BY <1>1, AtLabel
  <2>2. c.op \in {"SetDictionary", "SetHashSet"}
    BY <2>1, RequestTypes DEF AddOrUpdate, LabelsOf, Lists, KeyLists, Operations
  <2>3. c.op \in Setters
    BY <2>2 DEF Setters
  <2>4. c.key \in Keys /\ c.value \in Values
    BY <2>1, <2>3, RequestTypes DEF Setters
  <2>5. value \in ContentsOf(c.key.KeyType) /\ value \in Contents
    <3>1. CASE c.op = "SetDictionary"
      <4>1. c.key.KeyType = "Set"
        BY <2>1, <2>2, <3>1, RequestTypes
      <4> QED
        BY <2>4, <3>1, <4>1 DEF ContentsOf, Contents
    <3>2. CASE c.op = "SetHashSet"
      <4>1. c.key.KeyType = "HashSet"
        BY <2>1, <2>2, <3>2, RequestTypes
      <4>2. {c.value} \in SUBSET Values /\ {c.value} \notin Values
        BY <2>4, ObjectsAssumption
      <4> QED
        BY <3>2, <4>1, <4>2 DEF ContentsOf, Contents
    <3> QED
      BY <2>2, <3>1, <3>2
  <2> QED
    BY <1>1, <2>1, <2>3, <2>4, <2>5, AtLabel, RequestTypes
<1>3. /\ heap' = [heap EXCEPT ![r] = NewEntry(value, c.absolute, c.sliding)]
      /\ dict' = [dict EXCEPT ![c.key] = r]
      /\ made' = [made EXCEPT ![t] = made[t] + 1]
      /\ Answer(t, "OK", null)
      /\ UNCHANGED <<now, broken>>
  BY DEF AddOrUpdate
<1>4. NewEntry(value, c.absolute, c.sliding) \in EntriesOf(Contents)
  BY <1>2 DEF NewEntry, EntriesOf
<1>5. SharedTypes'
  <2>1. made[t] + 1 \in 0 .. MaxEntries
    BY <1>1, <1>2, AtLabel, ProviderAssumption DEF TypeOK, SharedTypes
  <2> QED
    BY <1>1, <1>2, <1>3, <1>4, <2>1 DEF TypeOK, SharedTypes
<1>6. /\ LocalTypes'
      /\ \A u \in Threads : Control(u)'
      /\ \A u \in Threads : hit'[u] # null => hit'[u] = hit[u]
  <2>1. \A u \in Threads \ {t} : made'[u] = made[u]
    BY <1>1, <1>3 DEF TypeOK, SharedTypes
  <2> HIDE DEF c, r, value
  <2> QED
    BY <1>1, <1>3, <2>1, AnswerTypes DEF TypeOK
<1>7. CastsSucceed' /\ EntriesBorn'
  <2>1. heap'[r].value = value
    BY <1>1, <1>2, <1>3 DEF TypeOK, SharedTypes, NewEntry
  <2>2. \A q \in Refs : q # r => heap'[q] = heap[q]
    BY <1>1, <1>3 DEF TypeOK, SharedTypes
  <2>3. /\ r[2] <= made'[r[1]]
        /\ ~(r[2] <= made[r[1]])
        /\ \A q \in Refs : q[2] <= made[q[1]] => q[2] <= made'[q[1]]
    <3>1. made[t] \in Nat /\ made'[t] = made[t] + 1
      BY <1>1, <1>3, ProviderAssumption DEF TypeOK, SharedTypes
    <3>2. \A u \in Threads : u # t => made'[u] = made[u]
      BY <1>1, <1>3 DEF TypeOK, SharedTypes
    <3>3. ASSUME NEW q \in Refs, q[2] <= made[q[1]] PROVE q[2] <= made'[q[1]]
      <4>1. q[1] \in Threads /\ q[2] \in Nat
        BY DEF Refs
      <4> QED
        BY <3>1, <3>2, <3>3, <4>1
    <3> QED
      BY <3>1, <3>3
  <2>4. \A k \in Keys : dict[k] # null => dict[k] \in Refs /\ dict[k] # r
    BY <1>1, <2>3 DEF TypeOK, SharedTypes, EntriesBorn, Born
  <2>5. \A u \in Threads : hit[u] # null => Held(u) \in Refs /\ Held(u) # r
    BY <1>1, <2>3 DEF TypeOK, LocalTypes, EntriesBorn, Born
  <2>6. \A k \in Keys : dict'[k] = (IF k = c.key THEN r ELSE dict[k])
    BY <1>1, <1>3 DEF TypeOK, SharedTypes
  <2> HIDE DEF c, r, value
  <2>7. CastsSucceed'
    BY <1>1, <1>2, <1>6, <2>1, <2>2, <2>4, <2>5, <2>6 DEF CastsSucceed
  <2>8. EntriesBorn'
    BY <1>1, <1>2, <1>6, <2>3, <2>4, <2>5, <2>6 DEF EntriesBorn, Born
  <2> QED
    BY <2>7, <2>8
<1> QED
  BY <1>5, <1>6, <1>7 DEF TypeInv, TypeOK

(* A step that creates no entry: it removes keys, changes entries within   *)
(* their kind, and at most takes a pair from the dictionary.               *)
Same(q) == \A keyType \in KeyTypes :
  heap[q].value \in ContentsOf(keyType) => heap'[q].value \in ContentsOf(keyType)

LEMMA QuietTypes ==
  ASSUME TypeInv, UNCHANGED <<now, made>>, SharedTypes', LocalTypes',
         \A u \in Threads : Control(u)',
         \A k \in Keys : dict'[k] = dict[k] \/ dict'[k] = null,
         \A q \in Refs : Same(q),
         \A u \in Threads : hit'[u] # null =>
           \/ hit'[u] = hit[u]
           \/ \E k \in Keys : dict[k] # null /\ hit'[u] = [key |-> k, entry |-> dict[k]]
  PROVE  TypeInv'
<1>1. TypeOK /\ CastsSucceed /\ EntriesBorn
  BY DEF TypeInv
<1>2. \A k \in Keys : dict[k] # null =>
        /\ dict[k] \in Refs
        /\ heap'[dict[k]].value \in ContentsOf(k.KeyType)
  BY <1>1 DEF TypeOK, SharedTypes, CastsSucceed, Same, Keys
<1>3. \A u \in Threads : hit[u] # null =>
        /\ hit[u] \in [key : Keys, entry : Refs]
        /\ heap'[hit[u].entry].value \in ContentsOf(hit[u].key.KeyType)
  BY <1>1 DEF TypeOK, LocalTypes, CastsSucceed, Same, Keys
<1>4. CastsSucceed'
  <2>1. ASSUME NEW k \in Keys, dict'[k] # null
        PROVE  heap'[dict'[k]].value \in ContentsOf(k.KeyType)
    BY <1>2, <2>1
  <2>2. ASSUME NEW u \in Threads, hit'[u] # null
        PROVE  heap'[hit'[u].entry].value \in ContentsOf(hit'[u].key.KeyType)
    <3>1. CASE hit'[u] = hit[u]
      BY <1>3, <2>2, <3>1
    <3>2. CASE \E k \in Keys : dict[k] # null /\ hit'[u] = [key |-> k, entry |-> dict[k]]
      BY <1>2, <3>2
    <3> QED
      BY <2>2, <3>1, <3>2
  <2> QED
    BY <2>1, <2>2 DEF CastsSucceed
<1>5. EntriesBorn'
  <2>1. ASSUME NEW u \in Threads, hit'[u] # null PROVE hit'[u].entry[2] <= made[hit'[u].entry[1]]
    <3>1. CASE hit'[u] = hit[u]
      BY <1>1, <2>1, <3>1 DEF EntriesBorn, Born
    <3>2. CASE \E k \in Keys : dict[k] # null /\ hit'[u] = [key |-> k, entry |-> dict[k]]
      BY <1>1, <3>2 DEF EntriesBorn, Born
    <3> QED
      BY <2>1, <3>1, <3>2
  <2>2. \A k \in Keys : dict'[k] # null => dict'[k][2] <= made[dict'[k][1]]
    BY <1>1 DEF EntriesBorn, Born
  <2> QED
    BY <2>1, <2>2 DEF EntriesBorn, Born
<1> QED
  BY <1>4, <1>5 DEF TypeInv, TypeOK

LEMMA SameHeap ==
  ASSUME UNCHANGED heap, NEW q \in Refs PROVE Same(q)
  BY DEF Same

(* The three ways a call goes on when there is nothing to read.            *)
LEMMA GotNullTypes ==
  ASSUME TypeOK, NEW t \in Threads, pc[t] \in {"lookup", "remove", "check"},
         GotNull(t), UNCHANGED made
  PROVE  /\ LocalTypes'
         /\ \A u \in Threads : Control(u)'
         /\ \A u \in Threads : hit'[u] # null => hit'[u] = hit[u]
<1>1. LocalTypes /\ \A u \in Threads : Control(u)
  BY DEF TypeOK
<1>2. call[t] # null /\ call[t] \in Requests
  BY <1>1 DEF Control, LocalTypes
<1>3. CASE call[t].op = "SetHashSet"
  <2>1. Goto(t, "set") /\ hit' = [hit EXCEPT ![t] = null] /\ UNCHANGED <<call, seen, todo>>
    BY <1>3 DEF GotNull
  <2>2. LocalTypes'
    BY <1>1, <2>1 DEF LocalTypes, Labels
  <2>3. "set" \in LabelsOf(call[t].op) /\ "set" \in Labels \ {"idle"} /\ "set" \notin Holding
    BY <1>3 DEF LabelsOf, Lists, KeyLists, Labels, Holding
  <2>4. hit'[t] = null /\ \A u \in Threads \ {t} : hit'[u] = hit[u]
    BY <1>1, <2>1 DEF LocalTypes
  <2>5. \A u \in Threads : Control(u)'
    BY <1>1, <1>2, <2>1, <2>2, <2>3, <2>4, GoTypes DEF LocalTypes
  <2> QED
    BY <2>2, <2>4, <2>5
<1>4. CASE call[t].op # "SetHashSet"
  <2>1. PICK status, data : Answer(t, status, data)
    BY <1>4 DEF GotNull
  <2> QED
    BY <1>1, <2>1, AnswerTypes
<1> QED
  BY <1>3, <1>4

LEMMA NullStepTypes ==
  ASSUME TypeInv, NEW t \in Threads, LookupMiss(t) \/ RemoveMiss(t) \/ CheckExpired(t)
  PROVE  TypeInv'
<1>1. /\ TypeOK /\ pc[t] \in {"lookup", "remove", "check"} /\ GotNull(t)
      /\ UNCHANGED <<now, dict, heap, made, broken>>
  BY DEF TypeInv, LookupMiss, RemoveMiss, CheckExpired
<1>2. SharedTypes'
  BY <1>1 DEF TypeOK, SharedTypes
<1> QED
  BY <1>1, <1>2, GotNullTypes, SameHeap, QuietTypes

(* The dictionary hands out a pair, and DelDictionary takes it.            *)
LEMMA HitTypes ==
  ASSUME TypeInv, NEW t \in Threads, LookupHit(t) \/ RemoveHit(t) PROVE TypeInv'
<1>1. /\ TypeOK /\ pc[t] \in {"lookup", "remove"} /\ dict[call[t].key] # null
      /\ hit' = [hit EXCEPT ![t] = [key |-> call[t].key, entry |-> dict[call[t].key]]]
      /\ pc' = [pc EXCEPT ![t] = "check"]
      /\ UNCHANGED <<now, heap, made, call, seen, broken, todo>>
      /\ dict' = dict \/ dict' = [dict EXCEPT ![call[t].key] = null]
  BY DEF TypeInv, LookupHit, RemoveHit
<1>2. call[t] \in Requests /\ pc[t] \in LabelsOf(call[t].op)
  BY <1>1, AtLabel
<1>3. /\ call[t].op \in {"GetDictionary", "DelDictionary", "SetHashSet", "GetHashSet", "DelHashSet"}
      /\ call[t].key \in Keys /\ call[t] # null
  BY <1>1, <1>2, RequestTypes DEF LabelsOf, Lists, KeyLists, Operations
<1>4. hit'[t] \in [key : Keys, entry : Refs] /\ hit'[t] # null
  BY <1>1, <1>3, ObjectsAssumption DEF TypeOK, SharedTypes, LocalTypes
<1>5. SharedTypes'
  BY <1>1 DEF TypeOK, SharedTypes
<1>6. LocalTypes'
  BY <1>1, <1>4 DEF TypeOK, LocalTypes, Labels
<1>7. \A u \in Threads : Control(u)'
  <2>1. "check" \in LabelsOf(call[t].op) /\ "check" \in Labels \ {"idle"} /\ "check" \in Holding
    BY <1>3 DEF LabelsOf, Lists, KeyLists, Labels, Holding
  <2>2. \A u \in Threads \ {t} : hit'[u] = hit[u]
    BY <1>1 DEF TypeOK, LocalTypes
  <2>3. hit'[t].key = call[t].key
    BY <1>1 DEF TypeOK, LocalTypes
  <2> QED
    BY <1>1, <1>3, <1>4, <1>6, <2>1, <2>2, <2>3, GoTypes DEF TypeOK, LocalTypes
<1>8. \A u \in Threads : hit'[u] # null =>
           \/ hit'[u] = hit[u]
           \/ \E k \in Keys : dict[k] # null /\ hit'[u] = [key |-> k, entry |-> dict[k]]
  BY <1>1, <1>3 DEF TypeOK, LocalTypes
<1>9. \A k \in Keys : dict'[k] = dict[k] \/ dict'[k] = null
  BY <1>1 DEF TypeOK, SharedTypes
<1> QED
  BY <1>1, <1>5, <1>6, <1>7, <1>8, <1>9, SameHeap, QuietTypes

(* AddOrUpdate looks its key up, and again when it was overtaken.          *)
LEMMA LoopTypes ==
  ASSUME TypeInv, NEW t \in Threads, Peek(t) \/ Overtaken(t) PROVE TypeInv'
<1>1. /\ TypeOK /\ pc[t] \in {"set", "add", "update"}
      /\ UNCHANGED <<now, dict, heap, made, call, seen, broken, todo>>
  BY DEF TypeInv, Peek, Overtaken
<1>2. call[t] \in Requests /\ pc[t] \in LabelsOf(call[t].op)
  BY <1>1, AtLabel
<1>3. call[t].op \in Setters /\ call[t].key \in Keys /\ call[t] # null
  BY <1>1, <1>2, RequestTypes DEF LabelsOf, Lists, KeyLists, Operations, Setters
<1>4. /\ [key |-> call[t].key, entry |-> dict[call[t].key]] # null \/ dict[call[t].key] = null
      /\ dict[call[t].key] \in Refs \cup {null}
  BY <1>1, <1>3, ObjectsAssumption DEF TypeOK, SharedTypes
<1>5. PICK label \in {"set", "add", "update"} :
        /\ Goto(t, label)
        /\ \/ label = "set" /\ hit' = [hit EXCEPT ![t] = null]
           \/ label = "add" /\ hit' = hit /\ hit[t] = null
           \/ /\ label = "update" /\ dict[call[t].key] # null
              /\ hit' = [hit EXCEPT ![t] = [key |-> call[t].key, entry |-> dict[call[t].key]]]
  BY <1>1 DEF Peek, Overtaken, TypeOK, Control, Holding
<1>6. SharedTypes' /\ LocalTypes'
  BY <1>1, <1>3, <1>4, <1>5 DEF TypeOK, SharedTypes, LocalTypes, Labels
<1>7. \A u \in Threads : Control(u)'
  <2>1. label \in LabelsOf(call[t].op) /\ label \in Labels \ {"idle"}
    BY <1>3 DEF LabelsOf, Setters, Lists, KeyLists, Labels
  <2>2. \A u \in Threads \ {t} : hit'[u] = hit[u]
    BY <1>1, <1>5 DEF TypeOK, LocalTypes
  <2>3. /\ label \in Holding <=> hit'[t] # null
        /\ hit'[t] # null => hit'[t].key = call[t].key
    BY <1>1, <1>3, <1>4, <1>5 DEF Holding, TypeOK, LocalTypes
  <2> QED
    BY <1>1, <1>3, <1>5, <1>6, <2>1, <2>2, <2>3, GoTypes DEF TypeOK, LocalTypes
<1>8. \A u \in Threads : hit'[u] # null =>
           \/ hit'[u] = hit[u]
           \/ \E k \in Keys : dict[k] # null /\ hit'[u] = [key |-> k, entry |-> dict[k]]
  BY <1>1, <1>3, <1>5 DEF TypeOK, LocalTypes
<1> QED
  BY <1>1, <1>6, <1>7, <1>8, SameHeap, QuietTypes

LEMMA LoopGoesOn ==
  ASSUME TypeInv, NEW t \in Threads, Peek(t) \/ Overtaken(t)
  PROVE  /\ UNCHANGED <<now, dict, heap, made, call, seen, broken, todo, reply>>
         /\ pc[t] \in {"set", "add", "update"} /\ pc'[t] \in {"set", "add", "update"}
         /\ \A u \in Threads \ {t} : pc'[u] = pc[u] /\ hit'[u] = hit[u]
  BY DEF Peek, Overtaken, TypeInv, TypeOK, LocalTypes

LEMMA CheckLiveTypes ==
  ASSUME TypeInv, NEW t \in Threads, CheckLive(t) PROVE TypeInv'
<1>1. /\ TypeOK /\ pc[t] = "check" /\ pc' = [pc EXCEPT ![t] = "renew"]
      /\ UNCHANGED <<now, dict, heap, made, call, hit, seen, broken, todo>>
  BY DEF TypeInv, CheckLive, local
<1>2. call[t] \in Requests /\ pc[t] \in LabelsOf(call[t].op)
  BY <1>1, AtLabel
<1>3. /\ "renew" \in LabelsOf(call[t].op) /\ "renew" \in Labels \ {"idle"} /\ "renew" \in Holding
      /\ call[t] # null
  BY <1>1, <1>2, RequestTypes DEF LabelsOf, Lists, KeyLists, Operations, Labels, Holding
<1>4. SharedTypes' /\ LocalTypes'
  BY <1>1 DEF TypeOK, SharedTypes, LocalTypes, Labels
<1>5. \A u \in Threads : Control(u)'
  <2>1. hit[t] # null /\ (call[t].op \notin Sweeps => hit[t].key = call[t].key)
    BY <1>1 DEF TypeOK, Control, Holding
  <2> QED
    BY <1>1, <1>3, <1>4, <2>1, GoTypes DEF TypeOK, LocalTypes
<1> QED
  BY <1>1, <1>4, <1>5, SameHeap, QuietTypes

LEMMA RenewTypes ==
  ASSUME TypeInv, NEW t \in Threads, Renew(t) PROVE TypeInv'
<1> DEFINE r == Held(t)
<1>1. /\ TypeOK /\ pc[t] = "renew" /\ UNCHANGED <<now, dict, made, broken>>
      /\ heap' = [heap EXCEPT ![r] = UpdateSliding(heap[r], now)]
  BY DEF TypeInv, Renew
<1>2. call[t] \in Requests /\ pc[t] \in LabelsOf(call[t].op) /\ r \in Refs /\ hit[t] # null
  BY <1>1, AtLabel DEF Holding, TypeOK, Control
<1>3. /\ UpdateSliding(heap[r], now) \in EntriesOf(Contents)
      /\ UpdateSliding(heap[r], now).value = heap[r].value
  <2>1. heap[r] \in EntriesOf(Contents) /\ now \in Nat
    BY <1>1, <1>2, ProviderAssumption DEF TypeOK, SharedTypes
  <2>2. heap[r].sliding # null => now + heap[r].sliding \in Nat
    <3>1. heap[r].sliding \in SlidingSpans \cup {null}
      BY <2>1 DEF EntriesOf
    <3>2. heap[r].sliding # null => heap[r].sliding \in Nat
      BY <3>1, TimesAssumption
    <3> QED
      BY <2>1, <3>2
  <2>3. CASE heap[r].sliding = null
    BY <2>1, <2>3 DEF UpdateSliding
  <2>4. CASE heap[r].sliding # null
    <3>1. UpdateSliding(heap[r], now)
            = [heap[r] EXCEPT !.slidingFromNow = now + heap[r].sliding]
      BY <2>4 DEF UpdateSliding
    <3>2. now + heap[r].sliding \in Nat \cup {null}
      BY <2>2, <2>4
    <3> QED
      BY <2>1, <3>1, <3>2 DEF EntriesOf
  <2> QED
    BY <2>3, <2>4
<1>4. SharedTypes'
  BY <1>1, <1>2, <1>3 DEF TypeOK, SharedTypes
<1>5. \A q \in Refs : Same(q)
  BY <1>1, <1>2, <1>3 DEF TypeOK, SharedTypes, Same
<1>6. CASE call[t].op \in {"GetDictionary", "DelDictionary"}
  <2>1. Answer(t, "OK", heap[r].value)
    BY <1>6 DEF Renew
  <2>2. /\ LocalTypes' /\ \A u \in Threads : Control(u)'
        /\ \A u \in Threads : hit'[u] # null => hit'[u] = hit[u]
    BY <1>1, <2>1, AnswerTypes DEF TypeOK
  <2> QED
    BY <1>1, <1>4, <1>5, <2>2, QuietTypes
<1>7. CASE call[t].op \notin {"GetDictionary", "DelDictionary"}
  <2>1. pc' = [pc EXCEPT ![t] = "found"] /\ UNCHANGED <<call, hit, seen, todo>>
    BY <1>7 DEF Renew, local
  <2>2. /\ "found" \in LabelsOf(call[t].op) /\ "found" \in Labels \ {"idle"}
        /\ "found" \in Holding /\ call[t] # null
    BY <1>1, <1>2, <1>7, RequestTypes DEF LabelsOf, Lists, KeyLists, Operations, Labels, Holding
  <2>3. LocalTypes'
    BY <1>1, <2>1 DEF TypeOK, LocalTypes, Labels
  <2>4. call[t].op \notin Sweeps => hit[t].key = call[t].key
    BY <1>1, <1>2 DEF TypeOK, Control
  <2>5. \A u \in Threads : Control(u)'
    BY <1>1, <1>2, <2>1, <2>2, <2>3, <2>4, GoTypes DEF TypeOK, LocalTypes
  <2> QED
    BY <1>1, <1>4, <1>5, <2>1, <2>3, <2>5, QuietTypes
<1> QED
  BY <1>6, <1>7

(* What a walker has in hand is the set of its key.                        *)
LEMMA WalkerHoldsSet ==
  ASSUME TypeInv, NEW t \in Threads, pc[t] \in {"found", "walk"}
  PROVE  /\ call[t] \in Requests
         /\ call[t].op \in {"SetHashSet", "GetHashSet", "DelHashSet"}
         /\ Held(t) \in Refs
         /\ hit[t] # null
         /\ heap[Held(t)].value \in SUBSET Values
<1>1. TypeOK /\ CastsSucceed
  BY DEF TypeInv
<1>2. call[t] \in Requests /\ pc[t] \in LabelsOf(call[t].op) /\ Held(t) \in Refs
  BY <1>1, AtLabel DEF Holding
<1>3. call[t].op \in {"SetHashSet", "GetHashSet", "DelHashSet"}
  BY <1>2, RequestTypes DEF LabelsOf, Lists, KeyLists, Operations
<1>4. hit[t] # null /\ HeldKey(t) = call[t].key
  BY <1>1, <1>3 DEF TypeOK, Control, Holding, Sweeps
<1>5. HeldKey(t).KeyType = "HashSet"
  BY <1>2, <1>3, <1>4, RequestTypes
<1>6. heap[Held(t)].value \in Contents \ Values
  BY <1>1, <1>4, <1>5 DEF CastsSucceed, ContentsOf
<1> QED
  BY <1>2, <1>3, <1>4, <1>6 DEF Contents

LEMMA BeginWalkTypes ==
  ASSUME TypeInv, NEW t \in Threads, BeginWalk(t) PROVE TypeInv'
<1>1. /\ TypeOK /\ pc[t] = "found" /\ pc' = [pc EXCEPT ![t] = "walk"]
      /\ seen' = [seen EXCEPT ![t] = heap[Held(t)].value]
      /\ UNCHANGED <<now, dict, heap, made, call, hit, broken, todo>>
  BY DEF TypeInv, BeginWalk
<1>2. /\ call[t] \in Requests /\ call[t].op \in {"SetHashSet", "GetHashSet", "DelHashSet"}
      /\ heap[Held(t)].value \in SUBSET Values /\ hit[t] # null
  BY <1>1, WalkerHoldsSet
<1>3. /\ "walk" \in LabelsOf(call[t].op) /\ "walk" \in Labels \ {"idle"} /\ "walk" \in Holding
      /\ call[t] # null
  BY <1>2, RequestTypes DEF LabelsOf, Lists, KeyLists, Labels, Holding
<1>4. SharedTypes' /\ LocalTypes'
  BY <1>1, <1>2 DEF TypeOK, SharedTypes, LocalTypes, Labels
<1>5. call[t].op \notin Sweeps => hit[t].key = call[t].key
  BY <1>1, <1>2 DEF TypeOK, Control
<1>6. \A u \in Threads : Control(u)'
  BY <1>1, <1>2, <1>3, <1>4, <1>5, GoTypes DEF TypeOK, LocalTypes
<1> QED
  BY <1>1, <1>4, <1>6, SameHeap, QuietTypes

(* Any call that ends with an answer and creates no entry.                 *)
LEMMA EndTypes ==
  ASSUME TypeInv, NEW t \in Threads, NEW status, NEW data, Answer(t, status, data),
         UNCHANGED <<now, made>>, SharedTypes',
         \A k \in Keys : dict'[k] = dict[k] \/ dict'[k] = null,
         \A q \in Refs : Same(q)
  PROVE  TypeInv'
<1>1. /\ LocalTypes' /\ \A u \in Threads : Control(u)'
      /\ \A u \in Threads : hit'[u] # null => hit'[u] = hit[u]
  BY AnswerTypes DEF TypeInv, TypeOK
<1> QED
  BY <1>1, QuietTypes

LEMMA ChangeTypes ==
  ASSUME TypeInv, NEW t \in Threads, pc[t] = "walk", NEW after \in SUBSET Values,
         Change(Held(t), after), UNCHANGED <<now, dict, made>>
  PROVE  SharedTypes' /\ \A q \in Refs : Same(q)
<1> DEFINE r == Held(t)
<1>1. TypeOK /\ r \in Refs /\ heap[r].value \in SUBSET Values
  BY WalkerHoldsSet DEF TypeInv
<1>2. heap' = [heap EXCEPT ![r].value = after] /\ broken' \subseteq Threads
  BY <1>1 DEF Change, TypeOK, SharedTypes, Enumerators
<1>3. heap[r] \in EntriesOf(Contents) /\ after \in Contents
  BY <1>1 DEF TypeOK, SharedTypes, Contents
<1>4. [heap[r] EXCEPT !.value = after] \in EntriesOf(Contents)
  BY <1>3 DEF EntriesOf
<1>5. heap' \in [Refs -> EntriesOf(Contents)]
  BY <1>1, <1>2, <1>4 DEF TypeOK, SharedTypes
<1>6. SharedTypes'
  BY <1>1, <1>2, <1>5 DEF TypeOK, SharedTypes
<1>7. heap'[r].value = after /\ \A q \in Refs : q # r => heap'[q] = heap[q]
  BY <1>1, <1>2, <1>3 DEF TypeOK, SharedTypes, EntriesOf
<1>8. after \notin Values /\ heap[r].value \notin Values
  BY <1>1, ObjectsAssumption
<1>9. \A q \in Refs : Same(q)
  BY <1>3, <1>7, <1>8 DEF Same, ContentsOf, Contents
<1> QED
  BY <1>6, <1>9

LEMMA EndWalkTypes ==
  ASSUME TypeInv, NEW t \in Threads,
         EndAdd(t) \/ EndRemove(t) \/ EndSerialize(t) \/ SerializeFails(t)
  PROVE  TypeInv'
<1>1. TypeOK /\ pc[t] = "walk"
  BY DEF TypeInv, EndAdd, EndRemove, EndSerialize, SerializeFails
<1>2. CASE EndAdd(t) \/ EndRemove(t)
  <2>1. PICK after, status :
          /\ Change(Held(t), after) /\ Answer(t, status, null) /\ UNCHANGED <<now, dict, made>>
          /\ after \in SUBSET Values
    <3>1. /\ heap[Held(t)].value \in SUBSET Values /\ seen[t] \in SUBSET Values
          /\ call[t] \in Requests
      BY <1>1, WalkerHoldsSet DEF TypeOK, LocalTypes
    <3>2. CASE EndAdd(t)
      <4>1. call[t].value \in Values
        BY <3>1, <3>2, RequestTypes DEF EndAdd
      <4> QED
        BY <3>1, <3>2, <4>1 DEF EndAdd, Between
    <3>3. CASE EndRemove(t)
      BY <3>1, <3>3 DEF EndRemove, Between
    <3> QED
      BY <1>2, <3>2, <3>3
  <2>2. SharedTypes' /\ \A q \in Refs : Same(q)
    BY <1>1, <2>1, ChangeTypes
  <2> QED
    BY <2>1, <2>2, EndTypes
<1>3. CASE EndSerialize(t) \/ SerializeFails(t)
  <2>1. PICK status, data : Answer(t, status, data)
    BY <1>3 DEF EndSerialize, SerializeFails
  <2>2. UNCHANGED <<now, dict, heap, made>> /\ SharedTypes'
    BY <1>1, <1>3 DEF TypeOK, SharedTypes, EndSerialize, SerializeFails
  <2> QED
    BY <2>1, <2>2, SameHeap, EndTypes
<1> QED
  BY <1>2, <1>3

LEMMA RemovalTypes ==
  ASSUME TypeInv, NEW t \in Threads,
         RemoveEntry(t) \/ ListKeys(t) \/ ClearAll(t) \/ SweepEnd(t)
  PROVE  TypeInv'
<1>1. /\ TypeOK /\ UNCHANGED <<now, heap, made, broken>>
      /\ \E data : Answer(t, "OK", data)
      /\ \/ dict' = dict
         \/ dict' = [k \in Keys |-> null]
         \/ dict' = [dict EXCEPT ![call[t].key] = null]
  BY DEF TypeInv, RemoveEntry, ListKeys, ClearAll, SweepEnd
<1>2. \A k \in Keys : dict'[k] = dict[k] \/ dict'[k] = null
  BY <1>1 DEF TypeOK, SharedTypes
<1>3. SharedTypes'
  BY <1>1 DEF TypeOK, SharedTypes
<1> QED
  BY <1>1, <1>2, <1>3, SameHeap, EndTypes

LEMMA SweepNextTypes ==
  ASSUME TypeInv, NEW t \in Threads, NEW k \in Keys, SweepNext(t, k) PROVE TypeInv'
<1>1. /\ TypeOK /\ pc[t] = "sweep" /\ todo' = [todo EXCEPT ![t] = todo[t] \ {k}]
      /\ UNCHANGED <<now, dict, heap, made, call, seen, broken>>
  BY DEF TypeInv, SweepNext
<1>2. call[t] \in Requests /\ call[t] # null /\ call[t].op \in Sweeps
  BY <1>1, AtLabel, RequestTypes DEF LabelsOf, Lists, KeyLists, Operations, Sweeps
<1>3. SharedTypes'
  BY <1>1 DEF TypeOK, SharedTypes
<1>4. CASE Selects(t, k) /\ Hold(t, k) /\ Goto(t, "evict")
  <2>1. dict[k] \in Refs /\ dict[k] # null
    BY <1>1, <1>4 DEF Selects, TypeOK, SharedTypes
  <2>2. hit'[t] = [key |-> k, entry |-> dict[k]] /\ \A u \in Threads \ {t} : hit'[u] = hit[u]
    BY <1>1, <1>4 DEF TypeOK, LocalTypes
  <2>3. hit'[t] # null
    BY <2>1, <2>2, ObjectsAssumption
  <2>4. LocalTypes'
    BY <1>1, <1>4, <2>1 DEF TypeOK, LocalTypes, Labels
  <2>5. /\ "evict" \in LabelsOf(call[t].op) /\ "evict" \in Labels \ {"idle"}
        /\ "evict" \in Holding
    BY <1>2 DEF LabelsOf, Lists, KeyLists, Labels, Holding, Sweeps
  <2>6. \A u \in Threads : Control(u)'
    BY <1>1, <1>2, <1>4, <2>2, <2>3, <2>4, <2>5, GoTypes DEF TypeOK, LocalTypes
  <2> QED
    BY <1>1, <1>3, <2>1, <2>2, <2>4, <2>6, SameHeap, QuietTypes
<1>5. CASE UNCHANGED <<hit, pc>>
  <2>1. LocalTypes' /\ \A u \in Threads : Control(u)'
    BY <1>1, <1>5 DEF TypeOK, LocalTypes, Control
  <2> QED
    BY <1>1, <1>3, <1>5, <2>1, SameHeap, QuietTypes
<1> QED
  BY <1>4, <1>5 DEF SweepNext

LEMMA EvictTypes ==
  ASSUME TypeInv, NEW t \in Threads, Evict(t) PROVE TypeInv'
<1>1. /\ TypeOK /\ pc[t] = "evict" /\ pc' = [pc EXCEPT ![t] = "sweep"]
      /\ hit' = [hit EXCEPT ![t] = null]
      /\ dict' = dict \/ dict' = [dict EXCEPT ![HeldKey(t)] = null]
      /\ UNCHANGED <<now, heap, made, call, seen, broken, todo>>
  BY DEF TypeInv, Evict
<1>2. call[t] \in Requests /\ call[t] # null /\ call[t].op \in Sweeps
  BY <1>1, AtLabel, RequestTypes DEF LabelsOf, Lists, KeyLists, Operations, Sweeps
<1>3. SharedTypes' /\ LocalTypes'
  BY <1>1 DEF TypeOK, SharedTypes, LocalTypes, Labels
<1>4. hit'[t] = null /\ \A u \in Threads \ {t} : hit'[u] = hit[u]
  BY <1>1 DEF TypeOK, LocalTypes
<1>5. "sweep" \in LabelsOf(call[t].op) /\ "sweep" \in Labels \ {"idle"} /\ "sweep" \notin Holding
  BY <1>2 DEF LabelsOf, Lists, KeyLists, Labels, Holding, Sweeps
<1>6. \A u \in Threads : Control(u)'
  BY <1>1, <1>2, <1>3, <1>4, <1>5, GoTypes DEF TypeOK, LocalTypes
<1>7. \A k \in Keys : dict'[k] = dict[k] \/ dict'[k] = null
  BY <1>1 DEF TypeOK, SharedTypes
<1> QED
  BY <1>1, <1>3, <1>4, <1>6, <1>7, SameHeap, QuietTypes

LEMMA InvokeTypes ==
  ASSUME TypeInv, NEW t \in Threads, NEW c \in Requests, Invoke(t, c) PROVE TypeInv'
<1>1. /\ TypeOK /\ pc[t] = "idle" /\ call[t] = null
      /\ pc' = [pc EXCEPT ![t] = EntryPoint(c.op)] /\ call' = [call EXCEPT ![t] = c]
      /\ todo' = [todo EXCEPT ![t] = IF EntryPoint(c.op) = "sweep" THEN Keys ELSE {}]
      /\ c.op \in Setters => made[t] < MaxEntries
      /\ UNCHANGED <<now, dict, heap, made, hit, seen, broken>>
  BY DEF TypeInv, Invoke, TypeOK, Control
<1>2. /\ EntryPoint(c.op) \in Labels \ {"idle"}
      /\ EntryPoint(c.op) \in LabelsOf(c.op)
      /\ EntryPoint(c.op) \notin Holding
      /\ c # null
  BY RequestTypes DEF EntryPoint, LabelsOf, Labels, Holding, Operations, Lists, KeyLists, Sweeps
<1>3. SharedTypes' /\ LocalTypes'
  BY <1>1, <1>2 DEF TypeOK, SharedTypes, LocalTypes
<1>4. ASSUME NEW u \in Threads PROVE Control(u)'
  <2>1. CASE u = t
    BY <1>1, <1>2, <2>1 DEF TypeOK, LocalTypes, Control, Holding
  <2>2. CASE u # t
    BY <1>1, <2>2 DEF TypeOK, LocalTypes, Control
  <2> QED
    BY <2>1, <2>2
<1> QED
  BY <1>1, <1>3, <1>4, SameHeap, QuietTypes

LEMMA TickTypes ==
  ASSUME TypeInv, Tick PROVE TypeInv'
<1>1. TypeOK /\ CastsSucceed /\ EntriesBorn
  BY DEF TypeInv
<1>2. SharedTypes'
  BY <1>1, ProviderAssumption DEF Tick, TypeOK, SharedTypes
<1>3. LocalTypes' /\ (\A t \in Threads : Control(t)') /\ CastsSucceed' /\ EntriesBorn'
  BY <1>1 DEF Tick, local, TypeOK, LocalTypes, Control, CastsSucceed, EntriesBorn, Born
<1> QED
  BY <1>2, <1>3 DEF TypeInv, TypeOK

LEMMA NextTypes == TypeInv /\ [Next]_vars => TypeInv'
<1> SUFFICES ASSUME TypeInv, [Next]_vars PROVE TypeInv'
  OBVIOUS
<1>1. CASE Tick
  BY <1>1, TickTypes
<1>2. ASSUME NEW t \in Threads, Calls(t) PROVE TypeInv'
  BY <1>2, InvokeTypes DEF Calls
<1>3. ASSUME NEW t \in Threads, Step(t) PROVE TypeInv'
  BY <1>3, AddOrUpdateTypes, LoopTypes, NullStepTypes, HitTypes, CheckLiveTypes, RenewTypes,
     BeginWalkTypes, EndWalkTypes, RemovalTypes, SweepNextTypes, EvictTypes
  DEF Step
<1>4. CASE UNCHANGED vars
  BY <1>4 DEF vars, TypeInv, TypeOK, SharedTypes, LocalTypes, Control, CastsSucceed,
     EntriesBorn, Born
<1> QED
  BY <1>1, <1>2, <1>3, <1>4 DEF Next

THEOREM TypeInvariant == Spec => []TypeInv
<1>1. Init => TypeInv
  BY InitTypes
<1>2. TypeInv /\ [Next]_vars => TypeInv'
  BY NextTypes
<1> QED
  BY <1>1, <1>2, PTL DEF Spec

(* Every variable keeps its type, and every thread is where the code of    *)
(* its request can be, with in hand what the code has in hand.             *)
THEOREM TypeCorrect == Spec => []TypeOK
<1>1. TypeInv => TypeOK
  BY DEF TypeInv
<1> QED
  BY <1>1, TypeInvariant, PTL

(* The casts of Get<string> and Get<HashSet<string>> never fail.           *)
THEOREM CastsCorrect == Spec => []CastsSucceed
<1>1. TypeInv => CastsSucceed
  BY DEF TypeInv
<1> QED
  BY <1>1, TypeInvariant, PTL

(* A step of one thread leaves the others where they are.                  *)
LEMMA OthersStay ==
  ASSUME TypeInv, NEW t \in Threads, Step(t) \/ Calls(t), NEW u \in Threads, u # t
  PROVE  pc'[u] = pc[u] /\ call'[u] = call[u] /\ hit'[u] = hit[u] /\ todo'[u] = todo[u]
<1>1. /\ pc \in [Threads -> Labels] /\ call \in [Threads -> Requests \cup {null}]
      /\ hit \in [Threads -> [key : Keys, entry : Refs] \cup {null}]
      /\ todo \in [Threads -> SUBSET Keys]
  BY DEF TypeInv, TypeOK, LocalTypes
<1>2. CASE \E status, data : Answer(t, status, data)
  BY <1>1, <1>2 DEF Answer
<1>3. CASE Calls(t)
  BY <1>1, <1>3 DEF Calls, Invoke
<1>4. CASE LookupHit(t) \/ RemoveHit(t) \/ CheckLive(t) \/ BeginWalk(t) \/ Evict(t)
  BY <1>1, <1>4 DEF LookupHit, RemoveHit, CheckLive, BeginWalk, Evict, local
<1>5. CASE \E k \in Keys : SweepNext(t, k)
  BY <1>1, <1>5 DEF SweepNext
<1>6. CASE GotNull(t)
  BY <1>1, <1>2, <1>6 DEF GotNull
<1>7. CASE Renew(t)
  BY <1>1, <1>2, <1>7 DEF Renew, local
<1>8. CASE Peek(t) \/ Overtaken(t)
  BY <1>1, <1>8, LoopGoesOn
<1> QED
  BY <1>2, <1>3, <1>4, <1>5, <1>6, <1>7, <1>8
  DEF Step, AddOrUpdate, LookupMiss, RemoveMiss, CheckExpired, EndAdd, EndRemove,
      EndSerialize, SerializeFails, RemoveEntry, ListKeys, ClearAll, SweepEnd

-----------------------------------------------------------------------------
(* Deletion.  An entry sits at one key at most, so that taking it out of   *)
(* that key takes it out of the dictionary.                                *)

DictInjective ==
  \A j, k \in Keys : dict[j] # null /\ dict[j] = dict[k] => j = k

DeleteInv == DictInjective /\ DeletedOnce

LEMMA InitDelete == Init => DeleteInv
  BY DEF Init, DeleteInv, DictInjective, DeletedOnce, Deleting

(* Steps after which the dictionary has nothing new, and deleters hold     *)
(* what they held.                                                         *)
LEMMA DeleteKept ==
  ASSUME DeleteInv, \A k \in Keys : dict'[k] = dict[k] \/ dict'[k] = null,
         \A u \in Threads : Deleting(u)' => Deleting(u) /\ hit'[u] = hit[u],
         TypeInv
  PROVE  DeleteInv'
<1>1. DictInjective'
  BY DEF DeleteInv, DictInjective
<1>2. ASSUME NEW t \in Threads, Deleting(t)'
      PROVE  /\ \A k \in Keys : dict'[k] # Held(t)'
             /\ \A u \in Threads \ {t} : Deleting(u)' => Held(u)' # Held(t)'
  <2>1. /\ Deleting(t) /\ hit'[t] = hit[t] /\ pc[t] \in Holding /\ pc[t] # "idle"
        /\ \A k \in Keys : dict[k] # Held(t)
        /\ \A u \in Threads \ {t} : Deleting(u) => Held(u) # Held(t)
    BY <1>2 DEF DeleteInv, DeletedOnce, Deleting, Holding
  <2>2. Held(t) # null
    BY <2>1, AtLabel, ProviderAssumption DEF TypeInv
  <2> QED
    BY <2>1, <2>2
<1> QED
  BY <1>1, <1>2 DEF DeleteInv, DeletedOnce

(* RemoveHit is the only way to become a deleter.                          *)
LEMMA DeletersStay ==
  ASSUME TypeInv, NEW t \in Threads, Step(t) \/ Calls(t), ~RemoveHit(t),
         NEW u \in Threads, Deleting(u)'
  PROVE  Deleting(u) /\ hit'[u] = hit[u]
<1>1. TypeOK
  BY DEF TypeInv
<1>2. CASE Calls(t)
  <2>1. PICK c \in Requests : Invoke(t, c)
    BY <1>2 DEF Calls
  <2>2. EntryPoint(c.op) \notin {"check", "renew"}
    BY RequestTypes DEF EntryPoint, Operations, Lists, KeyLists, Sweeps
  <2> QED
    BY <1>1, <2>1, <2>2 DEF Invoke, Deleting, TypeOK, LocalTypes
<1>3. CASE \E status, data : Answer(t, status, data)
  BY <1>1, <1>3 DEF Answer, Deleting, TypeOK, LocalTypes
<1>4. CASE LookupHit(t)
  <2>1. call[t].op # "DelDictionary"
    BY <1>1, <1>4, AtLabel DEF LookupHit, LabelsOf
  <2> QED
    BY <1>1, <1>4, <2>1 DEF LookupHit, Deleting, TypeOK, LocalTypes
<1>5. CASE CheckLive(t)
  BY <1>1, <1>5 DEF CheckLive, local, Deleting, TypeOK, LocalTypes
<1>6. CASE BeginWalk(t) \/ Evict(t) \/ \E k \in Keys : SweepNext(t, k)
  <2>1. /\ UNCHANGED call
        /\ \A v \in Threads \ {t} : pc'[v] = pc[v] /\ hit'[v] = hit[v]
        /\ pc'[t] \notin {"check", "renew"}
    BY <1>1, <1>6 DEF BeginWalk, Evict, SweepNext, TypeOK, LocalTypes
  <2> QED
    BY <2>1 DEF Deleting
<1>7. CASE (LookupMiss(t) \/ RemoveMiss(t) \/ CheckExpired(t)) /\ call[t].op = "SetHashSet"
  <2>1. pc' = [pc EXCEPT ![t] = "set"] /\ hit' = [hit EXCEPT ![t] = null] /\ UNCHANGED call
    BY <1>7 DEF LookupMiss, RemoveMiss, CheckExpired, GotNull
  <2> QED
    BY <1>1, <2>1 DEF Deleting, TypeOK, LocalTypes
<1>8. CASE Renew(t) /\ call[t].op \notin {"GetDictionary", "DelDictionary"}
  <2>1. pc' = [pc EXCEPT ![t] = "found"] /\ UNCHANGED <<call, hit>>
    BY <1>8 DEF Renew, local
  <2> QED
    BY <1>1, <2>1 DEF Deleting, TypeOK, LocalTypes
<1>9. CASE Peek(t) \/ Overtaken(t)
  BY <1>9, LoopGoesOn DEF Deleting
<1>10. \/ Calls(t) \/ Peek(t) \/ Overtaken(t)
       \/ \E status, data : Answer(t, status, data)
       \/ LookupHit(t) \/ CheckLive(t) \/ BeginWalk(t) \/ Evict(t)
       \/ \E k \in Keys : SweepNext(t, k)
       \/ (LookupMiss(t) \/ RemoveMiss(t) \/ CheckExpired(t)) /\ call[t].op = "SetHashSet"
       \/ Renew(t) /\ call[t].op \notin {"GetDictionary", "DelDictionary"}
  <2>1. LookupMiss(t) \/ RemoveMiss(t) \/ CheckExpired(t) =>
          GotNull(t) /\ (call[t].op # "SetHashSet" => \E status, data : Answer(t, status, data))
    BY DEF LookupMiss, RemoveMiss, CheckExpired, GotNull
  <2>2. Renew(t) /\ call[t].op \in {"GetDictionary", "DelDictionary"}
          => \E status, data : Answer(t, status, data)
    BY DEF Renew
  <2>3. AddOrUpdate(t) \/ EndAdd(t) \/ EndRemove(t) \/ EndSerialize(t) \/ SerializeFails(t)
          \/ RemoveEntry(t) \/ ListKeys(t) \/ ClearAll(t) \/ SweepEnd(t)
          => \E status, data : Answer(t, status, data)
    BY DEF AddOrUpdate, EndAdd, EndRemove, EndSerialize, SerializeFails, RemoveEntry,
       ListKeys, ClearAll, SweepEnd
  <2> QED
    BY <2>1, <2>2, <2>3 DEF Step
<1> QED
  BY <1>2, <1>3, <1>4, <1>5, <1>6, <1>7, <1>8, <1>9, <1>10

(* No step but AddOrUpdate puts anything into the dictionary.              *)
LEMMA OnlySetAdds ==
  ASSUME TypeInv, NEW t \in Threads, Step(t) \/ Calls(t), ~AddOrUpdate(t), NEW k \in Keys
  PROVE  dict'[k] = dict[k] \/ dict'[k] = null
<1>1. dict \in [Keys -> Refs \cup {null}]
  BY DEF TypeInv, TypeOK, SharedTypes
<1>2. CASE \E j \in Keys : SweepNext(t, j)
  BY <1>2 DEF SweepNext
<1> QED
  BY <1>1, <1>2 DEF Step, Calls, Invoke, Peek, Overtaken, LookupMiss, LookupHit, RemoveMiss, RemoveHit,
     CheckExpired, CheckLive, Renew, BeginWalk, EndAdd, EndRemove, EndSerialize,
     SerializeFails, RemoveEntry, ListKeys, ClearAll, Evict, SweepEnd

LEMMA RemoveHitDelete ==
  ASSUME TypeInv, DeleteInv, NEW t \in Threads, RemoveHit(t) PROVE DeleteInv'
<1> DEFINE key == call[t].key
<1>1. /\ TypeOK /\ pc[t] = "remove" /\ dict[key] # null
      /\ hit' = [hit EXCEPT ![t] = [key |-> key, entry |-> dict[key]]]
      /\ dict' = [dict EXCEPT ![key] = null]
      /\ pc' = [pc EXCEPT ![t] = "check"] /\ UNCHANGED call
  BY DEF TypeInv, RemoveHit
<1>2. key \in Keys
  <2>1. call[t] \in Requests /\ pc[t] \in LabelsOf(call[t].op)
    BY <1>1, AtLabel
  <2>2. call[t].op = "DelDictionary"
    BY <1>1, <2>1, RequestTypes DEF LabelsOf, Lists, KeyLists, Operations
  <2> QED
    BY <2>1, <2>2, RequestTypes
<1>3. /\ Held(t)' = dict[key]
      /\ \A u \in Threads \ {t} : hit'[u] = hit[u] /\ (Deleting(u)' <=> Deleting(u))
  BY <1>1 DEF TypeOK, LocalTypes, Deleting
<1>4. /\ \A k \in Keys : dict'[k] = (IF k = key THEN null ELSE dict[k])
      /\ \A k \in Keys : k # key => dict[k] # dict[key]
  BY <1>1, <1>2 DEF TypeOK, SharedTypes, DeleteInv, DictInjective
<1>5. DictInjective'
  BY <1>4 DEF DeleteInv, DictInjective
<1>6. \A u \in Threads \ {t} : Deleting(u) =>
        /\ Held(u) # null
        /\ \A k \in Keys : dict[k] # Held(u)
        /\ \A v \in Threads \ {u} : Deleting(v) => Held(v) # Held(u)
  <2>1. ASSUME NEW u \in Threads, Deleting(u) PROVE Held(u) # null
    BY <1>1, <2>1, AtLabel, ProviderAssumption DEF Deleting, Holding
  <2> QED
    BY <2>1 DEF DeleteInv, DeletedOnce
<1>7. DeletedOnce'
  <2>1. ASSUME NEW u \in Threads \ {t}, Deleting(u)'
        PROVE  /\ \A k \in Keys : dict'[k] # Held(u)'
               /\ \A v \in Threads \ {u} : Deleting(v)' => Held(v)' # Held(u)'
    BY <1>2, <1>3, <1>4, <1>6, <2>1
  <2>2. /\ \A k \in Keys : dict'[k] # Held(t)'
        /\ \A v \in Threads \ {t} : Deleting(v)' => Held(v)' # Held(t)'
    BY <1>1, <1>2, <1>3, <1>4, <1>6
  <2> QED
    BY <2>1, <2>2 DEF DeletedOnce
<1> QED
  BY <1>5, <1>7 DEF DeleteInv

LEMMA AddOrUpdateDelete ==
  ASSUME TypeInv, DeleteInv, NEW t \in Threads, AddOrUpdate(t) PROVE DeleteInv'
<1> DEFINE r == <<t, made[t] + 1>>
<1>1. /\ TypeOK /\ EntriesBorn /\ pc[t] \in {"add", "update"} /\ Answer(t, "OK", null)
      /\ dict' = [dict EXCEPT ![call[t].key] = r]
  BY DEF TypeInv, AddOrUpdate
<1>2. \A k \in Keys : dict'[k] = dict[k] \/ (k = call[t].key /\ dict'[k] = r)
  BY <1>1 DEF TypeOK, SharedTypes
<1>3. ~(r[2] <= made[r[1]])
  BY <1>1, ProviderAssumption DEF TypeOK, SharedTypes
<1>4. \A k \in Keys : dict[k] # null => dict[k] # r
  BY <1>1, <1>3 DEF EntriesBorn, Born
<1>5. \A u \in Threads : hit[u] # null => Held(u) # r
  BY <1>1, <1>3 DEF EntriesBorn, Born
<1>6. DictInjective'
  BY <1>2, <1>4 DEF DeleteInv, DictInjective
<1>7. \A u \in Threads : Deleting(u)' => Deleting(u) /\ hit'[u] = hit[u]
  BY <1>1 DEF Answer, Deleting, TypeOK, LocalTypes
<1>8. \A u \in Threads : Deleting(u) => hit[u] # null
  BY <1>1 DEF Deleting, TypeOK, Control, Holding
<1>9. ASSUME NEW u \in Threads, Deleting(u)'
      PROVE  /\ \A k \in Keys : dict'[k] # Held(u)'
             /\ \A v \in Threads \ {u} : Deleting(v)' => Held(v)' # Held(u)'
  <2> HIDE DEF r
  <2> QED
    BY <1>2, <1>5, <1>7, <1>8, <1>9 DEF DeleteInv, DeletedOnce
<1> QED
  BY <1>6, <1>9 DEF DeleteInv, DeletedOnce

LEMMA NextDelete == TypeInv /\ DeleteInv /\ [Next]_vars => DeleteInv'
<1> SUFFICES ASSUME TypeInv, DeleteInv, [Next]_vars PROVE DeleteInv'
  OBVIOUS
<1>1. ASSUME NEW t \in Threads, Step(t) \/ Calls(t) PROVE DeleteInv'
  <2>1. CASE AddOrUpdate(t)
    BY <2>1, AddOrUpdateDelete
  <2>2. CASE RemoveHit(t)
    BY <2>2, RemoveHitDelete
  <2>3. CASE ~AddOrUpdate(t) /\ ~RemoveHit(t)
    <3>1. \A k \in Keys : dict'[k] = dict[k] \/ dict'[k] = null
      BY <1>1, <2>3, OnlySetAdds
    <3>2. \A u \in Threads : Deleting(u)' => Deleting(u) /\ hit'[u] = hit[u]
      BY <1>1, <2>3, DeletersStay
    <3> QED
      BY <3>1, <3>2, DeleteKept
  <2> QED
    BY <2>1, <2>2, <2>3
<1>2. CASE Tick \/ UNCHANGED vars
  BY <1>2, DeleteKept DEF Tick, vars, local, Deleting
<1> QED
  BY <1>1, <1>2 DEF Next

(* An entry is deleted once: while DelDictionary reads the value it took,  *)
(* the entry is at no key and no other DelDictionary has it.               *)
THEOREM DeletedForGood == Spec => []DeletedOnce
<1>1. Init => DeleteInv
  BY InitDelete
<1>2. TypeInv /\ DeleteInv /\ [Next]_vars => DeleteInv'
  BY NextDelete
<1>3. DeleteInv => DeletedOnce
  BY DEF DeleteInv
<1> QED
  BY <1>1, <1>2, <1>3, TypeInvariant, PTL DEF Spec

-----------------------------------------------------------------------------
(* Sweeps.  The reason for which a pair was selected lasts: the expiration *)
(* of an entry never changes, and time does not go back.                   *)

SlidingSet ==
  \A r \in Refs : heap[r].slidingFromNow # null => heap[r].sliding # null

Selected(t) ==
  \/ call[t].op = "Clear" /\ HeldKey(t).Namespace = call[t].nameSpace
  \/ call[t].op = "CleanExpired" /\ PastAbsolute(heap[Held(t)], now)
  \/ call[t].op = "CleanExpired" /\ heap[Held(t)].sliding # null

EvictInv ==
  /\ SlidingSet
  /\ \A t \in Threads : pc[t] = "evict" => Selected(t)

LEMMA InitEvict == Init => EvictInv
  BY DEF Init, EvictInv, SlidingSet, NewEntry

(* The end of a walk changes the value of the held entry, and only that.   *)
LEMMA WalkChanges ==
  ASSUME NEW t \in Threads, EndAdd(t) \/ EndRemove(t), TypeInv, NEW r \in Refs
  PROVE  /\ heap'[r].absolute = heap[r].absolute
         /\ heap'[r].sliding = heap[r].sliding
         /\ heap'[r].slidingFromNow = heap[r].slidingFromNow
<1>1. heap \in [Refs -> EntriesOf(Contents)] /\ heap[r] \in EntriesOf(Contents)
  BY DEF TypeInv, TypeOK, SharedTypes
<1>2. PICK after : heap' = [heap EXCEPT ![Held(t)].value = after]
  BY DEF EndAdd, EndRemove, Change
<1>3. CASE r = Held(t)
  <2>1. heap'[r] = [heap[r] EXCEPT !.value = after]
    BY <1>1, <1>2, <1>3
  <2> QED
    BY <1>1, <2>1 DEF EntriesOf
<1>4. CASE r # Held(t)
  <2>1. heap'[r] = heap[r]
    BY <1>1, <1>2, <1>4
  <2> QED
    BY <2>1
<1> QED
  BY <1>3, <1>4

(* What no step changes of an entry that exists.                           *)
LEMMA ExpirationFixed ==
  ASSUME TypeInv, [Next]_vars, NEW r \in Refs, Born(r)
  PROVE  heap'[r].absolute = heap[r].absolute /\ heap'[r].sliding = heap[r].sliding
<1>1. /\ TypeOK /\ heap \in [Refs -> EntriesOf(Contents)] /\ heap[r] \in EntriesOf(Contents)
  BY DEF TypeInv, TypeOK, SharedTypes
<1>2. ASSUME NEW t \in Threads, AddOrUpdate(t)
      PROVE  heap'[r] = heap[r]
  <2>1. r # <<t, made[t] + 1>>
    BY <1>1, ProviderAssumption DEF Born, TypeOK, SharedTypes
  <2> QED
    BY <1>1, <1>2, <2>1 DEF AddOrUpdate
<1>3. ASSUME NEW t \in Threads, Renew(t)
      PROVE  heap'[r].absolute = heap[r].absolute /\ heap'[r].sliding = heap[r].sliding
  <2>1. heap' = [heap EXCEPT ![Held(t)] = UpdateSliding(heap[Held(t)], now)]
    BY <1>3 DEF Renew
  <2>2. CASE r = Held(t)
    BY <1>1, <2>1, <2>2 DEF UpdateSliding, EntriesOf
  <2>3. CASE r # Held(t)
    BY <1>1, <2>1, <2>3
  <2> QED
    BY <2>2, <2>3
<1>4. ASSUME NEW t \in Threads, EndAdd(t) \/ EndRemove(t)
      PROVE  heap'[r].absolute = heap[r].absolute /\ heap'[r].sliding = heap[r].sliding
  BY <1>4, WalkChanges
<1>5. ASSUME NEW t \in Threads, Step(t) \/ Calls(t), ~AddOrUpdate(t), ~Renew(t),
             ~EndAdd(t), ~EndRemove(t)
      PROVE  heap' = heap
  <2>1. CASE \E j \in Keys : SweepNext(t, j)
    BY <2>1 DEF SweepNext
  <2> QED
    BY <1>5, <2>1 DEF Step, Calls, Invoke, Peek, Overtaken, LookupMiss, LookupHit,
       RemoveMiss, RemoveHit, CheckExpired, CheckLive, BeginWalk, EndSerialize, SerializeFails, RemoveEntry,
       ListKeys, ClearAll, Evict, SweepEnd
<1>6. CASE Tick \/ UNCHANGED vars
  BY <1>6 DEF Tick, vars
<1> QED
  BY <1>2, <1>3, <1>4, <1>5, <1>6 DEF Next

LEMMA NextSlidingSet ==
  ASSUME TypeInv, SlidingSet, [Next]_vars PROVE SlidingSet'
<1>1. /\ TypeOK /\ heap \in [Refs -> EntriesOf(Contents)]
      /\ \A r \in Refs : heap[r] \in EntriesOf(Contents)
  BY DEF TypeInv, TypeOK, SharedTypes
<1>2. ASSUME NEW t \in Threads, AddOrUpdate(t) PROVE SlidingSet'
  BY <1>1, <1>2 DEF AddOrUpdate, NewEntry, SlidingSet
<1>3. ASSUME NEW t \in Threads, Renew(t) PROVE SlidingSet'
  <2>1. heap' = [heap EXCEPT ![Held(t)] = UpdateSliding(heap[Held(t)], now)]
    BY <1>3 DEF Renew
  <2>2. ASSUME NEW r \in Refs, heap'[r].slidingFromNow # null PROVE heap'[r].sliding # null
    <3>1. CASE r = Held(t) /\ heap[r].sliding = null
      <4>1. heap'[r] = heap[r]
        BY <1>1, <2>1, <3>1 DEF UpdateSliding
      <4> QED
        BY <2>2, <3>1, <4>1 DEF SlidingSet
    <3>2. CASE r = Held(t) /\ heap[r].sliding # null
      <4>1. heap'[r] = [heap[r] EXCEPT !.slidingFromNow = now + heap[r].sliding]
        BY <1>1, <2>1, <3>2 DEF UpdateSliding
      <4> QED
        BY <1>1, <3>2, <4>1 DEF EntriesOf
    <3>3. CASE r # Held(t)
      BY <1>1, <2>1, <2>2, <3>3 DEF SlidingSet
    <3> QED
      BY <3>1, <3>2, <3>3
  <2> QED
    BY <2>2 DEF SlidingSet
<1>4. ASSUME NEW t \in Threads, EndAdd(t) \/ EndRemove(t) PROVE SlidingSet'
  <2>1. \A r \in Refs : heap'[r].sliding = heap[r].sliding
                       /\ heap'[r].slidingFromNow = heap[r].slidingFromNow
    BY <1>4, WalkChanges
  <2> QED
    BY <2>1 DEF SlidingSet
<1>5. ASSUME NEW t \in Threads, Step(t) \/ Calls(t), ~AddOrUpdate(t), ~Renew(t),
             ~EndAdd(t), ~EndRemove(t)
      PROVE  SlidingSet'
  <2>1. CASE \E j \in Keys : SweepNext(t, j)
    BY <2>1 DEF SweepNext, SlidingSet
  <2> QED
    BY <1>5, <2>1 DEF Step, Calls, Invoke, Peek, Overtaken, LookupMiss, LookupHit,
       RemoveMiss, RemoveHit, CheckExpired, CheckLive, BeginWalk, EndSerialize, SerializeFails, RemoveEntry,
       ListKeys, ClearAll, Evict, SweepEnd, SlidingSet
<1>6. CASE Tick \/ UNCHANGED vars
  BY <1>6 DEF Tick, vars, SlidingSet
<1> QED
  BY <1>2, <1>3, <1>4, <1>5, <1>6 DEF Next

LEMMA TimeGoesOn ==
  ASSUME TypeInv, [Next]_vars PROVE now \in Nat /\ now' \in Nat /\ now <= now'
<1>1. now \in Nat
  BY ProviderAssumption DEF TypeInv, TypeOK, SharedTypes
<1>2. CASE Tick
  BY <1>1, <1>2 DEF Tick
<1>3. ASSUME NEW t \in Threads, Step(t) \/ Calls(t) PROVE now' = now
  <2>1. CASE \E j \in Keys : SweepNext(t, j)
    BY <2>1 DEF SweepNext
  <2> QED
    BY <1>3, <2>1 DEF Step, Calls, Invoke, Peek, AddOrUpdate, Overtaken, LookupMiss,
       LookupHit, RemoveMiss, RemoveHit, CheckExpired, CheckLive, Renew, BeginWalk, EndAdd, EndRemove,
       EndSerialize, SerializeFails, RemoveEntry, ListKeys, ClearAll, Evict, SweepEnd
<1> QED
  BY <1>1, <1>2, <1>3 DEF Next, vars

(* A thread that is about to evict was there before, or has just selected. *)
LEMMA EvictorsStay ==
  ASSUME TypeInv, NEW t \in Threads, Step(t) \/ Calls(t), NEW u \in Threads, pc'[u] = "evict"
  PROVE  \/ pc[u] = "evict" /\ call'[u] = call[u] /\ hit'[u] = hit[u]
         \/ u = t /\ \E k \in Keys : SweepNext(t, k) /\ Selects(t, k) /\ Hold(t, k)
<1>1. TypeOK /\ pc \in [Threads -> Labels] /\ call \in [Threads -> Requests \cup {null}]
      /\ hit \in [Threads -> [key : Keys, entry : Refs] \cup {null}]
  BY DEF TypeInv, TypeOK, LocalTypes
<1>2. CASE Calls(t)
  <2>1. PICK c \in Requests : Invoke(t, c)
    BY <1>2 DEF Calls
  <2>2. EntryPoint(c.op) # "evict"
    BY RequestTypes DEF EntryPoint, Operations, Lists, KeyLists, Sweeps
  <2> QED
    BY <1>1, <2>1, <2>2 DEF Invoke
<1>3. CASE \E status, data : Answer(t, status, data)
  BY <1>1, <1>3 DEF Answer
<1>4. CASE LookupHit(t) \/ RemoveHit(t) \/ CheckLive(t) \/ BeginWalk(t) \/ Evict(t)
  BY <1>1, <1>4 DEF LookupHit, RemoveHit, CheckLive, BeginWalk, Evict, local
<1>5. CASE \E k \in Keys : SweepNext(t, k)
  <2>1. PICK k \in Keys : SweepNext(t, k)
    BY <1>5
  <2>2. UNCHANGED call /\ pc[t] = "sweep"
    BY <2>1 DEF SweepNext
  <2>3. CASE Selects(t, k) /\ Hold(t, k) /\ Goto(t, "evict")
    BY <1>1, <2>1, <2>2, <2>3
  <2>4. CASE UNCHANGED <<hit, pc>>
    BY <2>2, <2>4
  <2> QED
    BY <2>1, <2>3, <2>4 DEF SweepNext
<1>6. CASE (LookupMiss(t) \/ RemoveMiss(t) \/ CheckExpired(t)) /\ call[t].op = "SetHashSet"
  <2>1. pc' = [pc EXCEPT ![t] = "set"] /\ hit' = [hit EXCEPT ![t] = null] /\ UNCHANGED call
    BY <1>6 DEF LookupMiss, RemoveMiss, CheckExpired, GotNull
  <2> QED
    BY <1>1, <2>1
<1>7. CASE Renew(t) /\ call[t].op \notin {"GetDictionary", "DelDictionary"}
  <2>1. pc' = [pc EXCEPT ![t] = "found"] /\ UNCHANGED <<call, hit>>
    BY <1>7 DEF Renew, local
  <2> QED
    BY <1>1, <2>1
<1>8. CASE Peek(t) \/ Overtaken(t)
  BY <1>8, LoopGoesOn
<1>9. \/ Calls(t) \/ Peek(t) \/ Overtaken(t)
      \/ \E status, data : Answer(t, status, data)
      \/ LookupHit(t) \/ RemoveHit(t) \/ CheckLive(t) \/ BeginWalk(t) \/ Evict(t)
      \/ \E k \in Keys : SweepNext(t, k)
      \/ (LookupMiss(t) \/ RemoveMiss(t) \/ CheckExpired(t)) /\ call[t].op = "SetHashSet"
      \/ Renew(t) /\ call[t].op \notin {"GetDictionary", "DelDictionary"}
  <2>1. LookupMiss(t) \/ RemoveMiss(t) \/ CheckExpired(t) =>
          GotNull(t) /\ (call[t].op # "SetHashSet" => \E status, data : Answer(t, status, data))
    BY DEF LookupMiss, RemoveMiss, CheckExpired, GotNull
  <2>2. Renew(t) /\ call[t].op \in {"GetDictionary", "DelDictionary"}
          => \E status, data : Answer(t, status, data)
    BY DEF Renew
  <2>3. AddOrUpdate(t) \/ EndAdd(t) \/ EndRemove(t) \/ EndSerialize(t) \/ SerializeFails(t)
          \/ RemoveEntry(t) \/ ListKeys(t) \/ ClearAll(t) \/ SweepEnd(t)
          => \E status, data : Answer(t, status, data)
    BY DEF AddOrUpdate, EndAdd, EndRemove, EndSerialize, SerializeFails, RemoveEntry,
       ListKeys, ClearAll, SweepEnd
  <2> QED
    BY <2>1, <2>2, <2>3 DEF Step
<1> QED
  BY <1>2, <1>3, <1>4, <1>5, <1>6, <1>7, <1>8, <1>9

(* The reason to select a pair, once it has one, is there until it is      *)
(* acted on.                                                               *)
LEMMA SelectedStays ==
  ASSUME TypeInv, [Next]_vars, NEW u \in Threads, pc[u] = "evict", Selected(u),
         call'[u] = call[u], hit'[u] = hit[u]
  PROVE  Selected(u)'
<1>1. Held(u) \in Refs /\ Born(Held(u)) /\ hit[u] # null
  <2>1. TypeOK /\ EntriesBorn /\ hit[u] # null
    BY DEF TypeInv, TypeOK, Control, Holding
  <2> QED
    BY <2>1, AtLabel DEF EntriesBorn, Holding
<1>2. /\ heap'[Held(u)].absolute = heap[Held(u)].absolute
      /\ heap'[Held(u)].sliding = heap[Held(u)].sliding
  BY <1>1, ExpirationFixed
<1>3. PastAbsolute(heap[Held(u)], now) => PastAbsolute(heap'[Held(u)], now')
  <2>1. heap[Held(u)] \in EntriesOf(Contents)
    BY <1>1 DEF TypeInv, TypeOK, SharedTypes
  <2>2. heap[Held(u)].absolute # null => heap[Held(u)].absolute \in Nat
    BY <2>1, TimesAssumption DEF EntriesOf
  <2>3. now \in Nat /\ now' \in Nat /\ now <= now'
    BY TimeGoesOn
  <2> QED
    BY <1>2, <2>2, <2>3 DEF PastAbsolute
<1> QED
  BY <1>2, <1>3 DEF Selected

LEMMA JustSelected ==
  ASSUME TypeInv, SlidingSet, NEW t \in Threads, NEW k \in Keys,
         SweepNext(t, k), Selects(t, k), Hold(t, k)
  PROVE  Selected(t)'
<1>1. /\ hit'[t] = [key |-> k, entry |-> dict[k]]
      /\ UNCHANGED <<now, call, heap>> /\ pc[t] = "sweep"
      /\ dict[k] # null /\ dict[k] \in Refs
  BY DEF TypeInv, TypeOK, SharedTypes, LocalTypes, SweepNext, Selects
<1>2. CASE call[t].op = "Clear"
  BY <1>1, <1>2 DEF Selects, Selected
<1>3. CASE call[t].op # "Clear"
  <2>1. call[t] \in Requests /\ pc[t] \in LabelsOf(call[t].op)
    BY <1>1, AtLabel DEF TypeInv
  <2>2. call[t].op = "CleanExpired"
    BY <1>1, <1>3, <2>1, RequestTypes DEF LabelsOf, Operations, Lists, KeyLists
  <2>3. MayBeExpired(t, dict[k])
    BY <1>3 DEF Selects
  <2>4. PastAbsolute(heap[dict[k]], now) \/ heap[dict[k]].sliding # null
    BY <1>1, <2>3 DEF MayBeExpired, Expired, PastSliding, HalfWritten, SlidingSet
  <2> QED
    BY <1>1, <2>2, <2>4 DEF Selected
<1> QED
  BY <1>2, <1>3

LEMMA NextEvict == TypeInv /\ EvictInv /\ [Next]_vars => EvictInv'
<1> SUFFICES ASSUME TypeInv, EvictInv, [Next]_vars PROVE EvictInv'
  OBVIOUS
<1>1. SlidingSet'
  BY NextSlidingSet DEF EvictInv
<1>2. ASSUME NEW u \in Threads, pc'[u] = "evict" PROVE Selected(u)'
  <2>1. CASE Tick \/ UNCHANGED vars
    <3>1. pc[u] = "evict" /\ call'[u] = call[u] /\ hit'[u] = hit[u]
      BY <1>2, <2>1 DEF Tick, vars, local
    <3> QED
      BY <3>1, SelectedStays DEF EvictInv
  <2>2. ASSUME NEW t \in Threads, Step(t) \/ Calls(t) PROVE Selected(u)'
    <3>1. CASE pc[u] = "evict" /\ call'[u] = call[u] /\ hit'[u] = hit[u]
      BY <3>1, SelectedStays DEF EvictInv
    <3>2. CASE u = t /\ \E k \in Keys : SweepNext(t, k) /\ Selects(t, k) /\ Hold(t, k)
      BY <3>2, JustSelected DEF EvictInv
    <3> QED
      BY <1>2, <2>2, <3>1, <3>2, EvictorsStay
  <2> QED
    BY <2>1, <2>2 DEF Next
<1> QED
  BY <1>1, <1>2 DEF EvictInv

LEMMA EvictInvariant == Spec => []EvictInv
<1>1. Init => EvictInv
  BY InitEvict
<1>2. TypeInv /\ EvictInv /\ [Next]_vars => EvictInv'
  BY NextEvict
<1> QED
  BY <1>1, <1>2, TypeInvariant, PTL DEF Spec

(* Whatever a sweep takes out of the dictionary, it could select when it   *)
(* takes it out: Clear only its own name space, CleanExpired never an      *)
(* entry without a passed absolute deadline or a sliding span.             *)
THEOREM SweepsEvictSelected == Spec => EvictsOnlySelected
<1> DEFINE OneEviction(t, k) ==
       (Evict(t) /\ dict[k] # null /\ dict'[k] = null) =>
         \/ call[t].op = "Clear" /\ k.Namespace = call[t].nameSpace
         \/ call[t].op = "CleanExpired" /\ PastAbsolute(heap[dict[k]], now)
         \/ call[t].op = "CleanExpired" /\ heap[dict[k]].sliding # null
           Evictions == \A t \in Threads, k \in Keys : OneEviction(t, k)
<1>1. TypeInv /\ EvictInv /\ [Next]_vars => [Evictions]_vars
  <2> SUFFICES ASSUME TypeInv, EvictInv, NEW t \in Threads, NEW k \in Keys,
                      Evict(t), dict[k] # null, dict'[k] = null
               PROVE  \/ call[t].op = "Clear" /\ k.Namespace = call[t].nameSpace
                      \/ call[t].op = "CleanExpired" /\ PastAbsolute(heap[dict[k]], now)
                      \/ call[t].op = "CleanExpired" /\ heap[dict[k]].sliding # null
    OBVIOUS
  <2>1. Selected(t)
    BY DEF Evict, EvictInv
  <2>2. dict \in [Keys -> Refs \cup {null}]
    BY DEF TypeInv, TypeOK, SharedTypes
  <2>3. k = HeldKey(t) /\ dict[k] = Held(t)
    BY <2>2 DEF Evict
  <2> QED
    BY <2>1, <2>3 DEF Selected
<1> QED
  BY <1>1, TypeInvariant, EvictInvariant, PTL DEF Spec, EvictsOnlySelected

=============================================================================
