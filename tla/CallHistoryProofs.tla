-------------------------- MODULE CallHistoryProofs --------------------------
(***************************************************************************)
(* Theorems about CallHistory: what a call may serve, and what a sweep has *)
(* to leave behind, whatever the other threads do meanwhile.               *)
(***************************************************************************)
EXTENDS CallHistory, ReCacheProviderProofs

USE DEF Goto, Reply, Held, HeldKey, Hold

Sweeping == {"sweep", "evict"}
Serving  == {"renew", "found", "walk"}

LEMMA HistoryWatches ==
  /\ HInit => Init
  /\ [HNext]_<<vars, history>> => [Next]_vars
  BY DEF HInit, HNext, history

LEMMA HTypeInvariant == HSpec => []TypeInv
<1>1. HInit => TypeInv
  BY HistoryWatches, InitTypes
<1>2. TypeInv /\ [HNext]_<<vars, history>> => TypeInv'
  BY HistoryWatches, NextTypes
<1> QED
  BY <1>1, <1>2, PTL DEF HSpec

-----------------------------------------------------------------------------
(* What a thread that serves a value, sweeps or is about to exchange an    *)
(* entry has just done.                                                    *)
LEMMA WhatWasDone ==
  ASSUME TypeInv, NEW t \in Threads, Step(t) \/ Calls(t)
  PROVE  /\ pc'[t] \in Serving =>
              \/ CheckLive(t)
              \/ pc[t] \in Serving /\ call'[t] = call[t] /\ hit'[t] = hit[t]
         /\ pc'[t] \in Sweeping =>
              \/ Calls(t)
              \/ Evict(t)
              \/ \E k \in Keys : SweepNext(t, k)
         /\ pc'[t] \in Exchanging => Peek(t)
<1>1. /\ pc \in [Threads -> Labels] /\ call \in [Threads -> Requests \cup {null}]
      /\ hit \in [Threads -> [key : Keys, entry : Refs] \cup {null}]
  BY DEF TypeInv, TypeOK, LocalTypes
<1>2. CASE \E status, data : Answer(t, status, data)
  BY <1>1, <1>2 DEF Answer, Serving, Sweeping, Exchanging
<1>3. CASE Calls(t)
  <2>1. PICK c \in Requests : Invoke(t, c)
    BY <1>3 DEF Calls
  <2>2. EntryPoint(c.op) \notin Serving \cup Exchanging
    BY RequestTypes DEF EntryPoint, Operations, Lists, KeyLists, Sweeps, Serving, Exchanging
  <2> QED
    BY <1>1, <1>3, <2>1, <2>2 DEF Invoke
<1>4. CASE LookupHit(t) \/ RemoveHit(t) \/ CheckLive(t) \/ BeginWalk(t) \/ Evict(t)
  BY <1>1, <1>4
  DEF LookupHit, RemoveHit, CheckLive, BeginWalk, Evict, local, Serving, Sweeping, Exchanging
<1>5. CASE \E k \in Keys : SweepNext(t, k)
  <2>1. pc[t] = "sweep" /\ pc'[t] \in Sweeping
    BY <1>1, <1>5 DEF SweepNext, Sweeping
  <2> QED
    BY <1>5, <2>1 DEF Serving, Sweeping, Exchanging
<1>6. CASE GotNull(t)
  BY <1>1, <1>2, <1>6 DEF GotNull, Serving, Sweeping, Exchanging
<1>7. CASE Renew(t)
  BY <1>1, <1>2, <1>7 DEF Renew, local, Serving, Sweeping, Exchanging
<1>8. CASE Peek(t) \/ Overtaken(t)
  BY <1>1, <1>8 DEF Peek, Overtaken, Serving, Sweeping, Exchanging
<1> QED
  BY <1>2, <1>3, <1>4, <1>5, <1>6, <1>7, <1>8
  DEF Step, AddOrUpdate, LookupMiss, RemoveMiss, CheckExpired, EndAdd, EndRemove,
      EndSerialize, SerializeFails, RemoveEntry, ListKeys, ClearAll, SweepEnd

-----------------------------------------------------------------------------
(* The history variables: when a call began is past, and an entry that was *)
(* in the dictionary then is never made again.                             *)

BeganOK ==
  /\ began \in [Threads -> Nat]
  /\ \A t \in Threads : began[t] <= now

BeforeOK ==
  \A t \in Threads, k \in Keys :
    before[t][k] # null => before[t][k] \in Refs /\ Born(before[t][k])

LEMMA NextBegan ==
  ASSUME TypeInv, BeganOK, HNext PROVE BeganOK'
<1>1. now \in Nat /\ now' \in Nat /\ now <= now'
  BY TimeGoesOn DEF HNext
<1>2. ASSUME NEW t \in Threads PROVE began'[t] \in {now', began[t], 0}
  BY <1>2 DEF HNext, Watch
<1>3. \A t \in Threads : began[t] \in Nat /\ began'[t] \in Nat /\ began'[t] <= now'
  BY <1>1, <1>2 DEF BeganOK
<1>4. began' = [t \in Threads |-> began'[t]]
  BY DEF HNext, Watch
<1> QED
  BY <1>3, <1>4 DEF BeganOK

(* What exists goes on existing.                                           *)
LEMMA BornStays ==
  ASSUME TypeInv, [Next]_vars, NEW r \in Refs, Born(r) PROVE Born(r)'
<1>1. made \in [Threads -> 0 .. MaxEntries] /\ r[1] \in Threads /\ r[2] \in Nat
  BY DEF TypeInv, TypeOK, SharedTypes, Refs
<1>2. made[r[1]] \in Nat
  BY <1>1, ProviderAssumption
<1>3. made'[r[1]] \in {made[r[1]], made[r[1]] + 1}
  <2>1. ASSUME NEW t \in Threads, AddOrUpdate(t)
        PROVE  made'[r[1]] \in {made[r[1]], made[r[1]] + 1}
    BY <1>1, <2>1 DEF AddOrUpdate
  <2>2. ASSUME NEW t \in Threads, Step(t) \/ Calls(t), ~AddOrUpdate(t)
        PROVE  made' = made
    BY <2>2
    DEF Step, Calls, Invoke, Peek, Overtaken, LookupMiss, LookupHit, RemoveMiss, RemoveHit,
        CheckExpired, CheckLive, Renew, BeginWalk, EndAdd, EndRemove, EndSerialize, SerializeFails,
        RemoveEntry, ListKeys, ClearAll, SweepNext, Evict, SweepEnd
  <2>3. CASE Tick \/ UNCHANGED vars
    BY <2>3 DEF Tick, vars
  <2> QED
    BY <2>1, <2>2, <2>3 DEF Next
<1> QED
  BY <1>1, <1>2, <1>3 DEF Born

LEMMA NextBefore ==
  ASSUME TypeInv, BeforeOK, HNext PROVE BeforeOK'
<1>1. TypeInv' /\ [Next]_vars
  BY NextTypes DEF HNext
<1>2. ASSUME NEW t \in Threads, NEW k \in Keys, before'[t][k] # null
      PROVE  before'[t][k] \in Refs /\ Born(before[t][k])'
  <2>1. before'[t][k] \in {dict'[k], before[t][k], null}
    <3>1. before'[t] = IF Begins(t) THEN dict' ELSE IF Active(t) THEN before[t]
                       ELSE [j \in Keys |-> null]
      BY DEF HNext, Watch
    <3>2. [j \in Keys |-> null][k] = null
      OBVIOUS
    <3> QED
      BY <3>1, <3>2
  <2>2. CASE before'[t][k] = dict'[k]
    BY <1>1, <1>2, <2>2 DEF TypeInv, TypeOK, SharedTypes, EntriesBorn
  <2>3. CASE before'[t][k] = before[t][k]
    <3> DEFINE r == before[t][k]
    <3>1. r \in Refs /\ Born(r)
      BY <1>2, <2>3 DEF BeforeOK
    <3>2. Born(r)'
      <4> HIDE DEF r
      <4>1. ASSUME NEW q \in Refs, Born(q) PROVE q[2] <= made'[q[1]]
        BY <1>1, <4>1, BornStays DEF Born
      <4>2. r[2] <= made'[r[1]]
        BY <3>1, <4>1
      <4> QED
        BY <2>3, <4>2 DEF Born, r
    <3> QED
      BY <2>3, <3>1, <3>2
  <2>4. CASE before'[t][k] = null
    BY <1>2, <2>4
  <2> QED
    BY <2>1, <2>2, <2>3, <2>4
<1> QED
  BY <1>2 DEF BeforeOK

(* A passed deadline is one the entry has for ever.                        *)
LEMMA DeadlineFixed ==
  ASSUME TypeInv, [Next]_vars, NEW r \in Refs, Born(r), NEW time
  PROVE  PastAbsolute(heap'[r], time) <=> PastAbsolute(heap[r], time)
  BY ExpirationFixed DEF PastAbsolute

(* What was not past now was not past before.                              *)
LEMMA NotPastBefore ==
  ASSUME TypeInv, NEW r \in Refs, ~PastAbsolute(heap[r], now),
         NEW time \in Nat, time <= now
  PROVE  ~PastAbsolute(heap[r], time)
<1>1. heap[r] \in EntriesOf(Contents) /\ now \in Nat
  BY ProviderAssumption DEF TypeInv, TypeOK, SharedTypes
<1>2. heap[r].absolute # null => heap[r].absolute \in Nat
  BY <1>1, TimesAssumption DEF EntriesOf
<1> QED
  BY <1>1, <1>2 DEF PastAbsolute

(* The call goes on: the history of its beginning stays.                   *)
LEMMA HistoryStays ==
  ASSUME HNext, NEW t \in Threads, call[t] # null, call'[t] # null
  PROVE  began'[t] = began[t] /\ before'[t] = before[t]
  BY DEF HNext, Watch, Begins, Active

-----------------------------------------------------------------------------
(* Serving.  A call looked at the deadline after it began, and what it     *)
(* serves it goes on holding.                                              *)

LEMMA NextServes ==
  ASSUME TypeInv, BeganOK, NeverServesExpired, HNext PROVE NeverServesExpired'
<1>1. TypeInv' /\ [Next]_vars /\ BeganOK'
  BY NextTypes, NextBegan DEF HNext
<1>2. ASSUME NEW u \in Threads, pc[u] \in Serving, call'[u] = call[u], hit'[u] = hit[u]
      PROVE  ~PastAbsolute(heap'[hit'[u].entry], began'[u])
  <2>1. hit[u] # null /\ Held(u) \in Refs /\ Born(Held(u)) /\ call[u] # null
    <3>1. TypeOK /\ EntriesBorn /\ hit[u] # null /\ call[u] # null /\ pc[u] # "idle"
      BY <1>2 DEF TypeInv, TypeOK, Control, Holding, Serving
    <3> QED
      BY <1>2, <3>1, AtLabel DEF EntriesBorn, Holding, Serving
  <2>2. began'[u] = began[u]
    BY <1>2, <2>1, HistoryStays
  <2>3. ~PastAbsolute(heap[Held(u)], began[u])
    BY <1>2 DEF NeverServesExpired, Serving
  <2> QED
    BY <1>1, <1>2, <2>1, <2>2, <2>3, DeadlineFixed
<1>3. ASSUME NEW u \in Threads, CheckLive(u)
      PROVE  ~PastAbsolute(heap'[hit'[u].entry], began'[u])
  <2>1. /\ pc[u] = "check" /\ ~Expired(heap[Held(u)], now)
        /\ UNCHANGED <<heap, call, hit, now>>
    BY <1>3 DEF CheckLive, local
  <2>2. Held(u) \in Refs
    BY <2>1, AtLabel DEF TypeInv, Holding
  <2>3. ~PastAbsolute(heap[Held(u)], now)
    BY <2>1 DEF Expired
  <2>4. began'[u] \in Nat /\ began'[u] <= now
    BY <1>1, <2>1 DEF BeganOK
  <2> QED
    BY <2>1, <2>2, <2>3, <2>4, NotPastBefore
<1>4. ASSUME NEW u \in Threads, pc'[u] \in Serving
      PROVE  ~PastAbsolute(heap'[hit'[u].entry], began'[u])
  <2>1. CASE Tick
    BY <1>2, <1>4, <2>1 DEF Tick, local
  <2>2. ASSUME NEW t \in Threads, Calls(t) \/ Step(t)
        PROVE  ~PastAbsolute(heap'[hit'[u].entry], began'[u])
    <3>1. CASE u = t
      BY <1>2, <1>3, <1>4, <2>2, <3>1, WhatWasDone
    <3>2. CASE u # t
      BY <1>2, <1>4, <2>2, <3>2, OthersStay
    <3> QED
      BY <3>1, <3>2
  <2> QED
    BY <2>1, <2>2 DEF HNext, Next
<1> QED
  BY <1>4 DEF NeverServesExpired, Serving

(* No call gets as far as a value that had expired for good when it began. *)
THEOREM ServesNoneExpired == HSpec => []NeverServesExpired
<1>1. HInit => BeganOK /\ NeverServesExpired
  BY DEF HInit, Init, BeganOK, NeverServesExpired
<1>2. /\ TypeInv /\ BeganOK /\ NeverServesExpired
      /\ [HNext]_<<vars, history>>
      => BeganOK' /\ NeverServesExpired'
  <2>1. CASE UNCHANGED <<vars, history>>
    BY <2>1 DEF vars, history, BeganOK, NeverServesExpired
  <2> QED
    BY <2>1, NextBegan, NextServes
<1> QED
  BY <1>1, <1>2, HTypeInvariant, PTL DEF HSpec

-----------------------------------------------------------------------------
(* Sweeping.  A key that an enumeration has passed, and that has the entry *)
(* it had at the beginning, had nothing to be taken out.                   *)

(* What the call of thread t leaves at key k, having looked at it.         *)
Spared(t, k) ==
  IF call[t].op = "Clear"
  THEN k.Namespace # call[t].nameSpace
  ELSE ~PastAbsolute(heap[dict[k]], began[t])

Remains(t, k) == dict[k] # null /\ dict[k] = before[t][k]

InHand(t, k) == pc[t] = "evict" /\ HeldKey(t) = k /\ Held(t) = dict[k]

SweepOK ==
  \A t \in Threads, k \in Keys :
    (pc[t] \in Sweeping /\ Remains(t, k)) => k \in todo[t] \/ InHand(t, k) \/ Spared(t, k)

(* An entry a key has lost does not come back: new entries are new.        *)
LEMMA RemainsBefore ==
  ASSUME TypeInv, BeforeOK, [Next]_vars, NEW u \in Threads, NEW k \in Keys,
         before'[u] = before[u], dict'[k] # null, dict'[k] = before[u][k]
  PROVE  dict'[k] = dict[k] /\ Remains(u, k)
<1>1. /\ dict \in [Keys -> Refs \cup {null}] /\ made \in [Threads -> 0 .. MaxEntries]
      /\ before[u][k] \in Refs /\ Born(before[u][k])
  BY DEF BeforeOK, TypeInv, TypeOK, SharedTypes
<1>2. ASSUME NEW t \in Threads, AddOrUpdate(t) PROVE dict'[k] = dict[k]
  <2>1. dict' = [dict EXCEPT ![call[t].key] = <<t, made[t] + 1>>]
    BY <1>2 DEF AddOrUpdate
  <2>2. <<t, made[t] + 1>> # before[u][k]
    BY <1>1, ProviderAssumption DEF Born
  <2> QED
    BY <1>1, <2>1, <2>2
<1>3. ASSUME NEW t \in Threads, Step(t) \/ Calls(t), ~AddOrUpdate(t)
      PROVE  dict'[k] = dict[k]
  BY <1>3, OnlySetAdds
<1>4. Tick \/ UNCHANGED vars => dict' = dict
  BY DEF Tick, vars
<1>5. dict'[k] = dict[k]
  BY <1>2, <1>3, <1>4 DEF Next
<1> QED
  BY <1>5 DEF Remains

(* What was spared stays spared while it remains.                          *)
LEMMA SparedStays ==
  ASSUME TypeInv, [Next]_vars, NEW u \in Threads, NEW k \in Keys, Remains(u, k), Spared(u, k),
         dict'[k] = dict[k], began'[u] = began[u], call'[u] = call[u]
  PROVE  Spared(u, k)'
<1>1. dict[k] \in Refs /\ Born(dict[k])
  BY DEF TypeInv, TypeOK, SharedTypes, EntriesBorn, Remains
<1>2. PastAbsolute(heap'[dict[k]], began[u]) <=> PastAbsolute(heap[dict[k]], began[u])
  BY <1>1, DeadlineFixed
<1> QED
  BY <1>2 DEF Spared

(* The enumeration looks at one more key, or takes out what it has in hand.*)
LEMMA SweeperMoves ==
  ASSUME TypeInv, BeganOK, SweepOK, [Next]_vars, NEW u \in Threads, NEW k \in Keys,
         Remains(u, k), dict'[k] = dict[k], began'[u] = began[u],
         Evict(u) \/ \E j \in Keys : SweepNext(u, j)
  PROVE  k \in todo'[u] \/ InHand(u, k)' \/ Spared(u, k)'
<1>1. /\ call'[u] = call[u] /\ pc[u] \in Sweeping /\ UNCHANGED <<heap, now>>
      /\ dict \in [Keys -> Refs \cup {null}] /\ todo \in [Threads -> SUBSET Keys]
      /\ pc \in [Threads -> Labels]
      /\ hit \in [Threads -> [key : Keys, entry : Refs] \cup {null}]
  BY DEF Evict, SweepNext, Sweeping, TypeInv, TypeOK, SharedTypes, LocalTypes
<1>2. k \in todo[u] \/ InHand(u, k) \/ Spared(u, k)
  BY <1>1 DEF SweepOK
<1>3. CASE Spared(u, k)
  BY <1>1, <1>3, SparedStays
<1>4. CASE Evict(u) /\ k \in todo[u]
  BY <1>4 DEF Evict
<1>5. CASE Evict(u) /\ InHand(u, k)
  BY <1>1, <1>5 DEF Evict, InHand, Remains
<1>6. ASSUME NEW j \in Keys, SweepNext(u, j), k \in todo[u], ~Spared(u, k)
      PROVE  k \in todo'[u] \/ InHand(u, k)'
  <2>1. CASE k # j
    BY <1>1, <1>6, <2>1 DEF SweepNext
  <2>2. CASE k = j /\ Hold(u, j) /\ Goto(u, "evict")
    BY <1>1, <2>2 DEF InHand
  <2>3. CASE k = j /\ Skips(u, j)
    <3>1. call[u].op # "Clear" /\ ~Expired(heap[dict[k]], now)
      BY <1>6, <2>3 DEF Skips, Remains, Spared
    <3>2. ~PastAbsolute(heap[dict[k]], began[u])
      BY <1>1, <3>1, NotPastBefore DEF Expired, BeganOK, Remains
    <3> QED
      BY <1>6, <3>1, <3>2 DEF Spared
  <2> QED
    BY <1>6, <2>1, <2>2, <2>3 DEF SweepNext
<1>7. ASSUME NEW j \in Keys, SweepNext(u, j) PROVE ~InHand(u, k)
  BY <1>7 DEF SweepNext, InHand
<1> QED
  BY <1>2, <1>3, <1>4, <1>5, <1>6, <1>7

LEMMA NextSweep ==
  ASSUME TypeInv, BeganOK, BeforeOK, SweepOK, HNext PROVE SweepOK'
<1> SUFFICES ASSUME NEW u \in Threads, NEW k \in Keys, pc'[u] \in Sweeping, Remains(u, k)'
             PROVE  k \in todo'[u] \/ InHand(u, k)' \/ Spared(u, k)'
  BY DEF SweepOK
<1>1. [Next]_vars /\ TypeInv'
  BY NextTypes DEF HNext
<1>2. ASSUME pc[u] \in Sweeping, call'[u] = call[u]
      PROVE  /\ Remains(u, k) /\ dict'[k] = dict[k] /\ began'[u] = began[u]
             /\ k \in todo[u] \/ InHand(u, k) \/ Spared(u, k)
  <2>1. call[u] # null
    BY <1>2 DEF TypeInv, TypeOK, Control, Sweeping
  <2>2. began'[u] = began[u] /\ before'[u] = before[u]
    BY <1>2, <2>1, HistoryStays
  <2>3. dict'[k] = dict[k] /\ Remains(u, k)
    BY <1>1, <2>2, RemainsBefore DEF Remains
  <2> QED
    BY <1>2, <2>2, <2>3 DEF SweepOK
<1>3. ASSUME pc'[u] = pc[u], call'[u] = call[u], hit'[u] = hit[u], todo'[u] = todo[u]
      PROVE  k \in todo'[u] \/ InHand(u, k)' \/ Spared(u, k)'
  BY <1>1, <1>2, <1>3, SparedStays DEF InHand
<1>4. CASE Tick
  BY <1>3, <1>4 DEF Tick, local
<1>5. ASSUME NEW t \in Threads, Calls(t) \/ Step(t)
      PROVE  k \in todo'[u] \/ InHand(u, k)' \/ Spared(u, k)'
  <2>1. CASE u # t
    BY <1>3, <1>5, <2>1, OthersStay
  <2>2. CASE u = t /\ Calls(t)
    <3>1. PICK c \in Requests : Invoke(u, c)
      BY <2>2 DEF Calls
    <3>2. pc'[u] = EntryPoint(c.op) /\ (EntryPoint(c.op) = "sweep" => todo'[u] = Keys)
      BY <3>1 DEF Invoke, TypeInv, TypeOK, LocalTypes
    <3>3. EntryPoint(c.op) # "evict"
      BY RequestTypes DEF EntryPoint, Operations, Lists, KeyLists, Sweeps
    <3> QED
      BY <3>2, <3>3 DEF Sweeping
  <2>3. CASE u = t /\ (Evict(t) \/ \E j \in Keys : SweepNext(t, j))
    <3>1. pc[u] \in Sweeping /\ call'[u] = call[u]
      BY <2>3 DEF Evict, SweepNext, Sweeping
    <3> QED
      BY <1>1, <1>2, <2>3, <3>1, SweeperMoves
  <2> QED
    BY <1>5, <2>1, <2>2, <2>3, WhatWasDone
<1> QED
  BY <1>4, <1>5 DEF HNext, Next

(* When a sweep is over, no entry it had to take out is where it was when  *)
(* the sweep began, whatever the other threads stored, read or removed     *)
(* meanwhile, and in whatever order the enumeration went.                  *)
THEOREM SweepsLeaveNone == HSpec => SweepLeavesNone
<1> DEFINE Left(t, k) ==
       (SweepEnd(t) /\ dict[k] # null /\ dict[k] = before[t][k]) =>
         IF call[t].op = "Clear"
         THEN k.Namespace # call[t].nameSpace
         ELSE ~PastAbsolute(heap[dict[k]], began[t])
           AllLeft == \A t \in Threads, k \in Keys : Left(t, k)
           HistoryInv == BeganOK /\ BeforeOK /\ SweepOK
<1>1. HInit => HistoryInv
  BY DEF HInit, Init, BeganOK, BeforeOK, SweepOK, Sweeping
<1>2. TypeInv /\ HistoryInv /\ [HNext]_<<vars, history>> => HistoryInv'
  <2>1. CASE UNCHANGED <<vars, history>>
    BY <2>1
    DEF vars, history, BeganOK, BeforeOK, Born, SweepOK, Remains, InHand, Spared
  <2> QED
    BY <2>1, NextBegan, NextBefore, NextSweep
<1>3. TypeInv /\ HistoryInv => AllLeft
  <2> SUFFICES ASSUME TypeInv, HistoryInv, NEW t \in Threads, NEW k \in Keys, SweepEnd(t),
                      dict[k] # null, dict[k] = before[t][k]
               PROVE  Spared(t, k)
    BY DEF Spared
  <2>1. pc[t] = "sweep" /\ todo[t] = {}
    BY DEF SweepEnd
  <2> QED
    BY <2>1 DEF SweepOK, Sweeping, Remains, InHand
<1>4. TypeInv /\ HistoryInv => [AllLeft]_<<vars, history>>
  BY <1>3
<1> QED
  BY <1>1, <1>2, <1>4, HTypeInvariant, PTL DEF HSpec, SweepLeavesNone

-----------------------------------------------------------------------------
(* AddOrUpdate.  A call that is about to exchange an entry in vain has     *)
(* been overtaken since it looked.                                         *)

LostOK ==
  \A t \in Threads : pc[t] \in Exchanging /\ ~Unchanged(t) => t \in lost

LEMMA NextLost ==
  ASSUME TypeInv, LostOK, HNext PROVE LostOK'
<1> SUFFICES ASSUME NEW t \in Threads, pc'[t] \in Exchanging, ~Unchanged(t)'
             PROVE  t \in lost'
  BY DEF LostOK
<1>1. ASSUME pc'[t] = pc[t], call'[t] = call[t], hit'[t] = hit[t] PROVE t \in lost'
  <2>1. CASE dict'[call[t].key] = dict[call[t].key]
    <3>1. ~Unchanged(t)
      BY <1>1, <2>1 DEF Unchanged
    <3>2. t \in lost
      BY <1>1, <3>1 DEF LostOK
    <3> QED
      BY <1>1, <3>2 DEF HNext, Watch
  <2>2. CASE dict'[call[t].key] # dict[call[t].key]
    BY <1>1, <2>2 DEF HNext, Watch
  <2> QED
    BY <2>1, <2>2
<1>2. ASSUME Peek(t) PROVE Unchanged(t)'
  <2>1. /\ pc \in [Threads -> Labels] /\ UNCHANGED <<dict, call>>
        /\ hit \in [Threads -> [key : Keys, entry : Refs] \cup {null}]
    BY <1>2 DEF Peek, TypeInv, TypeOK, LocalTypes
  <2> QED
    BY <1>2, <2>1 DEF Peek, Unchanged
<1>3. CASE Tick
  BY <1>1, <1>3 DEF Tick, local
<1>4. ASSUME NEW u \in Threads, Calls(u) \/ Step(u) PROVE t \in lost'
  BY <1>1, <1>2, <1>4, OthersStay, WhatWasDone
<1> QED
  BY <1>3, <1>4 DEF HNext, Next

(* The calls count down.  How far a call is from its end depends on where  *)
(* its thread is and on the keys its sweep has yet to visit, which are     *)
(* finitely many; no other thread touches either.                          *)

LEMMA CountsKeys ==
  ASSUME IsFiniteSet(Keys), NEW s \in SUBSET Keys
  PROVE  /\ Cardinality(s) \in Nat
         /\ \A k \in s : Cardinality(s \ {k}) \in Nat /\ Cardinality(s) = Cardinality(s \ {k}) + 1
<1>1. IsFiniteSet(s)
  BY FS_Subset
<1>2. Cardinality(s) \in Nat
  BY <1>1, FS_CardinalityType
<1>3. ASSUME NEW k \in s
      PROVE  Cardinality(s \ {k}) \in Nat /\ Cardinality(s) = Cardinality(s \ {k}) + 1
  <2>1. IsFiniteSet(s \ {k}) /\ Cardinality(s \ {k}) = Cardinality(s) - 1
    BY <1>1, FS_RemoveElement
  <2>2. Cardinality(s \ {k}) \in Nat
    BY <2>1, FS_CardinalityType
  <2> QED
    BY <1>2, <2>1, <2>2
<1> QED
  BY <1>2, <1>3

LEMMA StepsLeftType ==
  ASSUME IsFiniteSet(Keys), TypeInv, NEW t \in Threads
  PROVE  /\ StepsLeft(t) \in Nat
         /\ pc[t] # "idle" => StepsLeft(t) > 0
<1>1. pc[t] \in Labels /\ todo[t] \in SUBSET Keys
  BY DEF TypeInv, TypeOK, LocalTypes
<1>2. Cardinality(todo[t]) \in Nat
  BY <1>1, CountsKeys
<1> QED
  BY <1>1, <1>2 DEF StepsLeft, Labels, Exchanging

(* A call that returns, or that goes on one label nearer to its end.       *)
LEMMA StepCountsDown ==
  ASSUME IsFiniteSet(Keys), TypeInv, NEW t \in Threads, Step(t), ~Overtaken(t)
  PROVE  StepsLeft(t)' < StepsLeft(t)
<1>1. /\ TypeOK /\ pc \in [Threads -> Labels] /\ todo \in [Threads -> SUBSET Keys]
  BY DEF TypeInv, TypeOK, LocalTypes
<1>2. pc[t] # "idle"
  BY DEF Step, Peek, AddOrUpdate, LookupMiss, LookupHit, RemoveMiss, RemoveHit,
     CheckExpired, CheckLive, Renew, BeginWalk, EndAdd, EndRemove, EndSerialize, SerializeFails,
     RemoveEntry, ListKeys, ClearAll, SweepNext, Evict, SweepEnd
<1>3. StepsLeft(t) \in Nat /\ StepsLeft(t) > 0
  BY <1>2, StepsLeftType
<1>4. CASE \E status, data : Answer(t, status, data)
  <2>1. pc'[t] = "idle"
    BY <1>1, <1>4 DEF Answer
  <2> QED
    BY <1>3, <2>1 DEF StepsLeft, Exchanging
<1>5. CASE LookupHit(t) \/ RemoveHit(t)
  <2>1. pc[t] \in {"lookup", "remove"} /\ pc'[t] = "check"
    BY <1>1, <1>5 DEF LookupHit, RemoveHit
  <2> QED
    BY <2>1 DEF StepsLeft, Exchanging
<1>6. CASE CheckLive(t)
  <2>1. pc[t] = "check" /\ pc'[t] = "renew"
    BY <1>1, <1>6 DEF CheckLive
  <2> QED
    BY <2>1 DEF StepsLeft, Exchanging
<1>7. CASE Renew(t) /\ call[t].op \notin {"GetDictionary", "DelDictionary"}
  <2>1. pc[t] = "renew" /\ pc'[t] = "found"
    BY <1>1, <1>7 DEF Renew
  <2> QED
    BY <2>1 DEF StepsLeft, Exchanging
<1>8. CASE BeginWalk(t)
  <2>1. pc[t] = "found" /\ pc'[t] = "walk"
    BY <1>1, <1>8 DEF BeginWalk
  <2> QED
    BY <2>1 DEF StepsLeft, Exchanging
<1>9. CASE (LookupMiss(t) \/ RemoveMiss(t) \/ CheckExpired(t)) /\ call[t].op = "SetHashSet"
  <2>1. pc[t] \in {"lookup", "remove", "check"} /\ pc'[t] = "set"
    BY <1>1, <1>9 DEF LookupMiss, RemoveMiss, CheckExpired, GotNull
  <2> QED
    BY <2>1 DEF StepsLeft, Exchanging
<1>10. CASE \E k \in Keys : SweepNext(t, k)
  <2>1. PICK k \in Keys : SweepNext(t, k)
    BY <1>10
  <2>2. /\ pc[t] = "sweep" /\ pc'[t] \in {"sweep", "evict"}
        /\ k \in todo[t] /\ todo'[t] = todo[t] \ {k}
    BY <1>1, <2>1 DEF SweepNext
  <2>3. Cardinality(todo'[t]) \in Nat /\ Cardinality(todo[t]) = Cardinality(todo'[t]) + 1
    BY <1>1, <2>2, CountsKeys
  <2>4. /\ StepsLeft(t) = 2 * Cardinality(todo[t]) + 1
        /\ StepsLeft(t)' <= 2 * Cardinality(todo'[t]) + 2
    BY <2>2, <2>3 DEF StepsLeft, Exchanging
  <2>5. StepsLeft(t)' \in {2 * Cardinality(todo'[t]) + 1, 2 * Cardinality(todo'[t]) + 2}
    BY <2>2 DEF StepsLeft, Exchanging
  <2> QED
    BY <2>3, <2>4, <2>5
<1>11. CASE Evict(t)
  <2>1. pc[t] = "evict" /\ pc'[t] = "sweep" /\ todo' = todo
    BY <1>1, <1>11 DEF Evict
  <2>2. Cardinality(todo[t]) \in Nat
    BY <1>1, CountsKeys
  <2> QED
    BY <2>1, <2>2 DEF StepsLeft, Exchanging
<1>12. CASE Peek(t)
  <2>1. pc[t] = "set" /\ pc'[t] \in Exchanging
    BY <1>1, <1>12 DEF Peek, Exchanging
  <2> QED
    BY <2>1 DEF StepsLeft, Exchanging
<1>13. \/ Peek(t) \/ \E status, data : Answer(t, status, data)
       \/ LookupHit(t) \/ RemoveHit(t) \/ CheckLive(t) \/ BeginWalk(t) \/ Evict(t)
       \/ \E k \in Keys : SweepNext(t, k)
       \/ (LookupMiss(t) \/ RemoveMiss(t) \/ CheckExpired(t)) /\ call[t].op = "SetHashSet"
       \/ Renew(t) /\ call[t].op \notin {"GetDictionary", "DelDictionary"}
  <2>1. LookupMiss(t) \/ RemoveMiss(t) \/ CheckExpired(t) =>
          GotNull(t) /\ (call[t].op # "SetHashSet" => \E status, data : Answer(t, status, data))
    BY DEF LookupMiss, RemoveMiss, CheckExpired, GotNull
  <2>2. Renew(t) /\ call[t].op \in {"GetDictionary", "DelDictionary"}
          => \E status, data : Answer(t, status, data)
    BY DEF Renew
  <2>3. AddOrUpdate(t) \/ EndAdd(t) \/ EndRemove(t) \/ EndSerialize(t) \/ SerializeFails(t)
          \/ RemoveEntry(t) \/ ListKeys(t) \/ ClearAll(t) \/ SweepEnd(t)
          => \E status, data : Answer(t, status, data)
    BY DEF AddOrUpdate, EndAdd, EndRemove, EndSerialize, SerializeFails, RemoveEntry,
       ListKeys, ClearAll, SweepEnd
  <2> QED
    BY <2>1, <2>2, <2>3 DEF Step
<1> QED
  BY <1>4, <1>5, <1>6, <1>7, <1>8, <1>9, <1>10, <1>11, <1>12, <1>13

LEMMA NextCountsDown ==
  ASSUME IsFiniteSet(Keys), TypeInv, LostOK, [Next]_vars, NEW t \in Threads, pc[t] # "idle"
  PROVE  /\ Step(t) => StepsLeft(t)' < StepsLeft(t) \/ (Overtaken(t) /\ t \in lost)
         /\ ~Step(t) => StepsLeft(t)' = StepsLeft(t)
<1>1. ASSUME Step(t) PROVE StepsLeft(t)' < StepsLeft(t) \/ (Overtaken(t) /\ t \in lost)
  <2>1. Overtaken(t) => t \in lost
    BY DEF Overtaken, LostOK, Exchanging
  <2> QED
    BY <1>1, <2>1, StepCountsDown
<1>2. ASSUME ~Step(t) PROVE StepsLeft(t)' = StepsLeft(t)
  <2>1. ~Calls(t)
    BY DEF Calls, Invoke
  <2>2. ASSUME NEW u \in Threads, u # t, Step(u) \/ Calls(u)
        PROVE  pc'[t] = pc[t] /\ todo'[t] = todo[t]
    BY <2>2, OthersStay
  <2>3. Tick \/ UNCHANGED vars => pc'[t] = pc[t] /\ todo'[t] = todo[t]
    BY DEF Tick, local, vars
  <2>4. pc'[t] = pc[t] /\ todo'[t] = todo[t]
    BY <1>2, <2>1, <2>2, <2>3 DEF Next
  <2> QED
    BY <2>4 DEF StepsLeft
<1> QED
  BY <1>1, <1>2

(* Each step of a call brings its end nearer, but for one in AddOrUpdate   *)
(* that another thread's change of the same key caused, and no step of     *)
(* another thread puts a call off, if there are finitely many keys to      *)
(* sweep.                                                                  *)
THEOREM CallsAreBounded ==
  ASSUME IsFiniteSet(Keys)
  PROVE  HSpec => CallsCountDown
<1> DEFINE Counts == \A t \in Threads : pc[t] # "idle" =>
       /\ Step(t) => StepsLeft(t)' < StepsLeft(t) \/ (Overtaken(t) /\ t \in lost)
       /\ ~Step(t) => StepsLeft(t)' = StepsLeft(t)
<1>1. HInit => LostOK
  BY DEF HInit, Init, LostOK, Exchanging
<1>2. TypeInv /\ LostOK /\ [HNext]_<<vars, history>> => LostOK'
  <2>1. CASE UNCHANGED <<vars, history>>
    BY <2>1 DEF vars, history, LostOK, Unchanged
  <2> QED
    BY <2>1, NextLost
<1>3. TypeInv /\ LostOK /\ [HNext]_<<vars, history>> => [Counts]_<<vars, history>>
  BY HistoryWatches, NextCountsDown
<1> QED
  BY <1>1, <1>2, <1>3, HTypeInvariant, PTL DEF HSpec, CallsCountDown

=============================================================================
