--------------------------- MODULE HashSetHistory ---------------------------
(***************************************************************************)
(* ReCacheProvider with what its clients know of the hash sets: the        *)
(* members they rely on, whose SetHashSet was answered with OK, and the    *)
(* values they are rid of, which were taken away or never there.  A store  *)
(* and a removal that overlap may end either way: of what a call is about, *)
(* only that counts which no contrary call in progress with it was about.  *)
(* Meant for entries without expiration.                                   *)
(***************************************************************************)
EXTENDS ReCacheProvider

VARIABLES
  undisputed, (* for each call and key, what it alone decides              *)
  acked,      (* for each key, the members its clients rely on             *)
  stable,     (* for each call, those of its key that were so all the time *)
  gone,       (* for each key, the values its clients are rid of           *)
  lacking     (* for each call, those of its key that were so all the time *)

history == <<undisputed, acked, stable, gone, lacking>>

HInit ==
  /\ Init
  /\ undisputed = [t \in Threads |-> [k \in Keys |-> {}]]
  /\ acked = [k \in Keys |-> {}]
  /\ stable = [t \in Threads |-> {}]
  /\ gone = [k \in Keys |-> Values]
  /\ lacking = [t \in Threads |-> {}]

Stores == {"SetHashSet"}
Takes  == {"DelHashSet", "RemoveHashSet", "Clear", "ClearAll"}

Busy(t, ops) == call[t] # null /\ call[t].op \in ops

(* The values of key k that the call of thread t stores or takes away.     *)
About(t, k) ==
  CASE Busy(t, {"SetHashSet", "DelHashSet"}) /\ call[t].key = k  -> {call[t].value}
    [] Busy(t, {"RemoveHashSet"}) /\ call[t].key = k             -> Values
    [] Busy(t, {"Clear"}) /\ call[t].nameSpace = k.Namespace     -> Values
    [] Busy(t, {"ClearAll"})                                     -> Values
    [] OTHER                                                     -> {}

(* What the calls in progress store at key k, or take away from it.        *)
InProgress(ops, k) == UNION {About(t, k) : t \in {u \in Threads : Busy(u, ops)}}

Contrary(t, k) == InProgress(IF Busy(t, Stores) THEN Takes ELSE Stores, k)

(* What is decided for key k by a call that returns with OK in this step.  *)
Decided(ops, k) ==
  UNION {undisputed[t][k] : t \in {u \in Threads :
    Busy(u, ops) /\ call'[u] = null /\ reply'[u].status = "OK"}}

Watch ==
  /\ undisputed' = [t \in Threads |-> [k \in Keys |->
       (IF call[t] = null THEN About(t, k)' ELSE About(t, k)' \cap undisputed[t][k])
         \ Contrary(t, k)']]
  /\ acked' = [k \in Keys |-> (acked[k] \cup Decided(Stores, k)) \ InProgress(Takes, k)']
  /\ stable' = [t \in Threads |->
       IF call'[t] = null \/ call'[t].key = null THEN {}
       ELSE IF call[t] = null THEN acked'[call'[t].key]
       ELSE stable[t] \cap acked'[call'[t].key]]
  /\ gone' = [k \in Keys |-> (gone[k] \cup Decided(Takes, k)) \ InProgress(Stores, k)']
  /\ lacking' = [t \in Threads |->
       IF call'[t] = null \/ call'[t].key = null THEN {}
       ELSE IF call[t] = null THEN gone'[call'[t].key]
       ELSE lacking[t] \cap gone'[call'[t].key]]

HNext == Next /\ Watch

HSpec == HInit /\ [][HNext]_<<vars, history>>

-----------------------------------------------------------------------------
(* Properties.                                                             *)

(* What SetHashSet acknowledged stays in the cache until a client takes it *)
(* away: a member is not lost to another call on the same key, and none is *)
(* acknowledged that went into a set the cache had already dropped, unless *)
(* the call and the removal overlap.                                       *)
AcknowledgedStay ==
  \A k \in Keys : acked[k] # {} =>
    dict[k] # null /\ acked[k] \subseteq heap[dict[k]].value

(* GetHashSet answers with the whole set: every member that was there all  *)
(* the time, from its request to its answer, is in the answer, although    *)
(* the set is serialized while others change it.                           *)
ReadsWhole ==
  [][\A t \in Threads :
       ( /\ pc[t] # "idle" /\ call[t].op = "GetHashSet"
         /\ pc'[t] = "idle" /\ reply'[t].status = "OK" /\ stable[t] # {} )
         => stable[t] \subseteq reply'[t].data]_<<vars, history>>

(* What DelHashSet, RemoveHashSet, Clear or ClearAll took away, when it is *)
(* answered with OK, is not in the cache until a client stores it again:   *)
(* it does not come back with the set another call still holds and adds    *)
(* to, nor with the set that is new at a key when Clear gets there.        *)
WithdrawnStay ==
  \A k \in KeysOf("HashSet") : dict[k] # null =>
    heap[dict[k]].value \cap gone[k] = {}

(* GetHashSet answers with no member that was away all the time, from its  *)
(* request to its answer, although the set it serializes may be one that   *)
(* the key has no more.                                                    *)
ReadsNoneWithdrawn ==
  [][\A t \in Threads :
       ( /\ pc[t] # "idle" /\ call[t].op = "GetHashSet"
         /\ pc'[t] = "idle" /\ reply'[t].status = "OK" /\ reply'[t].data # null )
         => reply'[t].data \cap lacking[t] = {}]_<<vars, history>>

=============================================================================
