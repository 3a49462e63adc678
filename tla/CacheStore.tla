----------------------------- MODULE CacheStore -----------------------------
(***************************************************************************)
(* What the string half of the cache promises, whatever runs concurrently: *)
(* a map whose operations take effect at once, at one moment between the   *)
(* request and the answer.  An item stored without expiration stays until  *)
(* a client overwrites it, deletes it or clears it.  An item stored with   *)
(* an expiration is mortal: it may vanish at any time, and a call that     *)
(* found it may nevertheless answer that there is nothing.                 *)
(***************************************************************************)
CONSTANTS
  Clients,      (* who calls                                               *)
  StoreKeys,    (* the keys of the map                                     *)
  Asks,         (* the requests                                            *)
  SetAnswers,   (* what a request on a hash set can answer                 *)
  nil           (* no item, no request, no answer                          *)

VARIABLES
  store,        (* the map                                                 *)
  asked,        (* the request each client waits for                       *)
  found,        (* the item its request read or took                       *)
  told          (* its last answer                                         *)

storeVars == <<store, asked, found, told>>

Item(c) ==
  [ data   |-> c.value,
    mortal |-> c.absolute # nil \/ c.sliding # nil ]

StoreInit ==
  /\ store = [k \in StoreKeys |-> nil]
  /\ asked = [t \in Clients |-> nil]
  /\ found = [t \in Clients |-> nil]
  /\ told = [t \in Clients |-> nil]

Asking(t, ops) == asked[t] # nil /\ asked[t].op \in ops

Tell(t, status, data) ==
  /\ told' = [told EXCEPT ![t] = [status |-> status, data |-> data]]
  /\ asked' = [asked EXCEPT ![t] = nil]
  /\ found' = [found EXCEPT ![t] = nil]

Ask(t, c) ==
  /\ asked[t] = nil
  /\ asked' = [asked EXCEPT ![t] = c]
  /\ told' = [told EXCEPT ![t] = nil]
  /\ UNCHANGED <<store, found>>

Put(t) ==
  /\ Asking(t, {"SetDictionary"})
  /\ store' = [store EXCEPT ![asked[t].key] = Item(asked[t])]
  /\ Tell(t, "OK", nil)

Read(t) ==
  /\ Asking(t, {"GetDictionary"})
  /\ found[t] = nil
  /\ store[asked[t].key] # nil
  /\ found' = [found EXCEPT ![t] = store[asked[t].key]]
  /\ UNCHANGED <<store, asked, told>>

Take(t) ==
  /\ Asking(t, {"DelDictionary"})
  /\ found[t] = nil
  /\ store[asked[t].key] # nil
  /\ found' = [found EXCEPT ![t] = store[asked[t].key]]
  /\ store' = [store EXCEPT ![asked[t].key] = nil]
  /\ UNCHANGED <<asked, told>>

Miss(t) ==
  /\ Asking(t, {"GetDictionary", "DelDictionary"})
  /\ found[t] = nil
  /\ store[asked[t].key] = nil
  /\ Tell(t, "No result", nil)
  /\ UNCHANGED store

Deliver(t) ==
  /\ Asking(t, {"GetDictionary", "DelDictionary"})
  /\ found[t] # nil
  /\ \/ Tell(t, "OK", found[t].data)
     \/ found[t].mortal /\ Tell(t, "No result", nil)
  /\ UNCHANGED store

Vanish(k) ==
  /\ store[k] # nil
  /\ store[k].mortal
  /\ store' = [store EXCEPT ![k] = nil]
  /\ UNCHANGED <<asked, found, told>>

Wipe(t, k) ==
  /\ Asking(t, {"Clear"})
  /\ k.Namespace = asked[t].nameSpace
  /\ store' = [store EXCEPT ![k] = nil]
  /\ UNCHANGED <<asked, found, told>>

WipeAll(t) ==
  /\ Asking(t, {"ClearAll"})
  /\ store' = [k \in StoreKeys |-> nil]
  /\ Tell(t, "OK", nil)

ListItems(t) ==
  /\ Asking(t, {"ListDictionary"})
  /\ Tell(t, "OK",
       {k \in StoreKeys : store[k] # nil /\ k.Namespace = asked[t].nameSpace})
  /\ UNCHANGED store

ListNamespaces(t) ==
  /\ Asking(t, {"ListDictionaryNamespaces"})
  /\ Tell(t, "OK", {k.Namespace : k \in {k \in StoreKeys : store[k] # nil}})
  /\ UNCHANGED store

(* Clear has wiped what it found.  The calls on hash sets and the cleaning *)
(* end one way or another, without a trace in the map.                     *)
Finish(t) ==
  /\ Asking(t, {"Clear", "CleanExpired", "SetHashSet", "GetHashSet",
                "DelHashSet", "RemoveHashSet", "ListHashSet", "ListHashSetNamespaces"})
  /\ \E status \in {"OK", "Failed"}, data \in SetAnswers \cup {nil} :
       Tell(t, status, data)
  /\ UNCHANGED store

StoreNext ==
  \/ \E t \in Clients :
       \/ \E c \in Asks : Ask(t, c)
       \/ Put(t) \/ Read(t) \/ Take(t) \/ Miss(t) \/ Deliver(t)
       \/ \E k \in StoreKeys : Wipe(t, k)
       \/ WipeAll(t) \/ ListItems(t) \/ ListNamespaces(t) \/ Finish(t)
  \/ \E k \in StoreKeys : Vanish(k)

StoreSpec == StoreInit /\ [][StoreNext]_storeVars

=============================================================================
