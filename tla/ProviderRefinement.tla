------------------------- MODULE ProviderRefinement -------------------------
(***************************************************************************)
(* ReCacheProvider implements CacheStore.  The map is what the entries of  *)
(* the dictionary hold; a call has found an item while it holds an entry,  *)
(* even when another thread has replaced or removed it in the meantime.    *)
(***************************************************************************)
EXTENDS ReCacheProvider

StringKeys == KeysOf("Set")

ItemOf(r) == [data |-> heap[r].value, mortal |-> Mortal(heap[r])]

(* null is no item.                                                        *)
ASSUME ItemsAssumption ==
  \A v \in Values, m \in BOOLEAN : [data |-> v, mortal |-> m] # null

StoreOf == [k \in StringKeys |-> IF dict[k] = null THEN null ELSE ItemOf(dict[k])]

Finds(t) == pc[t] \in {"check", "renew"} /\ call[t].op \in {"GetDictionary", "DelDictionary"}

FoundOf == [t \in Threads |-> IF Finds(t) THEN ItemOf(Held(t)) ELSE null]

Store == INSTANCE CacheStore WITH
  Clients <- Threads, StoreKeys <- StringKeys, Asks <- Requests, nil <- null,
  SetAnswers <- (SUBSET Values) \cup (SUBSET Keys) \cup (SUBSET NameSpaces),
  store <- StoreOf, asked <- call, found <- FoundOf, told <- reply

(* Every behaviour of the provider is one of the atomic store: every       *)
(* answer a client gets on strings is one the map could give at a moment   *)
(* of the call, whatever sweeps, reads, writes and hash set calls overlap. *)
StoreSpec == Store!StoreSpec

=============================================================================
