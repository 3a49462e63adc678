----------------------------- MODULE CallHistory -----------------------------
(***************************************************************************)
(* ReCacheProvider with history: when each call began, what the dictionary *)
(* was then, and whose key another thread has changed between the look-up  *)
(* and the exchange of an AddOrUpdate.  The history variables only watch:  *)
(* they appear in no guard of the provider.                                *)
(***************************************************************************)
EXTENDS ReCacheProvider

VARIABLES
  began,    (* the time at which the current call of each thread began     *)
  before,   (* the dictionary at that time                                 *)
  lost      (* threads whose key was changed since their AddOrUpdate looked *)

history == <<began, before, lost>>

Exchanging == {"add", "update"}

Begins(t) == call[t] = null /\ call'[t] # null
Active(t) == call'[t] # null

HInit ==
  /\ Init
  /\ began = [t \in Threads |-> 0]
  /\ before = [t \in Threads |-> dict]
  /\ lost = {}

Watch ==
  /\ began' = [t \in Threads |->
       IF Begins(t) THEN now' ELSE IF Active(t) THEN began[t] ELSE 0]
  /\ before' = [t \in Threads |->
       IF Begins(t) THEN dict' ELSE IF Active(t) THEN before[t] ELSE [k \in Keys |-> null]]
  /\ lost' = {t \in Threads :
       /\ pc[t] \in Exchanging /\ pc'[t] \in Exchanging
       /\ t \in lost \/ dict'[call[t].key] # dict[call[t].key]}

HNext == Next /\ Watch

HSpec == HInit /\ [][HNext]_<<vars, history>>

-----------------------------------------------------------------------------
(* Properties.                                                             *)

(* No call gets as far as a value whose absolute deadline had passed       *)
(* before the call began, whoever else reads or renews the same entry.     *)
NeverServesExpired ==
  \A t \in Threads : pc[t] \in {"renew", "found", "walk"} =>
    ~PastAbsolute(heap[Held(t)], began[t])

(* When a sweep is over, no entry it had to take out is left where it was  *)
(* when the sweep began: Clear leaves nothing of its name space,           *)
(* CleanExpired nothing that had expired for good.                         *)
SweepLeavesNone ==
  [][\A t \in Threads, k \in Keys :
       (SweepEnd(t) /\ dict[k] # null /\ dict[k] = before[t][k]) =>
         IF call[t].op = "Clear"
         THEN k.Namespace # call[t].nameSpace
         ELSE ~PastAbsolute(heap[dict[k]], began[t])]_<<vars, history>>

(* How many steps a call has left, at most, if nobody changes its key.  A  *)
(* sweep visits each key once and acts once on what it finds there.        *)
StepsLeft(t) ==
  CASE pc[t] = "idle"                  -> 0
    [] pc[t] \in Exchanging \cup {"walk", "removeEntry", "list", "clearAll"} -> 1
    [] pc[t] \in {"set", "found"}      -> 2
    [] pc[t] = "renew"                 -> 3
    [] pc[t] = "check"                 -> 4
    [] pc[t] \in {"lookup", "remove"}  -> 5
    [] pc[t] = "sweep"                 -> 2 * Cardinality(todo[t]) + 1
    [] OTHER                           -> 2 * Cardinality(todo[t]) + 2

(* Every step of a call brings its end nearer, however the dictionary      *)
(* changes under it, but for one: the loop in AddOrUpdate starts again,    *)
(* and each time it does another thread has changed the entry of its key   *)
(* in between.  A sweep never starts again, and nobody else's step puts a  *)
(* call off.                                                               *)
CallsCountDown ==
  [][\A t \in Threads : pc[t] # "idle" =>
       /\ Step(t) => StepsLeft(t)' < StepsLeft(t) \/ (Overtaken(t) /\ t \in lost)
       /\ ~Step(t) => StepsLeft(t)' = StepsLeft(t)]_<<vars, history>>

=============================================================================
