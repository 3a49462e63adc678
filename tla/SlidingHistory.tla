--------------------------- MODULE SlidingHistory ---------------------------
(***************************************************************************)
(* ReCacheProvider with the time each entry was last of use: when it was   *)
(* created, or when its value was last read.                               *)
(***************************************************************************)
EXTENDS ReCacheProvider

VARIABLE touched

HInit == Init /\ touched = [r \in Refs |-> 0]

Made(r)   == made'[r[1]] # made[r[1]] /\ made'[r[1]] = r[2]
ReadOf(r) == \E t \in Threads : pc[t] = "renew" /\ pc'[t] # "renew" /\ Held(t) = r

Watch == touched' = [r \in Refs |-> IF Made(r) \/ ReadOf(r) THEN now ELSE touched[r]]

HNext == Next /\ Watch

HSpec == HInit /\ [][HNext]_<<vars, touched>>

(* The doc of Set: the sliding time when the entry will expire.  An entry  *)
(* nobody read for as long as its span is expired.                         *)
UnreadSlidingExpires ==
  \A k \in Keys :
    (dict[k] # null /\ heap[dict[k]].sliding # null) =>
      \/ now < touched[dict[k]] + heap[dict[k]].sliding
      \/ Expired(heap[dict[k]], now)

=============================================================================
