------------------------------ MODULE MCSliding ------------------------------
(***************************************************************************)
(* An instance of SlidingHistory for TLC: one client, one key.             *)
(***************************************************************************)
EXTENDS SlidingHistory, TLC

CONSTANT client

OneClientServes == client :> {"SetDictionary", "GetDictionary"}

=============================================================================
