------------------------------ MODULE MCHistory ------------------------------
(***************************************************************************)
(* An instance of CallHistory for TLC: one thread reads, stores and sweeps *)
(* what the other stores and deletes, beside a hash set of the same name.  *)
(***************************************************************************)
EXTENDS CallHistory, TLC

CONSTANTS client, sweeper

HistoryServes ==
  ( client  :> {"SetDictionary", "DelDictionary", "SetHashSet"} ) @@
  ( sweeper :> {"SetDictionary", "SetHashSet", "GetDictionary", "CleanExpired", "Clear"} )

=============================================================================
