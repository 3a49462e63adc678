----------------------------- MODULE MCProvider -----------------------------
(***************************************************************************)
(* An instance of ReCacheProvider for TLC.                                 *)
(***************************************************************************)
EXTENDS ReCacheProvider, TLC

CONSTANTS client, rival, collector

(* A reader, a writer and a sweeper on one key.                            *)
RacingServes ==
  ( client    :> {"GetDictionary"} ) @@
  ( rival     :> {"SetDictionary"} ) @@
  ( collector :> {"CleanExpired"} )

=============================================================================
