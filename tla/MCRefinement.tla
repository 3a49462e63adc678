---------------------------- MODULE MCRefinement ----------------------------
(***************************************************************************)
(* An instance of ProviderRefinement for TLC.                              *)
(***************************************************************************)
EXTENDS ProviderRefinement, TLC

CONSTANTS client, sweeper

(* Everything that can happen to a string, and to a hash set of its name.  *)
StringServes ==
  ( client  :> {"SetDictionary", "GetDictionary", "DelDictionary", "SetHashSet"} ) @@
  ( sweeper :> {"SetDictionary", "DelDictionary",
                "SetHashSet", "GetHashSet", "DelHashSet", "RemoveHashSet",
                "CleanExpired", "Clear", "ClearAll"} \cup Lists )

=============================================================================
