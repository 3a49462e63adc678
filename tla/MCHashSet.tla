------------------------------ MODULE MCHashSet ------------------------------
(***************************************************************************)
(* Instances of HashSetHistory for TLC.                                    *)
(***************************************************************************)
EXTENDS HashSetHistory, TLC

CONSTANTS writer, reader, rival

(* One thread adds and removes members, another one takes whole sets away *)
(* in every way there is, the third reads them and takes one away.         *)
OneWriterServes ==
  ( writer :> {"SetHashSet", "DelHashSet"} ) @@
  ( reader :> {"GetHashSet", "RemoveHashSet"} ) @@
  ( rival  :> {"RemoveHashSet", "Clear", "ClearAll"} )

(* Two threads add members to the same sets.                               *)
TwoWritersServe ==
  ( writer :> {"SetHashSet"} ) @@
  ( rival  :> {"SetHashSet"} )

SymmetricValues == Permutations(Values)

=============================================================================
