----------------------------- MODULE MCRestart -------------------------------
(***************************************************************************)
(* Instances of CollectorHistory for TLC: a string and a hash set.         *)
(***************************************************************************)
EXTENDS CollectorHistory, TLC

CONSTANTS w1, w2, b

Text    == [KeyType |-> "Set"]
HashSet == [KeyType |-> "HashSet"]

BothKeys == {Text, HashSet}
TextKey  == {Text}
SetKey   == {HashSet}

AText(form) == [form |-> form, body |-> b]

(* What is added to the sets, and removed from them.                       *)
OneValue == {AText("Integer")}
NoValue  == {}

ASet == [form |-> "Members", body |-> {AText("Plain")}]

(* An integer and a set, without expiration; and an integer that has       *)
(* expired when it arrives.                                                *)
RobustPuts ==
  ( Text    :> {NewEntry(AText("Integer"), a, null) : a \in AbsoluteTimes \cup {null}} ) @@
  ( HashSet :> {NewEntry(ASet, null, null)} )

(* The set alone.                                                          *)
SetPuts == HashSet :> {NewEntry(ASet, null, null)}

(* Integers with and without expiration.                                   *)
ExpiringPuts ==
  Text :> {NewEntry(AText("Integer"), a, s) :
             a \in AbsoluteTimes \cup {null}, s \in SlidingSpans \cup {null}}

=============================================================================
