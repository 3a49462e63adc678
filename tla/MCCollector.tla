----------------------------- MODULE MCCollector -----------------------------
(***************************************************************************)
(* An instance of CacheCollector for TLC: a string that is not JSON,       *)
(* without expiration.                                                     *)
(***************************************************************************)
EXTENDS CacheCollector, TLC

CONSTANTS w1, b

Text    == [KeyType |-> "Set"]
TextKey == {Text}

NoValue   == {}
PlainPuts == Text :> {NewEntry([form |-> "Plain", body |-> b], null, null)}

=============================================================================
