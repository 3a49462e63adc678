---------------------------- MODULE MCConnection ----------------------------
(***************************************************************************)
(* An instance of ConnectionHistory for TLC: two servers with the roles of *)
(* two accounts swapped, and one that has the same account twice.          *)
(***************************************************************************)
EXTENDS ConnectionHistory, TLC

CONSTANTS h1, h2, h3, l1, l2

Accounts(admin, client) == ("Admin" :> admin) @@ ("Client" :> client)

ThreeServers ==
  (h1 :> Accounts(l1, l2)) @@ (h2 :> Accounts(l2, l1)) @@ (h3 :> Accounts(l1, l1))

=============================================================================
