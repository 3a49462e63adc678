------------------------- MODULE ConnectionHistory -------------------------
(***************************************************************************)
(* ReCacheConnection with the session of its user: the login that was      *)
(* accepted last and not closed since.                                     *)
(***************************************************************************)
EXTENDS ReCacheConnection

VARIABLE session    (* the host and the token of that login, or null       *)

HInit == Init /\ session = null

Watch ==
  session' = IF made' # made THEN [to |-> address', token |-> clients'[made'].token]
             ELSE IF Close THEN null
             ELSE session

HNext == Next /\ Watch

HSpec == HInit /\ [][HNext]_<<vars, session>>

(* Every call goes to the host of the session, with the token that host    *)
(* gave, however many logins to it or to other hosts were refused, failed  *)
(* or were cancelled since.                                                *)
CallsUseSession == sent # null => sent = session /\ sent.to = sent.token.issuer

(* What the command line prints tells whether there is a session: after    *)
(* "Connected!" there is one, although not always with the host that was   *)
(* named last, and it asks to connect only when there is none.             *)
PrintsTellSession ==
  /\ printed \in {"Connected!", "answer"} => session # null
  /\ printed \in {"Connection refused!", "You must connect first."} => session = null

=============================================================================
