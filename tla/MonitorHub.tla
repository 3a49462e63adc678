----------------------------- MODULE MonitorHub -----------------------------
(***************************************************************************)
(* The log monitor: the script of the web pages (site.js), and the hub it  *)
(* listens to (class MonitorHub).  Clients of the hub send lines of a log, *)
(* and the hub writes each to all the connections it has, one connection   *)
(* after the other, while pages come and go and the server stops and       *)
(* starts.  A page is a document in a browser, loaded once: a reload is    *)
(* the end of one page and the load of another.                            *)
(***************************************************************************)
EXTENDS Naturals, Sequences

CONSTANTS
  Pages,        (* the documents                                           *)
  Senders,      (* the clients of the hub that call SendLog                *)
  MaxSends      (* bound: how many calls each of them makes                *)

ASSUME MonitorAssumption == MaxSends \in [Senders -> Nat]

(* A message is known by its sender and its number.                        *)
Messages == UNION {{s} \X (1 .. MaxSends[s]) : s \in Senders}

VARIABLES
  state,        (* of each page and the connection of its script           *)
  link,         (* the server's end of that connection                     *)
  wire,         (* what was written to it and is not received yet          *)
  got,          (* the messages ReceiveLog was called with, in this order  *)
  sent,         (* how many calls of SendLog each sender has made          *)
  sending,      (* the last one is under way                               *)
  due,          (* the connections it has still to write to                *)
  done,         (* those it has written to                                 *)
  before        (* history: the calls that had ended when each one began   *)

pages == <<state, wire, got>>
calls == <<sent, sending, due, done, before>>
vars  == <<link, pages, calls>>

Joined == {p \in Pages : link[p] = "joined"}

(* The last message of a sender.                                           *)
Last(s) == <<s, sent[s]>>

Ended(m) == m[2] < sent[m[1]] \/ (m[2] = sent[m[1]] /\ ~sending[m[1]])

Init ==
  /\ state = [p \in Pages |-> "unloaded"]
  /\ link = [p \in Pages |-> "none"]
  /\ wire = [p \in Pages |-> <<>>]
  /\ got = [p \in Pages |-> <<>>]
  /\ sent = [s \in Senders |-> 0]
  /\ sending = [s \in Senders |-> FALSE]
  /\ due = [s \in Senders |-> {}]
  /\ done = [s \in Senders |-> {}]
  /\ before = [m \in Messages |-> {}]

-----------------------------------------------------------------------------
(* The script of a page.                                                   *)

(* The script makes the connection, registers ReceiveLog, and only then    *)
(* starts it.                                                              *)
Load(p) ==
  /\ state[p] = "unloaded"
  /\ state' = [state EXCEPT ![p] = "connecting"]
  /\ UNCHANGED <<link, wire, got, calls>>

(* The answer to the handshake arrives.                                    *)
Handshake(p) ==
  /\ state[p] = "connecting"
  /\ link[p] # "none"
  /\ state' = [state EXCEPT ![p] = "open"]
  /\ UNCHANGED <<link, wire, got, calls>>

(* The promise of start is kept: then, with nothing to do.                 *)
Started(p) ==
  /\ state[p] = "open"
  /\ state' = [state EXCEPT ![p] = "connected"]
  /\ UNCHANGED <<link, wire, got, calls>>

(* The server cannot be reached, or the connection ends before start is    *)
(* through: catch writes to the console, and nobody starts it again.       *)
StartFails(p) ==
  /\ \/ state[p] = "connecting" /\ link[p] \in {"none", "cut"}
     \/ state[p] = "open" /\ link[p] = "cut" /\ wire[p] = <<>>
  /\ state' = [state EXCEPT ![p] = "closed"]
  /\ wire' = [wire EXCEPT ![p] = <<>>]
  /\ UNCHANGED <<link, got, calls>>

(* Mutants of ReceiveLog: the newest line comes first; the handler is      *)
(* registered when start is through, and what comes earlier finds none.    *)
ReceiveFirst(p) ==
  /\ state[p] \in {"open", "connected"}
  /\ wire[p] # <<>>
  /\ got' = [got EXCEPT ![p] = <<Head(wire[p])>> \o @]
  /\ wire' = [wire EXCEPT ![p] = Tail(@)]
  /\ UNCHANGED <<state, link, calls>>

ReceiveStarted(p) ==
  /\ state[p] \in {"open", "connected"}
  /\ wire[p] # <<>>
  /\ got' = IF state[p] = "connected" THEN [got EXCEPT ![p] = Append(@, Head(wire[p]))] ELSE got
  /\ wire' = [wire EXCEPT ![p] = Tail(@)]
  /\ UNCHANGED <<state, link, calls>>

(* The handler appends a line to the list "monitorLog".  In a page without *)
(* that list the call throws, which HubConnection logs before it goes on   *)
(* with the next message.  Messages do not wait for the promise of start.  *)
ReceiveLog(p) ==
  /\ state[p] \in {"open", "connected"}
  /\ wire[p] # <<>>
  /\ got' = [got EXCEPT ![p] = Append(@, Head(wire[p]))]
  /\ wire' = [wire EXCEPT ![p] = Tail(@)]
  /\ UNCHANGED <<state, link, calls>>

(* The connection has ended.  It was built without automatic reconnection. *)
Closed(p) ==
  /\ state[p] = "connected"
  /\ link[p] = "cut"
  /\ wire[p] = <<>>
  /\ state' = [state EXCEPT ![p] = "closed"]
  /\ UNCHANGED <<link, wire, got, calls>>

-----------------------------------------------------------------------------
(* The connections of the server.                                          *)

Accept(p) ==
  /\ state[p] = "connecting"
  /\ link[p] = "none"
  /\ link' = [link EXCEPT ![p] = "accepted"]
  /\ UNCHANGED <<pages, calls>>

(* The connection becomes one of Clients.All after the handshake.          *)
Join(p) ==
  /\ link[p] = "accepted"
  /\ link' = [link EXCEPT ![p] = "joined"]
  /\ UNCHANGED <<pages, calls>>

(* Mutant of Cut: a call goes on waiting for the connection.               *)
CutKept(p) ==
  /\ link[p] \in {"accepted", "joined"}
  /\ link' = [link EXCEPT ![p] = "cut"]
  /\ UNCHANGED <<pages, calls>>

(* A connection ends, on whichever side.                                   *)
Cut(p) ==
  /\ link[p] \in {"accepted", "joined"}
  /\ link' = [link EXCEPT ![p] = "cut"]
  /\ due' = [s \in Senders |-> due[s] \ {p}]
  /\ done' = [s \in Senders |-> done[s] \ {p}]
  /\ UNCHANGED <<pages, sent, sending, before>>

(* What was on its way then may be lost, the last of it first.             *)
Lose(p) ==
  /\ link[p] = "cut"
  /\ wire[p] # <<>>
  /\ wire' = [wire EXCEPT ![p] = SubSeq(@, 1, Len(@) - 1)]
  /\ UNCHANGED <<state, link, got, calls>>

(* The process of the server ends.  It may start again, or not: no page    *)
(* loads or connects and nobody sends before.                              *)
StopServer ==
  /\ link' = [p \in Pages |-> IF link[p] = "none" THEN "none" ELSE "cut"]
  /\ sending' = [s \in Senders |-> FALSE]
  /\ due' = [s \in Senders |-> {}]
  /\ done' = [s \in Senders |-> {}]
  /\ UNCHANGED <<pages, sent, before>>

-----------------------------------------------------------------------------
(* SendLog.  The calls of one client are done one after the other, those   *)
(* of different clients at the same time.                                  *)

(* Clients.All: the connections of this moment, and any that joins before  *)
(* the end if the enumeration still comes by it.                           *)
SendLog(s) ==
  /\ ~sending[s]
  /\ sent[s] < MaxSends[s]
  /\ sent' = [sent EXCEPT ![s] = @ + 1]
  /\ sending' = [sending EXCEPT ![s] = TRUE]
  /\ due' = [due EXCEPT ![s] = Joined]
  /\ before' = [before EXCEPT ![<<s, sent[s] + 1>>] = {m \in Messages : Ended(m)}]
  /\ UNCHANGED <<link, pages, done>>

Write(s, p) ==
  /\ sending[s]
  /\ p \in Joined \ done[s]
  /\ wire' = [wire EXCEPT ![p] = Append(@, Last(s))]
  /\ due' = [due EXCEPT ![s] = @ \ {p}]
  /\ done' = [done EXCEPT ![s] = @ \cup {p}]
  /\ UNCHANGED <<state, link, got, sent, sending, before>>

(* Mutant of SendEnds: the call returns before the message was written to  *)
(* everybody, and the rest is given up.                                    *)
SendEndsEarly(s) ==
  /\ sending[s]
  /\ sending' = [sending EXCEPT ![s] = FALSE]
  /\ due' = [due EXCEPT ![s] = {}]
  /\ done' = [done EXCEPT ![s] = {}]
  /\ UNCHANGED <<link, pages, sent, before>>

SendEnds(s) ==
  /\ sending[s]
  /\ due[s] = {}
  /\ sending' = [sending EXCEPT ![s] = FALSE]
  /\ done' = [done EXCEPT ![s] = {}]
  /\ UNCHANGED <<link, pages, sent, due, before>>

-----------------------------------------------------------------------------
PageStep(p) == Handshake(p) \/ Started(p) \/ StartFails(p) \/ ReceiveLog(p) \/ Closed(p)

CallStep(s) == (\E p \in Pages : Write(s, p)) \/ SendEnds(s)

Next ==
  \/ \E p \in Pages :
       Load(p) \/ PageStep(p) \/ Accept(p) \/ Join(p) \/ Cut(p) \/ Lose(p)
  \/ \E s \in Senders : SendLog(s) \/ CallStep(s)
  \/ StopServer

Spec == Init /\ [][Next]_vars

(* The browser runs the events of a page, and the pool a call of the hub.  *)
FairSpec ==
  /\ Spec
  /\ \A p \in Pages : WF_vars(PageStep(p))
  /\ \A s \in Senders : WF_vars(CallStep(s))

-----------------------------------------------------------------------------
(* Properties.                                                             *)

(* The type invariant, with what both ends of a connection know of each    *)
(* other: nothing is received that was not written to a joined connection, *)
(* and a call waits for none that is gone.                                 *)
MonitorTypeOK ==
  /\ state \in [Pages -> {"unloaded", "connecting", "open", "connected", "closed"}]
  /\ link \in [Pages -> {"none", "accepted", "joined", "cut"}]
  /\ wire \in [Pages -> Seq(Messages)]
  /\ got \in [Pages -> Seq(Messages)]
  /\ sent \in [Senders -> Nat]
  /\ sending \in [Senders -> BOOLEAN]
  /\ due \in [Senders -> SUBSET Joined]
  /\ done \in [Senders -> SUBSET Joined]
  /\ before \in [Messages -> SUBSET Messages]
  /\ \A p \in Pages : link[p] \in {"none", "accepted"} => wire[p] = <<>> /\ got[p] = <<>>
  /\ \A s \in Senders : sent[s] <= MaxSends[s] /\ (sending[s] => sent[s] > 0)

(* Every page gets the messages in an order their senders can explain, and *)
(* none twice: a message comes after those whose SendLog had returned when *)
(* its own was called, also those of other senders.                        *)
GotInOrder ==
  \A p \in Pages : \A j \in 1 .. Len(got[p]) : \A i \in 1 .. j - 1 :
    got[p][i] # got[p][j] /\ got[p][j] \notin before[got[p][i]]

(* What a page gets has no gap: with two messages it gets every one that   *)
(* was sent after the first had returned and had returned before the other *)
(* was sent, and gets it in between.  Pages miss messages only before they *)
(* join and after their connection ends.                                   *)
GotWithoutGaps ==
  \A p \in Pages : \A j \in 1 .. Len(got[p]) : \A i \in 1 .. j - 1 :
    \A m \in before[got[p][j]] : got[p][i] \in before[m] =>
      \E k \in i + 1 .. j - 1 : got[p][k] = m

(* When a call of SendLog has to write to a page, a moment comes when the   *)
(* call has returned, whatever other pages do, and the handler of the page *)
(* has had the sender's last message: none falls between the start of the  *)
(* connection and the registration of the handler, and a call that throws  *)
(* holds up no later one.  Only the end of the connection excuses it.      *)
Delivered ==
  \A s \in Senders, p \in Pages :
    p \in due[s] ~>
      \/ link[p] = "cut"
      \/ ~sending[s] /\ \E i \in 1 .. Len(got[p]) : got[p][i] = Last(s)

=============================================================================
