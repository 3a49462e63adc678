--------------------------- MODULE MonitorProofs ----------------------------
(***************************************************************************)
(* Theorems about MonitorHub, for any pages, senders and numbers of calls. *)
(***************************************************************************)
EXTENDS MonitorHub, SequenceTheorems, TLAPS

-----------------------------------------------------------------------------
(* Types.                                                                  *)

LEMMA MessageParts ==
  /\ \A m \in Messages : m = <<m[1], m[2]>> /\ m[1] \in Senders /\ m[2] \in 1 .. MaxSends[m[1]]
  /\ \A s \in Senders : \A n \in 1 .. MaxSends[s] : <<s, n>> \in Messages
  /\ \A s \in Senders : MaxSends[s] \in Nat
BY MonitorAssumption DEF Messages

LEMMA InitTypes == Init => MonitorTypeOK
BY MonitorAssumption DEF Init, MonitorTypeOK, Joined

LEMMA PageTypes ==
  ASSUME MonitorTypeOK, NEW p \in Pages, Load(p) \/ PageStep(p) \/ Accept(p) \/ Join(p) \/ Lose(p)
  PROVE  MonitorTypeOK'
<1>1. CASE Load(p) \/ Handshake(p) \/ Started(p) \/ Closed(p)
  <2>1. /\ UNCHANGED <<link, wire, got, calls>>
        /\ \E c \in {"connecting", "open", "connected", "closed"} :
             state' = [state EXCEPT ![p] = c]
    BY <1>1 DEF Load, Handshake, Started, Closed
  <2> QED
    BY <2>1 DEF MonitorTypeOK, Joined, calls
<1>2. CASE StartFails(p)
  BY <1>2 DEF MonitorTypeOK, Joined, calls, StartFails
<1>3. CASE ReceiveLog(p)
  <2>1. Head(wire[p]) \in Messages /\ Tail(wire[p]) \in Seq(Messages) /\ got[p] \in Seq(Messages)
    BY <1>3 DEF MonitorTypeOK, ReceiveLog
  <2>2. Append(got[p], Head(wire[p])) \in Seq(Messages)
    BY <2>1
  <2>3. got' \in [Pages -> Seq(Messages)] /\ wire' \in [Pages -> Seq(Messages)]
    BY <1>3, <2>1, <2>2 DEF MonitorTypeOK, ReceiveLog
  <2>4. link[p] \notin {"none", "accepted"}
    BY <1>3 DEF MonitorTypeOK, ReceiveLog
  <2> QED
    BY <1>3, <2>3, <2>4 DEF MonitorTypeOK, Joined, calls, ReceiveLog
<1>4. CASE Accept(p) \/ Join(p)
  <2>1. Joined \subseteq Joined'
    BY <1>4 DEF MonitorTypeOK, Joined, Accept, Join
  <2>2. due' \in [Senders -> SUBSET Joined'] /\ done' \in [Senders -> SUBSET Joined']
    BY <1>4, <2>1 DEF MonitorTypeOK, calls, Accept, Join
  <2> QED
    BY <1>4, <2>2 DEF MonitorTypeOK, calls, pages, Accept, Join
<1>5. CASE Lose(p)
  <2>1. SubSeq(wire[p], 1, Len(wire[p]) - 1) \in Seq(Messages)
    BY <1>5 DEF MonitorTypeOK, Lose
  <2>2. wire' \in [Pages -> Seq(Messages)]
    BY <1>5, <2>1 DEF MonitorTypeOK, Lose
  <2> QED
    BY <1>5, <2>2 DEF MonitorTypeOK, Joined, calls, Lose
<1> QED
  BY <1>1, <1>2, <1>3, <1>4, <1>5 DEF PageStep

LEMMA CutTypes ==
  ASSUME MonitorTypeOK, StopServer \/ \E p \in Pages : Cut(p)
  PROVE  MonitorTypeOK'
<1>1. CASE StopServer
  <2>1. Joined' = {}
    BY <1>1 DEF StopServer, Joined
  <2> QED
    BY <1>1, <2>1 DEF MonitorTypeOK, pages, StopServer
<1>2. ASSUME NEW p \in Pages, Cut(p)
      PROVE  MonitorTypeOK'
  <2>1. Joined' = Joined \ {p}
    BY <1>2 DEF MonitorTypeOK, Cut, Joined
  <2>2. due' \in [Senders -> SUBSET Joined'] /\ done' \in [Senders -> SUBSET Joined']
    BY <1>2, <2>1 DEF MonitorTypeOK, Cut
  <2> QED
    BY <1>2, <2>2 DEF MonitorTypeOK, pages, Cut
<1> QED
  BY <1>1, <1>2

LEMMA CallTypes ==
  ASSUME MonitorTypeOK, NEW s \in Senders, SendLog(s) \/ CallStep(s)
  PROVE  MonitorTypeOK'
<1>1. CASE SendLog(s)
  <2>1. sent[s] + 1 \in 1 .. MaxSends[s]
    BY <1>1, MessageParts DEF MonitorTypeOK, SendLog
  <2>2. before' \in [Messages -> SUBSET Messages]
    BY <1>1, <2>1, MessageParts DEF MonitorTypeOK, SendLog
  <2>3. /\ sent' \in [Senders -> Nat]
        /\ \A t \in Senders : sent'[t] <= MaxSends[t] /\ (sending'[t] => sent'[t] > 0)
    BY <1>1, <2>1, MessageParts DEF MonitorTypeOK, SendLog
  <2>4. Joined' = Joined
    BY <1>1 DEF Joined, SendLog
  <2>5. /\ sending' \in [Senders -> BOOLEAN]
        /\ due' \in [Senders -> SUBSET Joined']
        /\ done' \in [Senders -> SUBSET Joined']
    BY <1>1, <2>4 DEF MonitorTypeOK, SendLog
  <2>6. UNCHANGED <<state, link, wire, got>>
    BY <1>1 DEF pages, SendLog
  <2> QED
    BY <2>2, <2>3, <2>5, <2>6 DEF MonitorTypeOK
<1>2. ASSUME NEW p \in Pages, Write(s, p)
      PROVE  MonitorTypeOK'
  <2>1. Last(s) \in Messages
    <3>1. sending[s]
      BY <1>2 DEF Write
    <3>2. sent[s] \in Nat /\ sent[s] <= MaxSends[s] /\ sent[s] > 0
      BY <3>1 DEF MonitorTypeOK
    <3> QED
      BY <3>2, MessageParts DEF Last
  <2>2. wire' \in [Pages -> Seq(Messages)]
    BY <1>2, <2>1 DEF MonitorTypeOK, Write
  <2>3. link[p] = "joined"
    BY <1>2 DEF Write, Joined
  <2> QED
    BY <1>2, <2>2, <2>3 DEF MonitorTypeOK, Joined, Write
<1>3. CASE SendEnds(s)
  BY <1>3 DEF MonitorTypeOK, Joined, pages, SendEnds
<1> QED
  BY <1>1, <1>2, <1>3 DEF CallStep

LEMMA NextTypes == MonitorTypeOK /\ [Next]_vars => MonitorTypeOK'
<1> SUFFICES ASSUME MonitorTypeOK, [Next]_vars
             PROVE  MonitorTypeOK'
  OBVIOUS
<1>1. CASE UNCHANGED vars
  BY <1>1 DEF MonitorTypeOK, Joined, vars, pages, calls
<1>2. CASE Next
  BY <1>2, PageTypes, CutTypes, CallTypes DEF Next
<1> QED
  BY <1>1, <1>2

(* Both ends of every connection agree on what was written to it, and no   *)
(* call waits for a connection that is gone.                               *)
THEOREM TypeCorrect == Spec => []MonitorTypeOK
BY InitTypes, NextTypes, PTL DEF Spec

-----------------------------------------------------------------------------
(* Order.  The invariant is about all that was written to the connection   *)
(* of a page: what its handler has had and what is still on the wire.      *)

Stream(p) == got[p] \o wire[p]

In(m, q) == \E i \in 1 .. Len(q) : q[i] = m

Begun(m) == m[2] <= sent[m[1]]

Ordered(q) ==
  \A j \in 1 .. Len(q) : \A i \in 1 .. j - 1 : q[i] # q[j] /\ q[j] \notin before[q[i]]

WithoutGaps(q) ==
  \A j \in 1 .. Len(q) : \A i \in 1 .. j - 1 :
    \A m \in before[q[j]] : q[i] \in before[m] => \E k \in i + 1 .. j - 1 : q[k] = m

(* Only calls that have ended are before another, and never before         *)
(* themselves.                                                             *)
BeforeEnded ==
  \A m \in Messages : \A x \in before[m] : Ended(x) /\ Begun(m) /\ x # m

StreamOK(p) ==
  /\ \A i \in 1 .. Len(Stream(p)) : Begun(Stream(p)[i])
  /\ Ordered(Stream(p))
  /\ WithoutGaps(Stream(p))

(* A call under way knows the joined connections it has written to.        *)
Visited(p) == \A s \in Senders : sending[s] /\ In(Last(s), Stream(p)) => p \in done[s]

(* What came after a message of a joined connection has come by it, or is  *)
(* bound to.                                                               *)
Reached(p) ==
  \A x \in Messages : \A y \in before[x] :
    In(y, Stream(p)) =>
      In(x, Stream(p)) \/ (~Ended(x) /\ x = Last(x[1]) /\ p \in due[x[1]])

OrderInv ==
  /\ MonitorTypeOK
  /\ BeforeEnded
  /\ \A p \in Pages : StreamOK(p)
  /\ \A p \in Joined : Visited(p) /\ Reached(p)

(* Sequences.                                                              *)

LEMMA ConcatHead ==
  ASSUME NEW S, NEW g \in Seq(S), NEW w \in Seq(S), w # <<>>
  PROVE  Append(g, Head(w)) \o Tail(w) = g \o w
<1> DEFINE a == Append(g, Head(w))
<1>1. /\ Head(w) \in S /\ Head(w) = w[1] /\ Tail(w) \in Seq(S)
      /\ Len(w) \in Nat \ {0} /\ Len(Tail(w)) = Len(w) - 1
      /\ \A i \in 1 .. Len(w) - 1 : Tail(w)[i] = w[i + 1]
  BY HeadTailProperties, EmptySeq
<1>2. /\ a \in Seq(S) /\ Len(a) = Len(g) + 1 /\ Len(g) \in Nat
      /\ \A i \in 1 .. Len(g) : a[i] = g[i]
      /\ a[Len(g) + 1] = Head(w)
  BY <1>1, AppendProperties, LenProperties
<1> HIDE DEF a
<1>3. /\ a \o Tail(w) \in Seq(S) /\ Len(a \o Tail(w)) = Len(a) + Len(Tail(w))
      /\ \A i \in 1 .. Len(a) + Len(Tail(w)) :
           (a \o Tail(w))[i] = IF i <= Len(a) THEN a[i] ELSE Tail(w)[i - Len(a)]
  BY <1>1, <1>2, ConcatProperties
<1>4. /\ g \o w \in Seq(S) /\ Len(g \o w) = Len(g) + Len(w)
      /\ \A i \in 1 .. Len(g) + Len(w) :
           (g \o w)[i] = IF i <= Len(g) THEN g[i] ELSE w[i - Len(g)]
  BY ConcatProperties
<1>5. Len(a \o Tail(w)) = Len(g \o w)
  BY <1>1, <1>2, <1>3, <1>4
<1>6. ASSUME NEW i \in 1 .. Len(g \o w)
      PROVE  (a \o Tail(w))[i] = (g \o w)[i]
  <2>1. CASE i <= Len(g)
    BY <2>1, <1>1, <1>2, <1>3, <1>4
  <2>2. CASE i = Len(g) + 1
    BY <2>2, <1>1, <1>2, <1>3, <1>4
  <2>3. CASE i > Len(g) + 1
    BY <2>3, <1>1, <1>2, <1>3, <1>4
  <2> QED
    BY <2>1, <2>2, <2>3, <1>2, <1>4
<1>7. a \o Tail(w) = g \o w
  BY <1>3, <1>4, <1>5, <1>6, SeqEqual
<1> QED
  BY <1>7 DEF a

LEMMA ConcatAppend ==
  ASSUME NEW S, NEW g \in Seq(S), NEW w \in Seq(S), NEW m \in S
  PROVE  g \o Append(w, m) = Append(g \o w, m)
<1>1. g \o (w \o <<m>>) = (g \o w) \o <<m>>
  BY ConcatAssociative
<1> QED
  BY <1>1, AppendIsConcat, ConcatProperties

LEMMA ConcatFront ==
  ASSUME NEW S, NEW g \in Seq(S), NEW w \in Seq(S), NEW n \in 0 .. Len(w)
  PROVE  /\ Len(g) + n \in 0 .. Len(g \o w)
         /\ g \o SubSeq(w, 1, n) = SubSeq(g \o w, 1, Len(g) + n)
<1> DEFINE f == SubSeq(w, 1, n)
           l == SubSeq(g \o w, 1, Len(g) + n)
<1>1. /\ Len(g) \in Nat /\ Len(w) \in Nat
      /\ g \o w \in Seq(S) /\ Len(g \o w) = Len(g) + Len(w)
      /\ \A i \in 1 .. Len(g) + Len(w) :
           (g \o w)[i] = IF i <= Len(g) THEN g[i] ELSE w[i - Len(g)]
  BY ConcatProperties, LenProperties
<1>2. f \in Seq(S) /\ Len(f) = n /\ \A i \in 1 .. n : f[i] = w[i]
  <2>1. \A i \in 1 .. n : w[i] \in S
    BY <1>1, ElementOfSeq
  <2> QED
    BY <2>1, <1>1, SubSeqProperties
<1>3. l \in Seq(S) /\ Len(l) = Len(g) + n /\ \A i \in 1 .. Len(g) + n : l[i] = (g \o w)[i]
  <2>1. \A i \in 1 .. Len(g) + n : (g \o w)[i] \in S
    BY <1>1, ElementOfSeq
  <2> QED
    BY <2>1, <1>1, SubSeqProperties
<1> HIDE DEF f, l
<1>4. /\ g \o f \in Seq(S) /\ Len(g \o f) = Len(g) + n
      /\ \A i \in 1 .. Len(g) + n : (g \o f)[i] = IF i <= Len(g) THEN g[i] ELSE f[i - Len(g)]
  BY <1>2, ConcatProperties
<1>5. ASSUME NEW i \in 1 .. Len(g) + n PROVE (g \o f)[i] = l[i]
  <2>1. i \in 1 .. Len(g) + Len(w) /\ i \in Nat
    BY <1>1
  <2>2. CASE i <= Len(g)
    BY <1>1, <1>3, <1>4, <2>1, <2>2
  <2>3. CASE ~(i <= Len(g))
    <3>1. i - Len(g) \in 1 .. n
      BY <1>1, <2>1, <2>3
    <3>2. (g \o f)[i] = f[i - Len(g)] /\ (g \o w)[i] = w[i - Len(g)]
      BY <1>1, <1>4, <2>1, <2>3
    <3> QED
      BY <1>2, <1>3, <3>1, <3>2
  <2> QED
    BY <2>2, <2>3
<1>6. g \o f = l
  BY <1>3, <1>4, <1>5, SeqEqual
<1> QED
  BY <1>1, <1>6 DEF f, l

-----------------------------------------------------------------------------
(* The steps.                                                              *)

LEMMA StreamTypes ==
  ASSUME MonitorTypeOK, NEW p \in Pages
  PROVE  Stream(p) \in Seq(Messages) /\ Len(Stream(p)) \in Nat
BY ConcatProperties, LenProperties DEF MonitorTypeOK, Stream

(* Ended calls stay ended, and calls that have begun have begun.           *)
LEMMA EndedStays ==
  ASSUME MonitorTypeOK, NEW m \in Messages, sent' = sent,
         \A s \in Senders : sending'[s] => sending[s], Ended(m)
  PROVE  Ended(m)'
BY MessageParts DEF Ended

(* A page of which the stream is cut short keeps what it has in order.     *)
LEMMA ShorterStream ==
  ASSUME OrderInv, NEW p \in Pages, sent' = sent, before' = before,
         NEW n \in 0 .. Len(Stream(p)), Stream(p)' = SubSeq(Stream(p), 1, n)
  PROVE  StreamOK(p)'
<1> DEFINE q == Stream(p)
           r == SubSeq(q, 1, n)
<1>1. q \in Seq(Messages) /\ Len(q) \in Nat /\ n \in 0 .. Len(q)
  BY StreamTypes DEF OrderInv
<1>2. Len(r) = n /\ \A i \in 1 .. n : r[i] = q[i]
  <2>1. \A i \in 1 .. n : q[i] \in Messages
    BY <1>1, ElementOfSeq
  <2> QED
    BY <2>1, <1>1, SubSeqProperties
<1>3. StreamOK(p)
  BY DEF OrderInv
<1> HIDE DEF r, q
<1>4. Stream(p)' = r
  BY DEF r, q
<1>5. (\A i \in 1 .. Len(q) : Begun(q[i])) /\ Ordered(q) /\ WithoutGaps(q)
  BY <1>3 DEF StreamOK, q
<1>6. ASSUME NEW i \in 1 .. Len(r) PROVE r[i][2] <= sent[r[i][1]]
  <2>1. i \in 1 .. Len(q) /\ r[i] = q[i]
    BY <1>1, <1>2
  <2> QED
    BY <1>5, <2>1 DEF Begun
<1>7. Ordered(r)
  BY <1>1, <1>2, <1>5 DEF Ordered
<1>8. WithoutGaps(r)
  <2> SUFFICES ASSUME NEW j \in 1 .. Len(r), NEW i \in 1 .. j - 1,
                      NEW m \in before[r[j]], r[i] \in before[m]
               PROVE  \E k \in i + 1 .. j - 1 : r[k] = m
    BY DEF WithoutGaps
  <2>1. j \in 1 .. Len(q) /\ r[j] = q[j] /\ r[i] = q[i]
    BY <1>1, <1>2
  <2>2. PICK k \in i + 1 .. j - 1 : q[k] = m
    BY <2>1, <1>5 DEF WithoutGaps
  <2>3. r[k] = q[k]
    BY <1>1, <1>2, <2>1
  <2> QED
    BY <2>2, <2>3
<1> QED
  <2>1. \A i \in 1 .. Len(Stream(p)') : Begun(Stream(p)[i])'
    BY <1>4, <1>6 DEF Begun
  <2>2. Ordered(Stream(p))'
    BY <1>4, <1>7 DEF Ordered
  <2>3. WithoutGaps(Stream(p))'
    BY <1>4, <1>8 DEF WithoutGaps
  <2> QED
    BY <2>1, <2>2, <2>3 DEF StreamOK

(* What writes nothing keeps the invariant: streams stay or lose their end, *)
(* and a connection that is joined after the step was so before, with the  *)
(* same calls under way, or has an empty stream.                           *)
LEMMA CalmStep ==
  ASSUME OrderInv, MonitorTypeOK', sent' = sent, before' = before,
         \A s \in Senders : sending'[s] => sending[s],
         \A p \in Pages : \E n \in 0 .. Len(Stream(p)) :
           Stream(p)' = SubSeq(Stream(p), 1, n),
         \A p \in Joined' :
           \/ Stream(p)' = <<>>
           \/ /\ p \in Joined /\ Stream(p)' = Stream(p) /\ sending' = sending
              /\ \A s \in Senders : (p \in due'[s] <=> p \in due[s]) /\ (p \in done'[s] <=> p \in done[s])
  PROVE  OrderInv'
<1>1. BeforeEnded'
  <2> SUFFICES ASSUME NEW m \in Messages, NEW x \in before[m]
               PROVE  Ended(x)' /\ Begun(m)' /\ x # m
    BY DEF BeforeEnded
  <2>1. x \in Messages /\ Ended(x) /\ Begun(m) /\ x # m
    BY DEF OrderInv, MonitorTypeOK, BeforeEnded
  <2> QED
    BY <2>1, EndedStays DEF OrderInv, Begun
<1>2. \A p \in Pages : StreamOK(p)'
  BY ShorterStream
<1>3. ASSUME NEW p \in Joined'
      PROVE  Visited(p)' /\ Reached(p)'
  <2>1. CASE Stream(p)' = <<>>
    <3>1. \A m : ~In(m, Stream(p))'
      BY <2>1 DEF In
    <3> QED
      BY <3>1 DEF Visited, Reached
  <2>2. CASE /\ p \in Joined /\ Stream(p)' = Stream(p) /\ sending' = sending
             /\ \A s \in Senders : (p \in due'[s] <=> p \in due[s]) /\ (p \in done'[s] <=> p \in done[s])
    <3>1. Visited(p) /\ Reached(p)
      BY <2>2 DEF OrderInv
    <3>2. Visited(p)'
      BY <2>2, <3>1 DEF Visited, Last, In
    <3>3. \A x \in Messages : x[1] \in Senders
      BY MessageParts
    <3>4. Reached(p)'
      BY <2>2, <3>1, <3>3 DEF Reached, Last, In, Ended
    <3> QED
      BY <3>2, <3>4
  <2> QED
    BY <2>1, <2>2
<1> QED
  BY <1>1, <1>2, <1>3 DEF OrderInv

LEMMA WholeStream ==
  ASSUME MonitorTypeOK, NEW p \in Pages
  PROVE  /\ Len(Stream(p)) \in 0 .. Len(Stream(p))
         /\ Stream(p) = SubSeq(Stream(p), 1, Len(Stream(p)))
<1> DEFINE q == Stream(p)
           r == SubSeq(q, 1, Len(q))
<1>1. q \in Seq(Messages) /\ Len(q) \in Nat
  BY StreamTypes
<1> HIDE DEF q
<1>2. \A i \in 1 .. Len(q) : q[i] \in Messages
  BY <1>1, ElementOfSeq
<1>3. r \in Seq(Messages) /\ Len(r) = Len(q) /\ \A i \in 1 .. Len(q) : r[i] = q[i]
  BY <1>1, <1>2, SubSeqProperties
<1> HIDE DEF r
<1>4. r = q
  BY <1>1, <1>3, SeqEqual
<1> QED
  BY <1>1, <1>4 DEF q, r

(* What the browser and the network do.                                    *)
LEMMA PageOrder ==
  ASSUME OrderInv, MonitorTypeOK', NEW p \in Pages,
         Load(p) \/ PageStep(p) \/ Accept(p) \/ Join(p) \/ Lose(p)
  PROVE  OrderInv'
<1> USE DEF OrderInv
<1>1. UNCHANGED <<sent, sending, due, done, before>>
  BY DEF Load, PageStep, Handshake, Started, StartFails, ReceiveLog, Closed, Accept, Join,
     Lose, calls
<1>2. \A x \in Pages \ {p} : Stream(x)' = Stream(x) /\ (x \in Joined' => x \in Joined)
  <2> SUFFICES ASSUME NEW x \in Pages \ {p}
               PROVE  got'[x] = got[x] /\ wire'[x] = wire[x] /\ link'[x] = link[x]
    BY DEF Stream, Joined
  <2>1. CASE Load(p) \/ Handshake(p) \/ Started(p) \/ Closed(p)
    BY <2>1 DEF Load, Handshake, Started, Closed
  <2>2. CASE StartFails(p) \/ ReceiveLog(p) \/ Lose(p)
    BY <2>2 DEF StartFails, ReceiveLog, Lose, MonitorTypeOK
  <2>3. CASE Accept(p) \/ Join(p)
    BY <2>3 DEF Accept, Join, pages, MonitorTypeOK
  <2> QED
    BY <2>1, <2>2, <2>3 DEF PageStep
<1>3. /\ wire[p] \in Seq(Messages) /\ got[p] \in Seq(Messages) /\ Len(wire[p]) \in Nat
      /\ link[p] \in {"none", "accepted"} => wire[p] = <<>> /\ got[p] = <<>>
  BY LenProperties DEF MonitorTypeOK
<1>4. /\ \E n \in 0 .. Len(Stream(p)) : Stream(p)' = SubSeq(Stream(p), 1, n)
      /\ p \in Joined' => Stream(p)' = <<>> \/ (p \in Joined /\ Stream(p)' = Stream(p))
  <2>1. CASE Stream(p)' = Stream(p) /\ link' = link
    BY <2>1, WholeStream DEF Joined
  <2>2. CASE Load(p) \/ Handshake(p) \/ Started(p) \/ Closed(p)
    BY <2>2, <2>1 DEF Load, Handshake, Started, Closed, Stream
  <2>3. CASE ReceiveLog(p)
    <3>1. /\ got'[p] = Append(got[p], Head(wire[p])) /\ wire'[p] = Tail(wire[p])
          /\ wire[p] # <<>> /\ link' = link
      BY <2>3 DEF ReceiveLog, MonitorTypeOK
    <3>2. Stream(p)' = Stream(p)
      BY <1>3, <3>1, ConcatHead DEF Stream
    <3> QED
      BY <3>1, <3>2, <2>1
  <2>4. CASE Accept(p) \/ Join(p)
    <3>1. link[p] \in {"none", "accepted"} /\ UNCHANGED <<got, wire>>
      BY <2>4 DEF Accept, Join, pages
    <3>2. Stream(p) = <<>> /\ Stream(p)' = Stream(p)
      BY <1>3, <3>1, ConcatEmptySeq DEF Stream
    <3> QED
      BY <3>2, WholeStream
  <2>5. ASSUME NEW n \in 0 .. Len(wire[p]), got' = got, link' = link, p \notin Joined,
               wire'[p] = SubSeq(wire[p], 1, n)
        PROVE  /\ \E l \in 0 .. Len(Stream(p)) : Stream(p)' = SubSeq(Stream(p), 1, l)
               /\ p \notin Joined'
    <3> DEFINE l == Len(got[p]) + n
    <3>1. /\ l \in 0 .. Len(got[p] \o wire[p])
          /\ got[p] \o SubSeq(wire[p], 1, n) = SubSeq(got[p] \o wire[p], 1, l)
      BY <1>3, ConcatFront
    <3>2. Stream(p)' = got[p] \o SubSeq(wire[p], 1, n)
      BY <2>5 DEF Stream
    <3>3. l \in 0 .. Len(Stream(p)) /\ Stream(p)' = SubSeq(Stream(p), 1, l)
      BY <3>1, <3>2 DEF Stream
    <3>4. p \notin Joined'
      BY <2>5 DEF Joined
    <3> QED
      BY <3>3, <3>4
  <2>6. CASE Lose(p)
    <3>1. Len(wire[p]) - 1 \in 0 .. Len(wire[p])
      BY <1>3, <2>6, EmptySeq DEF Lose
    <3> QED
      BY <3>1, <2>5, <2>6 DEF Lose, MonitorTypeOK, Joined
  <2>7. CASE StartFails(p)
    <3>1. wire'[p] = SubSeq(wire[p], 1, 0) /\ 0 \in 0 .. Len(wire[p])
      BY <1>3, <2>7, SubSeqEmpty DEF StartFails, MonitorTypeOK
    <3>2. p \notin Joined /\ link' = link /\ got' = got
      BY <2>7 DEF StartFails, Joined
    <3> QED
      BY <3>1, <3>2, <2>5
  <2> QED
    BY <2>2, <2>3, <2>4, <2>6, <2>7 DEF PageStep
<1>5. \A x \in Pages : \E n \in 0 .. Len(Stream(x)) : Stream(x)' = SubSeq(Stream(x), 1, n)
  BY <1>2, <1>4, WholeStream
<1>6. \A x \in Joined' : Stream(x)' = <<>> \/ (x \in Joined /\ Stream(x)' = Stream(x))
  BY <1>2, <1>4 DEF Joined
<1> QED
  BY <1>1, <1>5, <1>6, CalmStep

LEMMA CutOrder ==
  ASSUME OrderInv, MonitorTypeOK', StopServer \/ \E p \in Pages : Cut(p)
  PROVE  OrderInv'
<1>1. MonitorTypeOK /\ \A x \in Pages : Stream(x)' = Stream(x)
  BY DEF OrderInv, StopServer, Cut, pages, Stream
<1>2. \A x \in Pages : \E n \in 0 .. Len(Stream(x)) : Stream(x)' = SubSeq(Stream(x), 1, n)
  BY <1>1, WholeStream
<1>3. CASE StopServer
  <2>1. Joined' = {}
    BY <1>3 DEF StopServer, Joined
  <2>2. sent' = sent /\ before' = before /\ \A s \in Senders : ~sending'[s]
    BY <1>3 DEF StopServer
  <2> QED
    BY <1>2, <2>1, <2>2, CalmStep
<1>4. ASSUME NEW p \in Pages, Cut(p)
      PROVE  OrderInv'
  <2>1. sent' = sent /\ before' = before /\ sending' = sending
    BY <1>4 DEF Cut
  <2>2. \A x \in Joined' : x \in Joined /\ x # p /\ x \in Pages
    BY <1>1, <1>4 DEF Cut, Joined, MonitorTypeOK
  <2>3. \A x \in Joined' : \A s \in Senders :
          (x \in due'[s] <=> x \in due[s]) /\ (x \in done'[s] <=> x \in done[s])
    BY <2>2, <1>4 DEF Cut
  <2> QED
    BY <1>1, <1>2, <2>1, <2>2, <2>3, CalmStep
<1> QED
  BY <1>3, <1>4

(* A new call: it has not begun in any stream, and all that have ended are *)
(* before it.                                                              *)
LEMMA SendLogOrder ==
  ASSUME OrderInv, MonitorTypeOK', NEW s \in Senders, SendLog(s)
  PROVE  OrderInv'
<1>1. /\ MonitorTypeOK /\ BeforeEnded /\ sent[s] \in Nat /\ ~sending[s]
      /\ sent \in [Senders -> Nat] /\ before \in [Messages -> SUBSET Messages]
  BY DEF OrderInv, MonitorTypeOK, SendLog
<1>2. PICK new \in Messages : new = <<s, sent[s] + 1>>
  BY <1>1, MessageParts DEF SendLog
<1>3. /\ \A m \in Messages \ {new} : before'[m] = before[m]
      /\ before'[new] = {m \in Messages : Ended(m)}
  BY <1>1, <1>2 DEF SendLog
<1>4. /\ sent'[s] = sent[s] + 1 /\ sending'[s] /\ due'[s] = Joined
      /\ \A t \in Senders \ {s} : sent'[t] = sent[t] /\ sending'[t] = sending[t] /\ due'[t] = due[t]
      /\ Joined' = Joined /\ done' = done /\ \A p \in Pages : Stream(p)' = Stream(p)
  BY <1>1 DEF SendLog, MonitorTypeOK, Joined, pages, Stream
<1>5. \A m \in Messages : Begun(m) => m # new /\ Begun(m)'
  BY <1>1, <1>2, <1>4, MessageParts DEF Begun
<1>6. \A m \in Messages : Ended(m) => m # new /\ Ended(m)'
  BY <1>1, <1>2, <1>4, MessageParts DEF Ended
<1>7. BeforeEnded'
  <2> SUFFICES ASSUME NEW m \in Messages, NEW x \in before'[m]
               PROVE  Ended(x)' /\ Begun(m)' /\ x # m
    BY DEF BeforeEnded
  <2>1. CASE m = new
    <3>1. x \in Messages /\ Ended(x)
      BY <2>1, <1>3
    <3>2. Begun(new)'
      BY <1>2, <1>1, <1>4 DEF Begun
    <3> QED
      BY <2>1, <3>1, <3>2, <1>6
  <2>2. CASE m # new
    <3>1. x \in before[m] /\ x \in Messages
      BY <2>2, <1>1, <1>3
    <3>2. Ended(x) /\ Begun(m) /\ x # m
      BY <3>1, <1>1 DEF BeforeEnded
    <3> QED
      BY <3>1, <3>2, <1>5, <1>6
  <2> QED
    BY <2>1, <2>2
<1>8. ASSUME NEW p \in Pages
      PROVE  StreamOK(p)'
  <2> DEFINE q == Stream(p)
  <2>1. q \in Seq(Messages) /\ Len(q) \in Nat /\ \A i \in 1 .. Len(q) : q[i] \in Messages
    BY <1>1, StreamTypes, ElementOfSeq
  <2>2. (\A i \in 1 .. Len(q) : Begun(q[i])) /\ Ordered(q) /\ WithoutGaps(q)
    BY DEF OrderInv, StreamOK
  <2>3. Stream(p)' = q
    BY <1>4
  <2> HIDE DEF q
  <2>4. \A m \in Messages : Begun(m) => m[2] <= sent'[m[1]] /\ m # new /\ before'[m] = before[m]
    BY <1>3, <1>5 DEF Begun
  <2>5. \A i \in 1 .. Len(q) : q[i][2] <= sent'[q[i][1]] /\ q[i] # new /\ before'[q[i]] = before[q[i]]
    BY <2>1, <2>2, <2>4
  <2>6. \A j \in 1 .. Len(q) : \A i \in 1 .. j - 1 : q[i] # q[j] /\ q[j] \notin before'[q[i]]
    BY <2>1, <2>2, <2>5 DEF Ordered
  <2>7. ASSUME NEW j \in 1 .. Len(q), NEW i \in 1 .. j - 1, NEW m \in before'[q[j]],
               q[i] \in before'[m]
        PROVE  \E k \in i + 1 .. j - 1 : q[k] = m
    <3>1. m \in before[q[j]] /\ m \in Messages
      BY <2>1, <2>5, <1>1
    <3>2. m # new
      BY <3>1, <2>1, <1>1, <1>6 DEF BeforeEnded
    <3>3. q[i] \in before[m]
      BY <3>1, <3>2, <2>7, <1>3
    <3> QED
      BY <3>1, <3>3, <2>2 DEF WithoutGaps
  <2> QED
    BY <2>3, <2>5, <2>6, <2>7 DEF StreamOK, Ordered, WithoutGaps, Begun
<1>9. ASSUME NEW p \in Joined'
      PROVE  Visited(p)' /\ Reached(p)'
  <2>1. p \in Joined /\ p \in Pages /\ Visited(p) /\ Reached(p) /\ Stream(p)' = Stream(p)
    BY <1>4 DEF OrderInv, Joined
  <2>2. \A m \in Messages : In(m, Stream(p)) => m # new
    BY <2>1, <1>5 DEF OrderInv, StreamOK, In
  <2>3. ASSUME NEW t \in Senders, sending'[t], In(<<t, sent'[t]>>, Stream(p))
        PROVE  p \in done'[t]
    <3>1. t # s
      <4>1. <<s, sent'[s]>> = new
        BY <1>2, <1>4
      <4> QED
        BY <2>3, <4>1, <2>2, <1>2
    <3> QED
      BY <3>1, <2>1, <2>3, <1>4 DEF Visited, Last
  <2>4. ASSUME NEW x \in Messages, NEW y \in before'[x], In(y, Stream(p))
        PROVE  In(x, Stream(p)) \/ (~Ended(x)' /\ x = Last(x[1])' /\ p \in due'[x[1]])
    <3>1. CASE x = new
      <4>1. new[1] = s /\ new[2] = sent'[s] /\ sending'[s]
        BY <1>2, <1>1, <1>4
      <4>2. sent'[s] \in Nat /\ ~Ended(new)'
        BY <1>1, <1>4, <4>1 DEF Ended
      <4>3. new = Last(s)'
        BY <1>2, <1>4 DEF Last
      <4> QED
        BY <3>1, <4>1, <4>2, <4>3, <1>4, <2>1
    <3>2. CASE x # new
      <4>1. y \in before[x] /\ x[1] \in Senders
        BY <3>2, <1>3, MessageParts
      <4>2. In(x, Stream(p)) \/ (~Ended(x) /\ x = Last(x[1]) /\ p \in due[x[1]])
        BY <4>1, <2>1, <2>4 DEF Reached
      <4>3. x = Last(s) => Ended(x)
        BY <1>1 DEF Ended, Last
      <4>4. x[1] # s => (Ended(x)' <=> Ended(x)) /\ Last(x[1])' = Last(x[1])
        BY <4>1, <1>4 DEF Ended, Last
      <4> QED
        BY <4>1, <4>2, <4>3, <4>4, <1>4
    <3> QED
      BY <3>1, <3>2
  <2> QED
    BY <2>1, <2>3, <2>4 DEF Visited, Reached, Last, In
<1> QED
  BY <1>7, <1>8, <1>9 DEF OrderInv

(* Sequences with a new last element.                                      *)
LEMMA AppendParts ==
  ASSUME NEW q \in Seq(Messages), NEW m \in Messages
  PROVE  /\ Len(Append(q, m)) = Len(q) + 1 /\ Len(q) \in Nat
         /\ \A i \in 1 .. Len(q) : Append(q, m)[i] = q[i]
         /\ Append(q, m)[Len(q) + 1] = m
         /\ \A x : In(x, Append(q, m)) <=> In(x, q) \/ x = m
<1>1. /\ Len(Append(q, m)) = Len(q) + 1 /\ Len(q) \in Nat
      /\ \A i \in 1 .. Len(q) : Append(q, m)[i] = q[i]
      /\ Append(q, m)[Len(q) + 1] = m
  BY AppendProperties, LenProperties
<1>2. ASSUME NEW x, In(x, q) \/ x = m
      PROVE  In(x, Append(q, m))
  BY <1>1, <1>2 DEF In
<1>3. ASSUME NEW x, In(x, Append(q, m))
      PROVE  In(x, q) \/ x = m
  <2>1. PICK i \in 1 .. Len(q) + 1 : Append(q, m)[i] = x
    BY <1>1, <1>3 DEF In
  <2>2. i \in 1 .. Len(q) \/ i = Len(q) + 1
    BY <1>1
  <2> QED
    BY <1>1, <2>1, <2>2 DEF In
<1> QED
  BY <1>1, <1>2, <1>3

(* A message is written to a connection: the messages before it that the   *)
(* page should have have all come by, because their calls have ended.      *)
LEMMA WriteOrder ==
  ASSUME OrderInv, MonitorTypeOK', NEW s \in Senders, NEW p \in Pages, Write(s, p)
  PROVE  OrderInv'
<1>1. /\ MonitorTypeOK /\ BeforeEnded /\ StreamOK(p) /\ Visited(p) /\ Reached(p)
      /\ p \in Joined /\ p \notin done[s] /\ sending[s] /\ before \in [Messages -> SUBSET Messages]
  BY DEF OrderInv, MonitorTypeOK, Write
<1>2. UNCHANGED <<link, sent, sending, before>> /\ Joined' = Joined
  BY DEF Write, Joined
<1>3. PICK last \in Messages : last = Last(s) /\ last[1] = s
  <2>1. sent[s] \in Nat /\ sent[s] <= MaxSends[s] /\ sent[s] > 0
    BY <1>1 DEF MonitorTypeOK
  <2>2. Last(s) \in Messages
    BY <2>1, MessageParts DEF Last
  <2>3. Last(s)[1] = s
    BY DEF Last
  <2> QED
    BY <2>2, <2>3
<1>4. ~Ended(last) /\ Begun(last)
  <2>1. sent[s] \in Nat
    BY <1>1 DEF MonitorTypeOK
  <2> QED
    BY <1>1, <1>3, <2>1 DEF Ended, Begun, Last
<1>5. PICK q \in Seq(Messages) : q = Stream(p)
  BY <1>1, StreamTypes
<1>6. Stream(p)' = Append(q, last)
  <2>1. wire'[p] = Append(wire[p], last) /\ got'[p] = got[p]
    BY <1>1, <1>3 DEF Write, MonitorTypeOK
  <2> QED
    BY <1>1, <1>3, <1>5, <2>1, ConcatAppend DEF Stream, MonitorTypeOK
<1>7. /\ \A i \in 1 .. Len(q) : q[i] \in Messages /\ Begun(q[i])
      /\ Ordered(q) /\ WithoutGaps(q)
  BY <1>1, <1>5, ElementOfSeq DEF StreamOK
<1> DEFINE r == Append(q, last)
<1>8. /\ Len(r) = Len(q) + 1 /\ Len(q) \in Nat /\ r[Len(q) + 1] = last
      /\ \A i \in 1 .. Len(q) : r[i] = q[i]
      /\ \A x : In(x, r) <=> In(x, q) \/ x = last
  BY AppendParts
<1> HIDE DEF r
<1>9. ~In(last, q)
  BY <1>1, <1>3, <1>5 DEF Visited
<1>10. StreamOK(p)'
  <2>1. \A i \in 1 .. Len(r) : r[i][2] <= sent[r[i][1]]
    BY <1>4, <1>7, <1>8 DEF Begun
  <2>2. ASSUME NEW j \in 1 .. Len(r), NEW i \in 1 .. j - 1
        PROVE  r[i] # r[j] /\ r[j] \notin before[r[i]]
    <3>1. i \in 1 .. Len(q) /\ r[i] = q[i] /\ q[i] \in Messages
      BY <1>7, <1>8
    <3>2. CASE j = Len(q) + 1
      <4>1. r[j] = last /\ q[i] # last
        BY <3>1, <3>2, <1>8, <1>9 DEF In
      <4> QED
        BY <3>1, <4>1, <1>1, <1>4 DEF BeforeEnded
    <3>3. CASE j \in 1 .. Len(q)
      BY <3>1, <3>3, <1>7, <1>8 DEF Ordered
    <3> QED
      BY <1>8, <3>2, <3>3
  <2>3. ASSUME NEW j \in 1 .. Len(r), NEW i \in 1 .. j - 1, NEW m \in before[r[j]],
               r[i] \in before[m]
        PROVE  \E k \in i + 1 .. j - 1 : r[k] = m
    <3>1. i \in 1 .. Len(q) /\ r[i] = q[i] /\ q[i] \in Messages
      BY <1>7, <1>8
    <3>2. CASE j = Len(q) + 1
      <4>1. r[j] = last
        BY <3>2, <1>8
      <4>2. m \in Messages /\ Ended(m)
        BY <2>3, <4>1, <1>1 DEF BeforeEnded
      <4>3. In(q[i], q)
        BY <3>1 DEF In
      <4>4. In(m, q)
        BY <2>3, <3>1, <4>2, <4>3, <1>1, <1>5 DEF Reached
      <4>5. PICK k \in 1 .. Len(q) : q[k] = m
        BY <4>4 DEF In
      <4>6. k # i
        BY <2>3, <3>1, <4>2, <4>5, <1>1 DEF BeforeEnded
      <4>7. ~(k < i)
        BY <2>3, <3>1, <4>5, <1>7 DEF Ordered
      <4>8. k \in i + 1 .. j - 1 /\ r[k] = m
        BY <3>2, <4>5, <4>6, <4>7, <1>8
      <4> QED
        BY <4>8
    <3>3. CASE j \in 1 .. Len(q)
      <4>1. r[j] = q[j]
        BY <3>3, <1>8
      <4>2. PICK k \in i + 1 .. j - 1 : q[k] = m
        BY <2>3, <3>1, <3>3, <4>1, <1>7 DEF WithoutGaps
      <4>3. r[k] = m
        BY <3>3, <4>2, <1>8
      <4> QED
        BY <4>2, <4>3
    <3> QED
      BY <1>8, <3>2, <3>3
  <2>4. Stream(p)' = r
    BY <1>6 DEF r
  <2> QED
    BY <1>2, <2>1, <2>2, <2>3, <2>4 DEF StreamOK, Ordered, WithoutGaps, Begun
<1>11. Visited(p)' /\ Reached(p)'
  <2>1. Stream(p)' = r
    BY <1>6 DEF r
  <2>2. /\ p \in done'[s] /\ \A t \in Senders \ {s} : done'[t] = done[t] /\ due'[t] = due[t]
    BY <1>1 DEF Write, MonitorTypeOK
  <2>3. ASSUME NEW t \in Senders, sending[t], In(Last(t), r)
        PROVE  p \in done'[t]
    <3>1. CASE t = s
      BY <3>1, <2>2
    <3>2. CASE t # s
      <4>1. Last(t) # last
        BY <3>2, <1>3 DEF Last
      <4> QED
        BY <3>2, <4>1, <2>2, <2>3, <1>1, <1>5, <1>8 DEF Visited
    <3> QED
      BY <3>1, <3>2
  <2>4. ASSUME NEW x \in Messages, NEW y \in before[x], In(y, r)
        PROVE  In(x, r) \/ (~Ended(x) /\ x = Last(x[1]) /\ p \in due'[x[1]])
    <3>1. y # last
      BY <1>1, <1>4 DEF BeforeEnded
    <3>2. In(x, q) \/ (~Ended(x) /\ x = Last(x[1]) /\ p \in due[x[1]])
      BY <3>1, <2>4, <1>1, <1>5, <1>8 DEF Reached
    <3>3. x[1] \in Senders
      BY MessageParts
    <3> QED
      BY <3>2, <3>3, <2>2, <1>3, <1>8
  <2> QED
    BY <2>1, <2>3, <2>4, <1>2 DEF Visited, Reached, Last, Ended, In
<1>12. ASSUME NEW x \in Pages, x # p
       PROVE  StreamOK(x)' /\ (x \in Joined => Visited(x)' /\ Reached(x)')
  <2>1. Stream(x)' = Stream(x)
    BY <1>12, <1>1 DEF Write, MonitorTypeOK, Stream
  <2>2. \A t \in Senders : (x \in due'[t] <=> x \in due[t]) /\ (x \in done'[t] <=> x \in done[t])
    BY <1>12, <1>1 DEF Write, MonitorTypeOK
  <2>3. StreamOK(x) /\ (x \in Joined => Visited(x) /\ Reached(x))
    BY DEF OrderInv
  <2>4. StreamOK(x)'
    BY <2>1, <2>3, <1>2 DEF StreamOK, Ordered, WithoutGaps, Begun
  <2>5. x \in Joined => Visited(x)'
    BY <2>1, <2>2, <2>3, <1>2 DEF Visited, Last, In
  <2>6. \A m \in Messages : m[1] \in Senders
    BY MessageParts
  <2>7. x \in Joined => Reached(x)'
    BY <2>1, <2>2, <2>3, <2>6, <1>2 DEF Reached, Last, In, Ended
  <2> QED
    BY <2>4, <2>5, <2>7
<1>13. BeforeEnded'
  BY <1>1, <1>2 DEF BeforeEnded, Ended, Begun
<1>14. \A x \in Joined' : x \in Pages
  BY DEF Joined
<1> QED
  BY <1>2, <1>10, <1>11, <1>12, <1>13, <1>14 DEF OrderInv

(* A call ends: every joined connection it found has had its message.      *)
LEMMA SendEndsOrder ==
  ASSUME OrderInv, MonitorTypeOK', NEW s \in Senders, SendEnds(s)
  PROVE  OrderInv'
<1>1. /\ MonitorTypeOK /\ BeforeEnded /\ sending[s] /\ due[s] = {} /\ ~sending'[s]
      /\ UNCHANGED <<link, sent, due, before>> /\ Joined' = Joined
      /\ \A t \in Senders \ {s} : sending'[t] = sending[t] /\ done'[t] = done[t]
      /\ \A p \in Pages : Stream(p)' = Stream(p)
  BY DEF OrderInv, MonitorTypeOK, SendEnds, pages, Joined, Stream
<1>2. \A m \in Messages : m[1] \in Senders /\ (Ended(m) => Ended(m)')
  BY <1>1, MessageParts DEF Ended
<1>3. BeforeEnded'
  <2> SUFFICES ASSUME NEW m \in Messages, NEW x \in before[m]
               PROVE  Ended(x)' /\ Begun(m)' /\ x # m
    BY <1>1 DEF BeforeEnded
  <2>1. x \in Messages /\ Ended(x) /\ Begun(m) /\ x # m
    BY <1>1 DEF MonitorTypeOK, BeforeEnded
  <2> QED
    BY <2>1, <1>1, <1>2 DEF Begun
<1>4. \A p \in Pages : StreamOK(p)'
  BY <1>1 DEF OrderInv, StreamOK, Ordered, WithoutGaps, Begun
<1>5. ASSUME NEW p \in Joined'
      PROVE  Visited(p)' /\ Reached(p)'
  <2>1. p \in Joined /\ Stream(p)' = Stream(p) /\ Visited(p) /\ Reached(p)
    BY <1>1 DEF OrderInv, Joined
  <2>2. Visited(p)'
    BY <2>1, <1>1 DEF Visited, Last, In
  <2>3. ASSUME NEW x \in Messages, NEW y \in before[x], In(y, Stream(p))
        PROVE  In(x, Stream(p)) \/ (~Ended(x)' /\ x = Last(x[1])' /\ p \in due'[x[1]])
    <3>1. In(x, Stream(p)) \/ (~Ended(x) /\ x = Last(x[1]) /\ p \in due[x[1]])
      BY <2>1, <2>3 DEF Reached
    <3>2. p \in due[x[1]] => x[1] # s
      BY <1>1
    <3>3. x[1] # s => (Ended(x)' <=> Ended(x))
      BY <1>1, <1>2 DEF Ended
    <3>4. Last(x[1])' = Last(x[1]) /\ due' = due
      BY <1>1 DEF Last
    <3> QED
      BY <3>1, <3>2, <3>3, <3>4
  <2>4. Reached(p)'
    BY <2>1, <2>3, <1>1 DEF Reached, In
  <2> QED
    BY <2>2, <2>4
<1> QED
  BY <1>1, <1>3, <1>4, <1>5 DEF OrderInv

LEMMA InitOrder == Init => OrderInv
<1> SUFFICES ASSUME Init
             PROVE  OrderInv
  OBVIOUS
<1>1. MonitorTypeOK
  BY InitTypes
<1>2. BeforeEnded
  BY DEF Init, BeforeEnded
<1>3. Joined = {}
  BY DEF Init, Joined
<1>4. ASSUME NEW p \in Pages
      PROVE  StreamOK(p)
  <2>1. Stream(p) = <<>>
    BY DEF Init, Stream
  <2> QED
    BY <2>1 DEF StreamOK, Ordered, WithoutGaps
<1> QED
  BY <1>1, <1>2, <1>3, <1>4 DEF OrderInv

LEMMA NextOrder == OrderInv /\ [Next]_vars => OrderInv'
<1> SUFFICES ASSUME OrderInv, [Next]_vars
             PROVE  OrderInv'
  OBVIOUS
<1>1. MonitorTypeOK'
  BY NextTypes DEF OrderInv
<1>2. CASE UNCHANGED vars
  <2>1. UNCHANGED <<link, wire, got, sent, sending, due, done, before>>
    BY <1>2 DEF vars, pages, calls
  <2>2. \A p \in Pages : Stream(p)' = Stream(p)
    BY <2>1 DEF Stream
  <2>3. \A p \in Joined' : p \in Joined /\ p \in Pages
    BY <2>1 DEF Joined
  <2> QED
    BY <1>1, <2>1, <2>2, <2>3, WholeStream, CalmStep DEF OrderInv
<1>3. CASE Next
  BY <1>1, <1>3, PageOrder, CutOrder, SendLogOrder, WriteOrder, SendEndsOrder
     DEF Next, CallStep
<1> QED
  BY <1>2, <1>3

(* What a handler has had is the begin of the stream of its page.          *)
LEMMA GotIsPrefix ==
  ASSUME MonitorTypeOK, NEW p \in Pages
  PROVE  /\ Len(got[p]) \in Nat /\ Len(got[p]) <= Len(Stream(p)) /\ Len(Stream(p)) \in Nat
         /\ \A i \in 1 .. Len(got[p]) : Stream(p)[i] = got[p][i]
<1>1. ASSUME NEW g \in Seq(Messages), NEW w \in Seq(Messages)
      PROVE  /\ Len(g) \in Nat /\ Len(g) <= Len(g \o w) /\ Len(g \o w) \in Nat
             /\ \A i \in 1 .. Len(g) : (g \o w)[i] = g[i]
  BY ConcatProperties, LenProperties
<1>2. got[p] \in Seq(Messages) /\ wire[p] \in Seq(Messages)
  BY DEF MonitorTypeOK
<1> QED
  BY <1>1, <1>2 DEF Stream

(* Every page gets the messages in an order their senders can explain, and *)
(* none twice, also when calls of several senders overlap.                 *)
THEOREM OrderCorrect == Spec => []GotInOrder
<1>1. OrderInv => GotInOrder
  <2> SUFFICES ASSUME OrderInv, NEW p \in Pages, NEW j \in 1 .. Len(got[p]), NEW i \in 1 .. j - 1
               PROVE  got[p][i] # got[p][j] /\ got[p][j] \notin before[got[p][i]]
    BY DEF GotInOrder
  <2>1. /\ Ordered(Stream(p))
        /\ j \in 1 .. Len(Stream(p)) /\ Stream(p)[j] = got[p][j] /\ Stream(p)[i] = got[p][i]
    BY GotIsPrefix DEF OrderInv, StreamOK
  <2> QED
    BY <2>1 DEF Ordered
<1> QED
  BY <1>1, InitOrder, NextOrder, PTL DEF Spec

(* Between two messages a page has got, none is missing that was sent      *)
(* after the first and before the second: connections lose messages only   *)
(* before they join and at their end.                                      *)
THEOREM NoGaps == Spec => []GotWithoutGaps
<1>1. OrderInv => GotWithoutGaps
  <2> SUFFICES ASSUME OrderInv, NEW p \in Pages, NEW j \in 1 .. Len(got[p]), NEW i \in 1 .. j - 1,
                      NEW m \in before[got[p][j]], got[p][i] \in before[m]
               PROVE  \E k \in i + 1 .. j - 1 : got[p][k] = m
    BY DEF GotWithoutGaps
  <2>1. /\ WithoutGaps(Stream(p)) /\ Len(got[p]) \in Nat
        /\ j \in 1 .. Len(Stream(p)) /\ Stream(p)[j] = got[p][j] /\ Stream(p)[i] = got[p][i]
        /\ \A k \in 1 .. Len(got[p]) : Stream(p)[k] = got[p][k]
    BY GotIsPrefix DEF OrderInv, StreamOK
  <2>2. PICK k \in i + 1 .. j - 1 : Stream(p)[k] = m
    BY <2>1 DEF WithoutGaps
  <2>3. Stream(p)[k] = got[p][k]
    BY <2>1
  <2> QED
    BY <2>2, <2>3
<1> QED
  BY <1>1, InitOrder, NextOrder, PTL DEF Spec

=============================================================================
