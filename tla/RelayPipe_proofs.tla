-------------------------- MODULE RelayPipe_proofs --------------------------
(***************************************************************************)
(* TLAPS proofs about the pipe to the shim's own relay, for any socket     *)
(* buffers and any number of messages.                                     *)
(***************************************************************************)
EXTENDS RelayPipe, SequenceTheorems, TLAPS

-----------------------------------------------------------------------------
(* The inductive invariant.                                                *)

\* The pipe has something in hand exactly while it sends.
HandFits == hand # NoHand <=> pc = "sending"

\* What has left the pipe towards the other side of s, and what can still get
\* there: all that is on its way as long as the pipe runs, no more than the
\* first when it has ended.
Sunk(s) == got[Other(s)] \o outbuf[Other(s)]

Wire(s) == IF pc \in Running THEN Line(s) ELSE Sunk(s)

\* The wire has the messages of s from the first on, all of them while the
\* pipe runs, and then at most a Close, after which s sends no more.
WireExact(s) ==
    /\ Len(Wire(s)) <= nsent[s] + 1
    /\ \A i \in 1..Len(Wire(s)) : Wire(s)[i] = IF i <= nsent[s] THEN i ELSE CloseMsg
    /\ Len(Wire(s)) = nsent[s] + 1 => up[s] = "closed"
    /\ pc \in Running => nsent[s] <= Len(Wire(s))

PipeInv == TypeOK /\ HandFits /\ \A s \in Side : WireExact(s)

-----------------------------------------------------------------------------
(* Sequences.                                                              *)

\* A message that moves from the front of b to the end of a stays in line.
LEMMA MoveOne ==
    ASSUME NEW S, NEW a \in Seq(S), NEW b \in Seq(S), b # <<>>
    PROVE  Append(a, Head(b)) \o Tail(b) = a \o b
  <1>1. /\ Len(b) \in Nat /\ Len(b) >= 1 /\ Head(b) = b[1] /\ Head(b) \in S
        /\ Tail(b) \in Seq(S) /\ Len(Tail(b)) = Len(b) - 1
        /\ \A i \in 1..(Len(b) - 1) : Tail(b)[i] = b[i + 1]
    OBVIOUS
  <1>2. /\ Append(a, Head(b)) \in Seq(S) /\ Len(Append(a, Head(b))) = Len(a) + 1
        /\ \A i \in 1..(Len(a) + 1) :
              Append(a, Head(b))[i] = IF i <= Len(a) THEN a[i] ELSE b[1]
    BY <1>1
  <1> DEFINE l == Append(a, Head(b)) \o Tail(b)
             r == a \o b
  <1>3. l \in Seq(S) /\ r \in Seq(S) /\ Len(l) = Len(a) + Len(b) /\ Len(r) = Len(a) + Len(b)
    BY <1>1, <1>2
  <1>4. ASSUME NEW i \in 1..Len(l) PROVE l[i] = r[i]
    <2>1. r[i] = IF i <= Len(a) THEN a[i] ELSE b[i - Len(a)]
      BY <1>3
    <2>2. l[i] = IF i <= Len(a) + 1 THEN Append(a, Head(b))[i] ELSE Tail(b)[i - (Len(a) + 1)]
      BY <1>1, <1>2, <1>3
    <2>3. CASE i <= Len(a)
      BY <1>2, <2>1, <2>2, <2>3
    <2>4. CASE i = Len(a) + 1
      BY <1>2, <2>1, <2>2, <2>4
    <2>5. CASE i > Len(a) + 1
      <3>1. i - (Len(a) + 1) \in 1..(Len(b) - 1)
        BY <1>1, <1>3, <2>5
      <3>2. Tail(b)[i - (Len(a) + 1)] = b[i - (Len(a) + 1) + 1]
        BY <1>1, <3>1
      <3> QED
        BY <2>1, <2>2, <2>5, <3>2
    <2> QED
      BY <1>3, <2>3, <2>4, <2>5
  <1> QED
    BY <1>3, <1>4, SeqEqual

\* What is appended to the last part is appended to the whole.
LEMMA AppendConcat ==
    ASSUME NEW S
    PROVE  \A a, b \in Seq(S), x \in S : a \o Append(b, x) = Append(a \o b, x)
  <1> SUFFICES ASSUME NEW a \in Seq(S), NEW b \in Seq(S), NEW x \in S
               PROVE  a \o Append(b, x) = Append(a \o b, x)
    OBVIOUS
  <1> QED
    OBVIOUS

\* w begins with a.
Begins(a, w) == Len(a) <= Len(w) /\ \A i \in 1..Len(a) : w[i] = a[i]

LEMMA ConcatBegins ==
    ASSUME NEW S
    PROVE  \A a, b \in Seq(S) : a \o b \in Seq(S) /\ Begins(a, a \o b)
  <1> SUFFICES ASSUME NEW a \in Seq(S), NEW b \in Seq(S)
               PROVE  a \o b \in Seq(S) /\ Begins(a, a \o b)
    OBVIOUS
  <1> QED
    BY DEF Begins

LEMMA AppendBegins ==
    ASSUME NEW S
    PROVE  \A a \in Seq(S), x \in S : Append(a, x) \in Seq(S) /\ Begins(a, Append(a, x))
  BY DEF Begins

LEMMA BeginsTrans ==
    ASSUME NEW S
    PROVE  \A a, b, c \in Seq(S) : Begins(a, b) /\ Begins(b, c) => Begins(a, c)
  BY DEF Begins

-----------------------------------------------------------------------------
(* What a step may do to a wire.                                           *)

LEMMA Sides == \A s \in Side : Other(s) \in Side /\ Other(s) # s /\ Other(Other(s)) = s
                              /\ Side = {s, Other(s)}
  BY DEF Side, Other

\* The parts of a wire are sequences of messages.
LEMMA WireTypes ==
    ASSUME TypeOK, NEW s \in Side
    PROVE  /\ got[Other(s)] \in Seq(Messages) /\ outbuf[Other(s)] \in Seq(Messages)
           /\ inbuf[s] \in Seq(Messages) /\ Sunk(s) \in Seq(Messages)
           /\ Line(s) \in Seq(Messages) /\ Wire(s) \in Seq(Messages)
           /\ nsent[s] \in Nat /\ Len(Wire(s)) \in Nat
  <1>1. /\ got[Other(s)] \in Seq(Messages) /\ outbuf[Other(s)] \in Seq(Messages)
        /\ inbuf[s] \in Seq(Messages) /\ nsent[s] \in Nat
    BY Sides, PipeAssumption DEF TypeOK
  <1>2. Sunk(s) \in Seq(Messages)
    BY <1>1 DEF Sunk
  <1>3. hand.to = Other(s) => hand.msg \in Messages
    BY Sides DEF TypeOK, NoHand, CloseMsg, Side
  <1>4. Line(s) \in Seq(Messages)
    BY <1>1, <1>2, <1>3 DEF Line, Sunk
  <1> QED
    BY <1>1, <1>2, <1>4 DEF Wire

\* Nothing in hand: the wire is what was sunk and what is unread.
LEMMA LineIdle ==
    ASSUME TypeOK, NEW s \in Side, hand.to # Other(s)
    PROVE  Line(s) = Sunk(s) \o inbuf[s]
  BY WireTypes, ConcatEmptySeq DEF Line, Sunk

LEMMA LineBusy ==
    ASSUME TypeOK, NEW s \in Side, hand.to = Other(s)
    PROVE  hand.msg \in Messages /\ Line(s) = Append(Sunk(s), hand.msg) \o inbuf[s]
  <1>1. hand.msg \in Messages
    BY Sides DEF TypeOK, NoHand, CloseMsg, Side
  <1>2. Line(s) = (Sunk(s) \o <<hand.msg>>) \o inbuf[s]
    BY DEF Line, Sunk
  <1>3. Sunk(s) \o <<hand.msg>> = Append(Sunk(s), hand.msg)
    BY <1>1, WireTypes
  <1> QED
    BY <1>1, <1>2, <1>3

\* The wire begins with what was sunk.
LEMMA SunkBegins ==
    ASSUME TypeOK, NEW s \in Side
    PROVE  Begins(Sunk(s), Wire(s))
  <1>1. Sunk(s) \in Seq(Messages) /\ inbuf[s] \in Seq(Messages)
    BY WireTypes
  <1>2. \A a, b \in Seq(Messages) : a \o b \in Seq(Messages) /\ Begins(a, a \o b)
    BY ConcatBegins
  <1>3. CASE pc \notin Running
    BY <1>1, <1>3 DEF Wire, Begins
  <1>4. CASE pc \in Running /\ hand.to # Other(s)
    <2>1. Wire(s) = Sunk(s) \o inbuf[s]
      BY <1>4, LineIdle DEF Wire
    <2> QED
      BY <1>1, <1>2, <2>1, Zenon
  <1>5. CASE pc \in Running /\ hand.to = Other(s)
    <2> DEFINE p == Append(Sunk(s), hand.msg)
    <2>1. Wire(s) = p \o inbuf[s] /\ hand.msg \in Messages
      BY <1>5, LineBusy DEF Wire
    <2>2. p \in Seq(Messages) /\ Begins(Sunk(s), p)
      BY <1>1, <2>1, AppendBegins
    <2> HIDE DEF p
    <2>3. p \o inbuf[s] \in Seq(Messages) /\ Begins(p, p \o inbuf[s])
      BY <1>1, <1>2, <2>2, Zenon
    <2>4. Begins(p, Wire(s)) /\ Wire(s) \in Seq(Messages)
      BY <2>1, <2>3
    <2> QED
      BY <1>1, <2>2, <2>4, BeginsTrans
  <1> QED
    BY <1>3, <1>4, <1>5

\* While nothing is lost: the same wire.
LEMMA SameWire ==
    ASSUME PipeInv, NEW s \in Side, Wire(s)' = Wire(s), nsent'[s] = nsent[s],
           up[s] = "closed" => up'[s] = "closed", pc' \in Running => pc \in Running
    PROVE  WireExact(s)'
  BY DEF PipeInv, WireExact

\* When the pipe ends: what was sunk is a prefix of the wire.
LEMMA CutWire ==
    ASSUME PipeInv, NEW s \in Side, pc \in Running, pc' \notin Running,
           Sunk(s)' = Sunk(s), nsent'[s] = nsent[s], up[s] = "closed" => up'[s] = "closed"
    PROVE  WireExact(s)'
  <1>1. TypeOK
    BY DEF PipeInv
  <1>2. Begins(Sunk(s), Wire(s))
    BY <1>1, SunkBegins
  <1>3. Sunk(s) \in Seq(Messages) /\ Wire(s) \in Seq(Messages) /\ nsent[s] \in Nat
    BY <1>1, WireTypes
  <1>4. /\ Len(Sunk(s)) \in Nat /\ Len(Wire(s)) \in Nat /\ Len(Sunk(s)) <= Len(Wire(s))
        /\ \A i \in 1..Len(Sunk(s)) : Wire(s)[i] = Sunk(s)[i]
    BY <1>2, <1>3 DEF Begins
  <1>5. Wire(s)' = Sunk(s)
    BY DEF Wire
  <1>6. /\ Len(Wire(s)) <= nsent[s] + 1
        /\ \A i \in 1..Len(Wire(s)) : Wire(s)[i] = IF i <= nsent[s] THEN i ELSE CloseMsg
        /\ Len(Wire(s)) = nsent[s] + 1 => up[s] = "closed"
    BY DEF PipeInv, WireExact
  <1>7. /\ Len(Sunk(s)) <= nsent[s] + 1
        /\ Len(Sunk(s)) = nsent[s] + 1 => Len(Wire(s)) = nsent[s] + 1
    BY <1>3, <1>4, <1>6
  <1>8. \A i \in 1..Len(Sunk(s)) : Sunk(s)[i] = IF i <= nsent[s] THEN i ELSE CloseMsg
    BY <1>4, <1>6
  <1> QED
    BY <1>5, <1>6, <1>7, <1>8 DEF WireExact

\* While the pipe runs and s has not left, the wire is the data alone.
LEMMA GrowWire ==
    ASSUME PipeInv, NEW s \in Side, up[s] # "closed", pc \in Running, pc' = pc,
           NEW m \in Messages, Wire(s)' = Append(Wire(s), m),
           \/ m = nsent[s] + 1 /\ nsent'[s] = nsent[s] + 1
           \/ m = CloseMsg /\ nsent'[s] = nsent[s] /\ up'[s] = "closed"
    PROVE  WireExact(s)'
  <1>1. Wire(s) \in Seq(Messages) /\ nsent[s] \in Nat
    BY WireTypes DEF PipeInv
  <1>2. /\ Len(Wire(s)) = nsent[s]
        /\ \A i \in 1..nsent[s] : Wire(s)[i] = i
    BY <1>1 DEF PipeInv, WireExact
  <1>3. /\ Len(Wire(s)') = nsent[s] + 1
        /\ \A i \in 1..(nsent[s] + 1) : Wire(s)'[i] = IF i <= nsent[s] THEN i ELSE m
    BY <1>1, <1>2
  <1>4. CASE m = nsent[s] + 1 /\ nsent'[s] = nsent[s] + 1
    <2>1. \A i \in 1..(nsent[s] + 1) : Wire(s)'[i] = i
      BY <1>1, <1>3, <1>4
    <2> QED
      BY <1>1, <1>3, <1>4, <2>1 DEF WireExact
  <1>5. CASE m = CloseMsg /\ nsent'[s] = nsent[s] /\ up'[s] = "closed"
    BY <1>1, <1>3, <1>5 DEF WireExact
  <1> QED
    BY <1>4, <1>5

\* After the pipe's end a side may write on; nobody will read it.
LEMMA WriteAfterEnd ==
    ASSUME PipeInv, NEW s \in Side, up[s] # "closed", pc \notin Running, pc' = pc,
           Sunk(s)' = Sunk(s), nsent'[s] = nsent[s] + 1
    PROVE  WireExact(s)'
  <1>1. Wire(s) \in Seq(Messages) /\ nsent[s] \in Nat
    BY WireTypes DEF PipeInv
  <1>2. Wire(s)' = Wire(s)
    BY DEF Wire
  <1>3. Len(Wire(s)) <= nsent[s] /\ \A i \in 1..Len(Wire(s)) : Wire(s)[i] = i
    BY <1>1 DEF PipeInv, WireExact
  <1>4. Len(Wire(s)) \in Nat
    BY <1>1
  <1> QED
    BY <1>1, <1>2, <1>3, <1>4 DEF WireExact

-----------------------------------------------------------------------------
(* The steps of the pipe.                                                  *)

\* Where the pipe does not send, its hand is empty.
LEMMA HandFacts ==
    ASSUME PipeInv
    PROVE  /\ pc = "sending" => hand.to \in Side /\ hand.msg \in Messages
           /\ pc # "sending" => hand = NoHand
           /\ \A s \in Side : NoHand.to # s
  BY DEF PipeInv, TypeOK, HandFits, NoHand, Side

\* Hanging up reopens nothing.
LEMMA HangUpFacts ==
    ASSUME TypeOK, NEW S \in SUBSET Side, HangUp(S)
    PROVE  /\ up' \in [Side -> {"open", "closed", "hungup"}]
           /\ \A s \in Side : up[s] = "closed" => up'[s] = "closed"
  BY DEF HangUp, TypeOK

LEMMA TypeKept == PipeInv /\ [Next]_vars => TypeOK'
  <1> SUFFICES ASSUME PipeInv, [Next]_vars PROVE TypeOK'
    OBVIOUS
  <1> USE DEF PipeInv
  <1>1. CASE ConnectOk \/ ConnectErr
    BY <1>1, HangUpFacts DEF ConnectOk, ConnectErr, TypeOK
  <1>2. CASE Send
    <2>1. hand.to \in Side /\ hand.msg \in Messages
      BY <1>2, HandFacts DEF Send
    <2>2. outbuf[hand.to] \in Seq(Messages) /\ Len(outbuf[hand.to]) < BufCap
      BY <1>2, <2>1 DEF Send, TypeOK
    <2> DEFINE q == Append(outbuf[hand.to], hand.msg)
    <2>3. q \in Seq(Messages) /\ Len(q) = Len(outbuf[hand.to]) + 1
      BY <2>1, <2>2
    <2>4. Len(q) <= BufCap
      BY <2>2, <2>3, PipeAssumption
    <2>5. outbuf' = [outbuf EXCEPT ![hand.to] = q]
      BY <1>2 DEF Send
    <2> HIDE DEF q
    <2>6. outbuf' \in [Side -> Seq(Messages)] /\ \A s \in Side : Len(outbuf'[s]) <= BufCap
      BY <2>3, <2>4, <2>5 DEF TypeOK
    <2> QED
      BY <1>2, <2>6 DEF Send, TypeOK
  <1>3. CASE SendErr
    BY <1>3 DEF SendErr, TypeOK
  <1>4. CASE CloseRelay \/ CloseClient \/ SocketErr
    <2>1. {} \in SUBSET Side /\ Side \in SUBSET Side /\ {"relay"} \in SUBSET Side
      BY DEF Side
    <2>2. up' \in [Side -> {"open", "closed", "hungup"}]
      BY <1>4, <2>1, HangUpFacts DEF CloseRelay, CloseClient, SocketErr
    <2> QED
      BY <1>4, <2>2 DEF CloseRelay, CloseClient, SocketErr, TypeOK
  <1>5. ASSUME NEW s \in Side, Read(s) PROVE TypeOK'
    <2>1. inbuf[s] \in Seq(Messages) /\ inbuf[s] # <<>> /\ Len(inbuf[s]) <= BufCap
      BY <1>5 DEF Read, TypeOK
    <2>2. Head(inbuf[s]) \in Messages /\ Tail(inbuf[s]) \in Seq(Messages)
          /\ Len(Tail(inbuf[s])) = Len(inbuf[s]) - 1
      BY <2>1
    <2>3. Len(Tail(inbuf[s])) <= BufCap
      BY <2>1, <2>2, PipeAssumption
    <2>4. inbuf' = [inbuf EXCEPT ![s] = Tail(inbuf[s])]
      BY <1>5 DEF Read
    <2>5. inbuf' \in [Side -> Seq(Messages)] /\ \A x \in Side : Len(inbuf'[x]) <= BufCap
      BY <2>2, <2>3, <2>4 DEF TypeOK
    <2>6. pc' \in {"closing1", "sending"} /\ hand' \in [to : Side, msg : Messages] \cup {NoHand}
      BY <1>5, <2>2, Sides DEF Read, TypeOK
    <2> QED
      BY <1>5, <2>5, <2>6 DEF Read, TypeOK
  <1>6. ASSUME NEW s \in Side, ReadEnd(s) PROVE TypeOK'
    BY <1>6 DEF ReadEnd, TypeOK
  <1>7. ASSUME NEW s \in Side, NEW m \in Messages, Len(inbuf[s]) < BufCap,
               inbuf' = [inbuf EXCEPT ![s] = Append(@, m)]
        PROVE  inbuf' \in [Side -> Seq(Messages)] /\ \A x \in Side : Len(inbuf'[x]) <= BufCap
    <2> DEFINE q == Append(inbuf[s], m)
    <2>1. inbuf[s] \in Seq(Messages)
      BY DEF TypeOK
    <2>2. q \in Seq(Messages) /\ Len(q) = Len(inbuf[s]) + 1
      BY <2>1
    <2>3. Len(q) <= BufCap
      BY <1>7, <2>1, <2>2, PipeAssumption
    <2>4. inbuf' = [inbuf EXCEPT ![s] = q]
      BY <1>7
    <2> HIDE DEF q
    <2> QED
      BY <2>2, <2>3, <2>4 DEF TypeOK
  <1>8. ASSUME NEW s \in Side, Write(s) PROVE TypeOK'
    <2>1. nsent[s] + 1 \in Messages /\ nsent' \in [Side -> 0..MaxSend]
      BY <1>8, PipeAssumption DEF Write, TypeOK, Messages
    <2> QED
      BY <1>7, <1>8, <2>1 DEF Write, TypeOK
  <1>9. ASSUME NEW s \in Side, Take(s) PROVE TypeOK'
    <2>1. outbuf[s] \in Seq(Messages) /\ outbuf[s] # <<>> /\ Len(outbuf[s]) <= BufCap
          /\ got[s] \in Seq(Messages)
      BY <1>9 DEF Take, TypeOK
    <2>2. Append(got[s], Head(outbuf[s])) \in Seq(Messages)
          /\ Tail(outbuf[s]) \in Seq(Messages) /\ Len(Tail(outbuf[s])) = Len(outbuf[s]) - 1
      BY <2>1
    <2>3. Len(Tail(outbuf[s])) <= BufCap
      BY <2>1, <2>2, PipeAssumption
    <2>4. outbuf' = [outbuf EXCEPT ![s] = Tail(outbuf[s])]
          /\ got' = [got EXCEPT ![s] = Append(got[s], Head(outbuf[s]))]
      BY <1>9 DEF Take
    <2>5. outbuf' \in [Side -> Seq(Messages)] /\ \A x \in Side : Len(outbuf'[x]) <= BufCap
      BY <2>2, <2>3, <2>4 DEF TypeOK
    <2>6. got' \in [Side -> Seq(Messages)]
      BY <2>2, <2>4 DEF TypeOK
    <2> QED
      BY <1>9, <2>5, <2>6 DEF Take, TypeOK
  <1>10. ASSUME NEW s \in Side, Leave(s) PROVE TypeOK'
    <2>1. CloseMsg \in Messages
      BY PipeAssumption DEF CloseMsg, Messages
    <2> QED
      BY <1>7, <1>10, <2>1 DEF Leave, TypeOK
  <1>11. ASSUME NEW s \in Side, Finish(s) PROVE TypeOK'
    BY <1>11 DEF Finish, TypeOK
  <1>12. ASSUME NEW s \in Side, Block(s) PROVE TypeOK'
    BY <1>12 DEF Block, TypeOK
  <1>13. CASE UNCHANGED vars
    BY <1>13 DEF vars, TypeOK
  <1> QED
    BY <1>1, <1>2, <1>3, <1>4, <1>5, <1>6, <1>8, <1>9, <1>10, <1>11, <1>12, <1>13
    DEF Next, PipeStep

LEMMA HandKept == PipeInv /\ [Next]_vars => HandFits'
  <1> SUFFICES ASSUME PipeInv, [Next]_vars PROVE HandFits'
    OBVIOUS
  <1>1. PICK s \in Side : \/ PipeStep \/ SocketErr \/ Write(s) \/ Block(s) \/ Take(s)
                          \/ Leave(s) \/ Finish(s) \/ UNCHANGED vars
    BY DEF Next, Side
  <1>2. CASE PipeStep \/ SocketErr
    BY <1>2, HandFacts, Sides
       DEF PipeStep, SocketErr, ConnectOk, ConnectErr, Send, SendErr, CloseRelay, CloseClient, Read,
           ReadEnd, HandFits
  <1>3. CASE Write(s) \/ Block(s) \/ Take(s) \/ Leave(s) \/ Finish(s) \/ UNCHANGED vars
    BY <1>3 DEF Write, Block, Take, Leave, Finish, vars, PipeInv, HandFits
  <1> QED
    BY <1>1, <1>2, <1>3

-----------------------------------------------------------------------------
(* Every step keeps the wires.                                             *)

\* A step that moves nothing on the wire of s, and does not end the pipe.
LEMMA QuietStep ==
    ASSUME PipeInv, NEW s \in Side, Sunk(s)' = Sunk(s), hand' = hand, inbuf'[s] = inbuf[s],
           nsent'[s] = nsent[s], up[s] = "closed" => up'[s] = "closed",
           pc' \in Running <=> pc \in Running
    PROVE  WireExact(s)'
  <1>1. Line(s)' = Line(s)
    BY DEF Line, Sunk
  <1>2. Wire(s)' = Wire(s)
    BY <1>1 DEF Wire
  <1> QED
    BY <1>2, SameWire

\* A message read from s is in hand: the wire of s is as it was.
LEMMA ReadWire ==
    ASSUME PipeInv, NEW r \in Side, Read(r), NEW s \in Side
    PROVE  WireExact(s)'
  <1>1. hand.to # Other(s) /\ pc = "select" /\ TypeOK /\ TypeOK'
    <2>1. pc = "select" /\ Next
      BY DEF Read, Next, PipeStep
    <2> QED
      BY <2>1, HandFacts, Sides, TypeKept DEF PipeInv
  <1>2. Sunk(s)' = Sunk(s) /\ nsent' = nsent /\ up' = up
    BY DEF Read, Sunk
  <1>3. CASE EndsPipe(r, Head(inbuf[r]))
    <2>1. pc' \notin Running /\ pc \in Running
      BY <1>1, <1>3 DEF Read, Running
    <2> QED
      BY <1>2, <2>1, CutWire
  <1>4. CASE ~EndsPipe(r, Head(inbuf[r]))
    <2>1. pc' = "sending" /\ hand' = [to |-> Other(r), msg |-> Head(inbuf[r])]
          /\ inbuf[r] # <<>> /\ inbuf' = [inbuf EXCEPT ![r] = Tail(inbuf[r])]
      BY <1>4 DEF Read
    <2>2. Wire(s) = Sunk(s) \o inbuf[s]
      BY <1>1, LineIdle DEF Wire, Running
    <2>3. Wire(s)' = Line(s)'
      BY <2>1 DEF Wire, Running
    <2>4. CASE s = r
      <3>1. Line(s)' = Append(Sunk(s)', hand'.msg) \o inbuf'[s]
        <4>1. hand'.to = Other(s)
          BY <2>1, <2>4
        <4>2. Line(s)' = ((got'[Other(s)] \o outbuf'[Other(s)]) \o <<hand'.msg>>) \o inbuf'[s]
          BY <4>1 DEF Line
        <4>3. Sunk(s) \in Seq(Messages) /\ hand'.msg \in Messages
          <5>1. Sunk(s) \in Seq(Messages) /\ inbuf[r] \in Seq(Messages)
            BY <1>1, WireTypes
          <5>2. Head(inbuf[r]) \in Messages
            BY <2>1, <5>1
          <5> QED
            BY <2>1, <5>1, <5>2
        <4>4. Sunk(s) \o <<hand'.msg>> = Append(Sunk(s), hand'.msg)
          BY <4>3
        <4>5. Sunk(s) = got'[Other(s)] \o outbuf'[Other(s)]
          BY <1>2 DEF Sunk
        <4> QED
          BY <1>2, <4>2, <4>4, <4>5
      <3>2. Sunk(s) \in Seq(Messages) /\ inbuf[s] \in Seq(Messages)
        BY <1>1, WireTypes
      <3>3. Append(Sunk(s), Head(inbuf[s])) \o Tail(inbuf[s]) = Sunk(s) \o inbuf[s]
        BY <2>1, <2>4, <3>2, MoveOne
      <3>4. inbuf'[s] = Tail(inbuf[s]) /\ hand'.msg = Head(inbuf[s])
        BY <1>1, <2>1, <2>4 DEF TypeOK
      <3>5. Wire(s)' = Wire(s)
        BY <1>2, <2>2, <2>3, <3>1, <3>3, <3>4
      <3> QED
        BY <1>1, <1>2, <3>5, SameWire DEF Running
    <2>5. CASE s # r
      <3>1. hand'.to # Other(s) /\ inbuf'[s] = inbuf[s]
        BY <1>1, <2>1, <2>5, Sides DEF TypeOK
      <3>2. Line(s)' = Line(s)
        BY <1>1, <1>2, <3>1 DEF Line, Sunk
      <3>3. Wire(s)' = Wire(s)
        BY <1>1, <2>3, <3>2 DEF Wire, Running
      <3> QED
        BY <1>1, <1>2, <3>3, SameWire DEF Running
    <2> QED
      BY <2>4, <2>5
  <1> QED
    BY <1>3, <1>4

\* A message that is sent moves from the hand to the socket.
LEMMA SendWire ==
    ASSUME PipeInv, Send, NEW s \in Side
    PROVE  WireExact(s)'
  <1>1. TypeOK /\ pc = "sending" /\ pc' = "select" /\ hand.to \in Side
        /\ hand.msg \in Messages /\ hand' = NoHand
        /\ outbuf' = [outbuf EXCEPT ![hand.to] = Append(outbuf[hand.to], hand.msg)]
        /\ UNCHANGED <<inbuf, nsent, got, up>>
    BY HandFacts DEF Send, PipeInv
  <1>2. hand'.to # Other(s)
    BY <1>1, HandFacts, Sides
  <1>3. Wire(s) = Line(s) /\ Wire(s)' = Line(s)'
    BY <1>1 DEF Wire, Running
  <1>4. got[Other(s)] \in Seq(Messages) /\ outbuf[Other(s)] \in Seq(Messages)
        /\ inbuf[s] \in Seq(Messages) /\ Sunk(s) \in Seq(Messages)
    BY <1>1, WireTypes
  <1>5. CASE hand.to = Other(s)
    <2>1. Sunk(s)' = got[Other(s)] \o Append(outbuf[Other(s)], hand.msg)
      BY <1>1, <1>5 DEF Sunk, TypeOK
    <2>2. Sunk(s)' = Append(Sunk(s), hand.msg)
      <3>1. got[Other(s)] \o Append(outbuf[Other(s)], hand.msg)
              = Append(got[Other(s)] \o outbuf[Other(s)], hand.msg)
        <4>1. \A a, b \in Seq(Messages), x \in Messages : a \o Append(b, x) = Append(a \o b, x)
          BY AppendConcat
        <4> QED
          BY <1>1, <1>4, <4>1, Zenon
      <3> QED
        BY <2>1, <3>1 DEF Sunk
    <2>3. Line(s)' = (Sunk(s)' \o <<>>) \o inbuf[s]
      BY <1>1, <1>2 DEF Line, Sunk
    <2>4. Sunk(s)' \in Seq(Messages)
      BY <1>1, <1>4, <2>2
    <2>5. Line(s)' = Append(Sunk(s), hand.msg) \o inbuf[s]
      BY <2>2, <2>3, <2>4, ConcatEmptySeq
    <2>6. Wire(s)' = Wire(s)
      BY <1>1, <1>3, <1>5, <2>5, LineBusy
    <2> QED
      BY <1>1, <2>6, SameWire DEF Running
  <1>6. CASE hand.to # Other(s)
    <2>1. outbuf'[Other(s)] = outbuf[Other(s)]
      BY <1>1, <1>6, Sides DEF TypeOK
    <2>2. Line(s)' = Line(s)
      BY <1>1, <1>2, <1>6, <2>1 DEF Line
    <2> QED
      BY <1>1, <1>3, <2>2, SameWire DEF Running
  <1> QED
    BY <1>5, <1>6

\* The other steps of the pipe move no message; some of them end it.
LEMMA PipeWire ==
    ASSUME PipeInv, PipeStep \/ SocketErr, NEW s \in Side
    PROVE  WireExact(s)'
  <1>1. CASE ConnectOk
    BY <1>1, QuietStep DEF ConnectOk, Sunk, Running
  <1>2. CASE ConnectErr
    <2>1. up[s] = "closed" => up'[s] = "closed"
      BY <1>2, HangUpFacts DEF ConnectErr, PipeInv
    <2> QED
      BY <1>2, <2>1, CutWire DEF ConnectErr, Sunk, Running
  <1>3. CASE SendErr
    BY <1>3, CutWire DEF SendErr, Sunk, Running
  <1>4. ASSUME NEW r \in Side, ReadEnd(r) PROVE WireExact(s)'
    BY <1>4, CutWire DEF ReadEnd, Sunk, Running
  <1>5. CASE CloseRelay \/ CloseClient
    <2>1. up[s] = "closed" => up'[s] = "closed"
      <3>1. Side \in SUBSET Side /\ {"relay"} \in SUBSET Side
        BY DEF Side
      <3> QED
        BY <1>5, <3>1, HangUpFacts DEF CloseRelay, CloseClient, PipeInv
    <2> QED
      BY <1>5, <2>1, QuietStep DEF CloseRelay, CloseClient, Sunk, Running
  <1>6. CASE SocketErr
    <2>1. up[s] = "closed" => up'[s] = "closed"
      <3>1. Side \in SUBSET Side /\ {} \in SUBSET Side
        OBVIOUS
      <3> QED
        BY <1>6, <3>1, HangUpFacts DEF SocketErr, PipeInv
    <2>2. Sunk(s)' = Sunk(s) /\ inbuf' = inbuf /\ nsent' = nsent
      BY <1>6 DEF SocketErr, Sunk
    <2>3. CASE pc \in {"select", "sending"}
      BY <1>6, <2>1, <2>2, <2>3, CutWire DEF SocketErr, Running
    <2>4. CASE pc \notin {"select", "sending"}
      BY <1>6, <2>1, <2>2, <2>4, QuietStep DEF SocketErr, Running
    <2> QED
      BY <2>3, <2>4
  <1> QED
    BY <1>1, <1>2, <1>3, <1>4, <1>5, <1>6, ReadWire, SendWire DEF PipeStep

\* What the sides do.
LEMMA SideWire ==
    ASSUME PipeInv, NEW r \in Side,
           Write(r) \/ Block(r) \/ Take(r) \/ Leave(r) \/ Finish(r),
           NEW s \in Side
    PROVE  WireExact(s)'
  <1>1. TypeOK /\ pc' = pc /\ hand' = hand
    BY DEF PipeInv, Write, Block, Take, Leave, Finish
  <1>2. ASSUME NEW m \in Messages, inbuf'[s] = Append(inbuf[s], m), Sunk(s)' = Sunk(s),
               pc \in Running
        PROVE  Wire(s)' = Append(Wire(s), m)
    <2> DEFINE x == got[Other(s)] \o outbuf[Other(s)]
                       \o (IF hand.to = Other(s) THEN <<hand.msg>> ELSE <<>>)
    <2>1. inbuf[s] \in Seq(Messages) /\ Sunk(s) \in Seq(Messages)
      BY <1>1, WireTypes
    <2>2. x \in Seq(Messages)
      <3>1. hand.to = Other(s) => hand.msg \in Messages
        BY <1>1, LineBusy
      <3> QED
        BY <2>1, <3>1 DEF Sunk
    <2>3. Wire(s) = x \o inbuf[s]
      BY <1>2 DEF Wire, Line
    <2>4. Wire(s)' = x \o Append(inbuf[s], m)
      BY <1>1, <1>2 DEF Wire, Line, Sunk
    <2> HIDE DEF x
    <2>5. x \o Append(inbuf[s], m) = Append(x \o inbuf[s], m)
      BY <2>1, <2>2
    <2> QED
      BY <2>3, <2>4, <2>5
  <1>3. CASE Write(r)
    <2>1. Sunk(s)' = Sunk(s) /\ up' = up
      BY <1>3 DEF Write, Sunk
    <2>2. CASE s # r
      <3>1. inbuf'[s] = inbuf[s] /\ nsent'[s] = nsent[s]
        BY <1>3, <2>2 DEF Write, PipeInv, TypeOK
      <3> QED
        BY <1>1, <2>1, <3>1, QuietStep
    <2>3. CASE s = r
      <3>1. up[s] # "closed" /\ nsent'[s] = nsent[s] + 1
            /\ inbuf'[s] = Append(inbuf[s], nsent[s] + 1) /\ nsent[s] + 1 \in Messages
        BY <1>3, <2>3, PipeAssumption DEF Write, PipeInv, TypeOK, Messages
      <3>2. CASE pc \in Running
        BY <1>1, <1>2, <2>1, <3>1, <3>2, GrowWire
      <3>3. CASE pc \notin Running
        BY <1>1, <2>1, <3>1, <3>3, WriteAfterEnd
      <3> QED
        BY <3>2, <3>3
    <2> QED
      BY <2>2, <2>3
  <1>4. CASE Take(r)
    <2>1. inbuf' = inbuf /\ nsent' = nsent
      BY <1>4 DEF Take
    <2>2. up[s] = "closed" => up'[s] = "closed"
      BY <1>4 DEF Take, PipeInv, TypeOK
    <2>3. Sunk(s)' = Sunk(s)
      <3>1. CASE Other(s) = r
        <4>1. got[r] \in Seq(Messages) /\ outbuf[r] \in Seq(Messages) /\ outbuf[r] # <<>>
          BY <1>4 DEF Take, PipeInv, TypeOK
        <4>2. got'[r] = Append(got[r], Head(outbuf[r])) /\ outbuf'[r] = Tail(outbuf[r])
          BY <1>4 DEF Take, PipeInv, TypeOK
        <4>3. Append(got[r], Head(outbuf[r])) \o Tail(outbuf[r]) = got[r] \o outbuf[r]
          BY <4>1, MoveOne
        <4> QED
          BY <3>1, <4>2, <4>3 DEF Sunk
      <3>2. CASE Other(s) # r
        BY <1>4, <3>2, Sides DEF Take, PipeInv, TypeOK, Sunk
      <3> QED
        BY <3>1, <3>2
    <2> QED
      BY <1>1, <2>1, <2>2, <2>3, QuietStep
  <1>5. CASE Leave(r)
    <2>1. Sunk(s)' = Sunk(s) /\ nsent' = nsent
      BY <1>5 DEF Leave, Sunk
    <2>2. up[s] = "closed" => up'[s] = "closed"
      BY <1>5 DEF Leave, PipeInv, TypeOK
    <2>3. CASE inbuf'[s] = inbuf[s]
      BY <1>1, <2>1, <2>2, <2>3, QuietStep
    <2>4. CASE inbuf'[s] # inbuf[s]
      <3>1. s = r /\ inbuf'[s] = Append(inbuf[s], CloseMsg) /\ up[s] = "open"
            /\ up'[s] = "closed"
        BY <1>5, <2>4 DEF Leave, PipeInv, TypeOK
      <3>2. CloseMsg \in Messages
        BY PipeAssumption DEF CloseMsg, Messages
      <3>3. CASE pc \in Running
        BY <1>1, <1>2, <2>1, <3>1, <3>2, <3>3, GrowWire
      <3>4. CASE pc \notin Running
        <4>1. Wire(s)' = Wire(s)
          BY <1>1, <2>1, <3>4 DEF Wire
        <4> QED
          BY <1>1, <2>1, <2>2, <4>1, SameWire
      <3> QED
        BY <3>3, <3>4
    <2> QED
      BY <2>3, <2>4
  <1>6. CASE Finish(r)
    <2>1. up[s] = "closed" => up'[s] = "closed"
      BY <1>6 DEF Finish, PipeInv, TypeOK
    <2> QED
      BY <1>6, <2>1, QuietStep DEF Finish, Sunk
  <1>7. CASE Block(r)
    BY <1>7, QuietStep DEF Block, Sunk
  <1> QED
    BY <1>3, <1>4, <1>5, <1>6, <1>7

-----------------------------------------------------------------------------
(* The theorems.                                                           *)

LEMMA InitInv == Init => PipeInv
  <1> SUFFICES ASSUME Init PROVE PipeInv
    OBVIOUS
  <1>1. TypeOK /\ HandFits
    BY PipeAssumption DEF Init, TypeOK, HandFits
  <1>2. ASSUME NEW s \in Side PROVE WireExact(s)
    <2>1. hand.to # Other(s) /\ nsent[s] = 0 /\ pc \in Running
      BY Sides DEF Init, NoHand, Running, Side
    <2>2. got[Other(s)] = <<>> /\ outbuf[Other(s)] = <<>> /\ inbuf[s] = <<>>
      BY Sides DEF Init
    <2>3. Wire(s) = <<>>
      BY <2>1, <2>2 DEF Wire, Line
    <2> QED
      BY <2>1, <2>3 DEF WireExact
  <1> QED
    BY <1>1, <1>2 DEF PipeInv

LEMMA NextInv == PipeInv /\ [Next]_vars => PipeInv'
  <1> SUFFICES ASSUME PipeInv, [Next]_vars PROVE PipeInv'
    OBVIOUS
  <1>1. ASSUME NEW s \in Side PROVE WireExact(s)'
    <2>1. CASE UNCHANGED vars
      BY <2>1, QuietStep DEF vars, Sunk
    <2> QED
      BY <2>1, PipeWire, SideWire DEF Next
  <1> QED
    BY <1>1, TypeKept, HandKept DEF PipeInv

\* The inductive invariant holds throughout.
THEOREM PipeInvariant == Spec => []PipeInv
  BY InitInv, NextInv, PTL DEF Spec

\* Every variable keeps its type: no socket holds more than its buffer.
THEOREM TypeCorrect == Spec => []TypeOK
  BY PipeInvariant, PTL DEF PipeInv

\* As long as the pipe runs it loses, repeats and reorders nothing.
THEOREM PipeVerbatim == Spec => []Verbatim
  <1>1. PipeInv => Verbatim
    <2> SUFFICES ASSUME PipeInv, pc \in Running, NEW s \in Side
                 PROVE  Line(s) = Data(s) \/ Line(s) = Append(Data(s), CloseMsg)
      BY DEF Verbatim
    <2> DEFINE n == nsent[s]
    <2>1. n \in Nat /\ Line(s) \in Seq(Messages) /\ Len(Line(s)) \in Nat
      BY WireTypes DEF PipeInv
    <2>2. /\ Len(Line(s)) <= n + 1 /\ n <= Len(Line(s))
          /\ \A i \in 1..Len(Line(s)) : Line(s)[i] = IF i <= n THEN i ELSE CloseMsg
      BY DEF PipeInv, WireExact, Wire
    <2>3. Data(s) \in Seq(Nat) /\ Len(Data(s)) = n /\ \A i \in 1..n : Data(s)[i] = i
      BY <2>1 DEF Data
    <2>4. Line(s) \in Seq(Nat)
      BY <2>1, PipeAssumption DEF Messages
    <2>5. CASE Len(Line(s)) = n
      <3>1. \A i \in 1..Len(Line(s)) : Line(s)[i] = Data(s)[i]
        BY <2>1, <2>2, <2>3, <2>5
      <3> QED
        BY <2>3, <2>4, <2>5, <3>1, SeqEqual
    <2>6. CASE Len(Line(s)) = n + 1
      <3> DEFINE d == Append(Data(s), CloseMsg)
      <3>1. d \in Seq(Nat) /\ Len(d) = n + 1
            /\ \A i \in 1..(n + 1) : d[i] = IF i <= n THEN i ELSE CloseMsg
        BY <2>1, <2>3 DEF CloseMsg
      <3> HIDE DEF d
      <3>2. \A i \in 1..Len(Line(s)) : Line(s)[i] = d[i]
        BY <2>1, <2>2, <2>6, <3>1
      <3>3. Line(s) = d
        BY <2>4, <2>6, <3>1, <3>2, SeqEqual
      <3> QED
        BY <3>3 DEF d
    <2> QED
      BY <2>1, <2>2, <2>5, <2>6
  <1> QED
    BY <1>1, PipeInvariant, PTL

\* A Close that reaches the relay comes after everything the client sent.
THEOREM CloseIsLast == Spec => []CloseComesLast
  <1>1. PipeInv => CloseComesLast
    <2> SUFFICES ASSUME PipeInv, NEW i \in DOMAIN got["relay"], got["relay"][i] = CloseMsg
                 PROVE  i = Len(got["relay"]) /\ i = nsent["client"] + 1
      BY DEF CloseComesLast
    <2> DEFINE s == "client"
               g == got["relay"]
               n == nsent[s]
    <2>1. s \in Side /\ Other(s) = "relay" /\ "relay" \in Side
      BY DEF Side, Other
    <2>2. g \in Seq(Messages) /\ outbuf["relay"] \in Seq(Messages) /\ n \in Nat
          /\ Sunk(s) \in Seq(Messages) /\ inbuf[s] \in Seq(Messages)
          /\ Wire(s) \in Seq(Messages)
      BY <2>1, WireTypes DEF PipeInv
    <2>3. Len(g) \in Nat /\ i \in 1..Len(g)
      BY <2>2
    <2>4. Begins(g, Sunk(s))
      <3>1. \A a, b \in Seq(Messages) : a \o b \in Seq(Messages) /\ Begins(a, a \o b)
        BY ConcatBegins
      <3>2. Sunk(s) = g \o outbuf["relay"]
        BY <2>1, Zenon DEF Sunk
      <3> QED
        BY <2>2, <3>1, <3>2, Zenon
    <2>5. Begins(g, Wire(s))
      BY <2>1, <2>2, <2>4, SunkBegins, BeginsTrans DEF PipeInv
    <2>6. /\ Len(Wire(s)) <= n + 1 /\ Len(Wire(s)) \in Nat /\ Len(Sunk(s)) \in Nat
          /\ \A j \in 1..Len(Wire(s)) : Wire(s)[j] = IF j <= n THEN j ELSE CloseMsg
      BY <2>1, <2>2 DEF PipeInv, WireExact
    <2>7. i \in 1..Len(Wire(s)) /\ Wire(s)[i] = CloseMsg /\ Len(g) <= Len(Wire(s))
      BY <2>3, <2>5, <2>6 DEF Begins
    <2>8. i > n
      BY <2>2, <2>6, <2>7 DEF CloseMsg
    <2> QED
      BY <2>2, <2>3, <2>6, <2>7, <2>8
  <1> QED
    BY <1>1, PipeInvariant, PTL
=============================================================================
