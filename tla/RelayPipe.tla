------------------------------ MODULE RelayPipe ------------------------------
(***************************************************************************)
(* One connection to the shim's own relay at `/`: forward in               *)
(* crates/outlay-shim/src/relay.rs.                                        *)
(*                                                                         *)
(* ONE task pumps both directions: it selects over the two streams and     *)
(* sends what it has read before it reads again, so that a side that does  *)
(* not take its messages also stops the other direction.                   *)
(*                                                                         *)
(* External parts: the client, the loopback relay, and the bounded socket  *)
(* buffers between them and the pipe.  A side that finds its socket full   *)
(* may go on reading, or may be of the kind that does one thing at a time: *)
(* then it is `busy` and takes nothing until its message is gone.          *)
(* A message is its number; CloseMsg is a WebSocket Close frame.           *)
(***************************************************************************)
EXTENDS Naturals, Sequences

CONSTANTS
    BufCap,    \* messages a socket holds in one direction
    MaxSend    \* bound: data messages of each side

ASSUME PipeAssumption == BufCap \in Nat \ {0} /\ MaxSend \in Nat

Side == {"client", "relay"}
Other(s) == IF s = "client" THEN "relay" ELSE "client"

CloseMsg == 0
Messages == 0..MaxSend

VARIABLES
    pc,      \* "connecting", "select", "sending", "closing1", "closing2", "done"
    hand,    \* the message the pipe is sending, with its destination
    inbuf,   \* inbuf[s]: what side s has sent and the pipe has not read
    outbuf,  \* outbuf[s]: what the pipe has sent and side s has not read
    nsent,   \* data messages each side has sent
    got,     \* what each side has read (history)
    up,      \* up[s]: "open"; "closed", side s sends and reads no more;
             \* "hungup", the pipe has closed its sink towards s
    busy     \* busy[s]: side s waits for room in its socket and reads nothing

vars == <<pc, hand, inbuf, outbuf, nsent, got, up, busy>>

NoHand == [to |-> "none", msg |-> CloseMsg]

TypeOK ==
    /\ pc \in {"connecting", "select", "sending", "closing1", "closing2", "done"}
    /\ hand \in [to : Side, msg : Messages] \cup {NoHand}
    /\ inbuf \in [Side -> Seq(Messages)] /\ \A s \in Side : Len(inbuf[s]) <= BufCap
    /\ outbuf \in [Side -> Seq(Messages)] /\ \A s \in Side : Len(outbuf[s]) <= BufCap
    /\ nsent \in [Side -> 0..MaxSend]
    /\ got \in [Side -> Seq(Messages)]
    /\ up \in [Side -> {"open", "closed", "hungup"}]
    /\ busy \in [Side -> BOOLEAN]

Init ==
    /\ pc = "connecting"
    /\ hand = NoHand
    /\ inbuf = [s \in Side |-> <<>>]
    /\ outbuf = [s \in Side |-> <<>>]
    /\ nsent = [s \in Side |-> 0]
    /\ got = [s \in Side |-> <<>>]
    /\ up = [s \in Side |-> "open"]
    /\ busy = [s \in Side |-> FALSE]

-----------------------------------------------------------------------------
(* forward                                                                 *)

ConnectOk ==
    /\ pc = "connecting"
    /\ pc' = "select"
    /\ UNCHANGED <<hand, inbuf, outbuf, nsent, got, up, busy>>

\* The pipe ends a connection: its sink is closed, or dropped.
HangUp(S) == up' = [s \in Side |-> IF s \in S /\ up[s] = "open" THEN "hungup" ELSE up[s]]

\* connect_async fails: forward returns and drops the client's socket.
ConnectErr ==
    /\ pc = "connecting"
    /\ pc' = "done"
    /\ HangUp(Side)
    /\ UNCHANGED <<hand, inbuf, outbuf, nsent, got, busy>>

\* The loopback relay's Close ends the pipe (from_tungstenite is None); the
\* client's is passed on (to_tungstenite).
EndsPipe(s, m) == s = "relay" /\ m = CloseMsg

\* Wrong variant: a message read while the other side is busy is not kept.
Read_drops(s) ==
    /\ pc = "select"
    /\ inbuf[s] # <<>>
    /\ LET m == Head(inbuf[s])
           room == Len(outbuf[Other(s)]) < BufCap
       IN IF EndsPipe(s, m)
          THEN pc' = "closing1" /\ hand' = hand
          ELSE /\ pc' = IF room THEN "sending" ELSE "select"
               /\ hand' = IF room THEN [to |-> Other(s), msg |-> m] ELSE hand
    /\ inbuf' = [inbuf EXCEPT ![s] = Tail(@)]
    /\ UNCHANGED <<outbuf, nsent, got, up, busy>>

\* A select branch: the message is in hand until the other sink took it.
Read(s) ==
    /\ pc = "select"
    /\ inbuf[s] # <<>>
    /\ LET m == Head(inbuf[s])
       IN IF EndsPipe(s, m)
          THEN pc' = "closing1" /\ hand' = hand
          ELSE pc' = "sending" /\ hand' = [to |-> Other(s), msg |-> m]
    /\ inbuf' = [inbuf EXCEPT ![s] = Tail(@)]
    /\ UNCHANGED <<outbuf, nsent, got, up, busy>>

\* Wrong variant: a select branch whose pattern is Some(Ok(m)) goes quiet when
\* its stream ends, and the loop only breaks when both have.
ReadEnd_bothGone(s) ==
    /\ pc = "select"
    /\ \A t \in Side : inbuf[t] = <<>> /\ up[t] = "closed"
    /\ pc' = "closing1"
    /\ UNCHANGED <<hand, inbuf, outbuf, nsent, got, up, busy>>

\* The stream of a side that left is drained: `None` or an error, `break`.
ReadEnd(s) ==
    /\ pc = "select"
    /\ inbuf[s] = <<>> /\ up[s] = "closed"
    /\ pc' = "closing1"
    /\ UNCHANGED <<hand, inbuf, outbuf, nsent, got, up, busy>>

\* Wrong variant: the send does not wait for room.
Send_unbounded ==
    /\ pc = "sending"
    /\ outbuf' = [outbuf EXCEPT ![hand.to] = Append(@, hand.msg)]
    /\ hand' = NoHand
    /\ pc' = "select"
    /\ UNCHANGED <<inbuf, nsent, got, up, busy>>

\* sink.send(m).await, which waits for room in the socket.  It may succeed
\* although the destination has just left.
Send ==
    /\ pc = "sending"
    /\ Len(outbuf[hand.to]) < BufCap
    /\ outbuf' = [outbuf EXCEPT ![hand.to] = Append(@, hand.msg)]
    /\ hand' = NoHand
    /\ pc' = "select"
    /\ UNCHANGED <<inbuf, nsent, got, up, busy>>

\* The destination has left and the send fails: the loop ends.
SendErr ==
    /\ pc = "sending"
    /\ up[hand.to] = "closed"
    /\ hand' = NoHand
    /\ pc' = "closing1"
    /\ UNCHANGED <<inbuf, outbuf, nsent, got, up, busy>>

\* An error on a side that may still be there, of a read (`Some(Err)`) or of a
\* send, also ends the loop; one of a close is ignored.
SocketErr ==
    \/ /\ pc \in {"select", "sending"} /\ pc' = "closing1" /\ HangUp({})
       /\ hand' = NoHand /\ UNCHANGED <<inbuf, outbuf, nsent, got, busy>>
    \/ /\ pc = "closing1" /\ pc' = "closing2" /\ HangUp({})
       /\ UNCHANGED <<hand, inbuf, outbuf, nsent, got, busy>>
    \/ /\ pc = "closing2" /\ pc' = "done" /\ HangUp(Side)
       /\ UNCHANGED <<hand, inbuf, outbuf, nsent, got, busy>>

\* close() sends a Close frame and flushes, which waits for room; towards a
\* side that has left it fails at once.
CanClose(s) == Len(outbuf[s]) < BufCap \/ up[s] = "closed"

\* tg_sink.close()
CloseRelay ==
    /\ pc = "closing1" /\ CanClose("relay")
    /\ HangUp({"relay"})
    /\ pc' = "closing2"
    /\ UNCHANGED <<hand, inbuf, outbuf, nsent, got, busy>>

\* axum_sink.close(); then forward returns and drops what it has left.
CloseClient ==
    /\ pc = "closing2" /\ CanClose("client")
    /\ HangUp(Side)
    /\ pc' = "done"
    /\ UNCHANGED <<hand, inbuf, outbuf, nsent, got, busy>>

-----------------------------------------------------------------------------
(* The two sides; the relay is there once the pipe has connected.          *)

\* A side sends its next message, if its socket takes it.
Write(s) ==
    /\ up[s] # "closed" /\ (pc = "connecting" => s = "client")
    /\ nsent[s] < MaxSend /\ Len(inbuf[s]) < BufCap
    /\ nsent' = [nsent EXCEPT ![s] = @ + 1]
    /\ inbuf' = [inbuf EXCEPT ![s] = Append(@, nsent[s] + 1)]
    /\ busy' = [busy EXCEPT ![s] = FALSE]
    /\ UNCHANGED <<pc, hand, outbuf, got, up>>

\* A side that does one thing at a time finds its socket full, and waits.
Block(s) ==
    /\ up[s] # "closed" /\ ~busy[s]
    /\ nsent[s] < MaxSend /\ Len(inbuf[s]) = BufCap
    /\ busy' = [busy EXCEPT ![s] = TRUE]
    /\ UNCHANGED <<pc, hand, inbuf, outbuf, nsent, got, up>>

\* A side takes a message.  One that takes a Close answers it by leaving.
Take(s) ==
    /\ up[s] # "closed" /\ ~busy[s]
    /\ outbuf[s] # <<>>
    /\ got' = [got EXCEPT ![s] = Append(@, Head(outbuf[s]))]
    /\ outbuf' = [outbuf EXCEPT ![s] = Tail(@)]
    /\ up' = [up EXCEPT ![s] = IF Head(outbuf[s]) = CloseMsg THEN "closed" ELSE @]
    /\ UNCHANGED <<pc, hand, inbuf, nsent, busy>>

\* A side leaves: it sends a Close, if its socket takes it, or just goes.
Leave(s) ==
    /\ up[s] = "open" /\ (pc = "connecting" => s = "client")
    /\ up' = [up EXCEPT ![s] = "closed"]
    /\ \/ inbuf' = inbuf
       \/ Len(inbuf[s]) < BufCap /\ inbuf' = [inbuf EXCEPT ![s] = Append(@, CloseMsg)]
    /\ busy' = [busy EXCEPT ![s] = FALSE]
    /\ UNCHANGED <<pc, hand, outbuf, nsent, got>>

\* A side whose peer has hung up leaves, when it has taken all there is or
\* when what it waits to send can no longer be sent.
Finish(s) ==
    /\ up[s] = "hungup"
    /\ \/ outbuf[s] = <<>>
       \/ busy[s] /\ pc = "done"
    /\ up' = [up EXCEPT ![s] = "closed"]
    /\ busy' = [busy EXCEPT ![s] = FALSE]
    /\ UNCHANGED <<pc, hand, inbuf, outbuf, nsent, got>>

-----------------------------------------------------------------------------

PipeStep ==
    \/ ConnectOk \/ ConnectErr \/ Send \/ SendErr \/ CloseRelay \/ CloseClient
    \/ \E s \in Side : Read(s) \/ ReadEnd(s)

Next ==
    \/ PipeStep \/ SocketErr
    \/ \E s \in Side : Write(s) \/ Block(s) \/ Take(s) \/ Leave(s) \/ Finish(s)

Spec == Init /\ [][Next]_vars

\* The pipe's task runs, and select! is fair between its branches.  A side
\* reads, unless it is busy, and a busy side writes when there is room; no
\* socket need ever fail, and no side need leave.
FairSpec ==
    /\ Spec
    /\ WF_vars(PipeStep)
    /\ \A s \in Side :
         /\ WF_vars(Take(s)) /\ WF_vars(busy[s] /\ Write(s)) /\ WF_vars(Finish(s))
         /\ SF_vars(Read(s)) /\ SF_vars(ReadEnd(s))

-----------------------------------------------------------------------------
(* Properties.                                                             *)

\* What s has sent and the other side has or may still get, in order.
Line(s) ==
    LET t == Other(s)
        mine == IF hand.to = t THEN <<hand.msg>> ELSE <<>>
    IN got[t] \o outbuf[t] \o mine \o inbuf[s]

\* The data messages of s.
Data(s) == [i \in 1..nsent[s] |-> i]

Running == {"connecting", "select", "sending"}

\* relay.rs:31-33.  As long as the pipe runs, what a side has sent is, in
\* order and without a gap, what the other side has, what the sockets hold
\* and what the pipe has in hand, with at most one Close, at the end: a send
\* that waits loses nothing.
Verbatim ==
    pc \in Running =>
        \A s \in Side : Line(s) = Data(s) \/ Line(s) = Append(Data(s), CloseMsg)

\* relay.rs:50-57.  When the client's Close reaches the relay, everything
\* that the client sent before it is there too.
CloseComesLast ==
    \A i \in DOMAIN got["relay"] : got["relay"][i] = CloseMsg =>
        /\ i = Len(got["relay"])
        /\ i = nsent["client"] + 1

\* The pipe waits for room towards s.
WaitsFor(s) ==
    \/ pc = "sending" /\ hand.to = s
    \/ pc = "closing1" /\ s = "relay"
    \/ pc = "closing2" /\ s = "client"

\* The circular wait: the pipe waits for s to read, and s for the pipe to.
Wedged(s) ==
    /\ WaitsFor(s) /\ Len(outbuf[s]) = BufCap
    /\ up[s] = "open" /\ busy[s] /\ Len(inbuf[s]) = BufCap

\* relay.rs:31-33, 50-72.  "until either side closes": when one side leaves,
\* the pipe ends and the other side is told, whichever direction the pipe was
\* busy with; the one thing that can keep it from that for ever is that it
\* and the other side wait for each other, both sockets full.
BothEnd ==
    \A s \in Side :
        up[s] = "closed" ~> \/ pc = "done" /\ up[Other(s)] = "closed"
                            \/ []Wedged(Other(s))

\* relay.rs:47-68.  What the client sends is delivered or the pipe has ended,
\* but for the same circular wait, with either side.
Delivered ==
    \A n \in 1..MaxSend :
        nsent["client"] >= n ~>
            \/ pc = "done" \/ \E i \in DOMAIN got["relay"] : got["relay"][i] = n
            \/ \E s \in Side : []Wedged(s)
=============================================================================
