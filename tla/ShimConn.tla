------------------------------ MODULE ShimConn ------------------------------
(***************************************************************************)
(* One WebSocket connection of the shim: handle_ws, subscribe_loop and     *)
(* publish_once in crates/outlay-shim/src/conn.rs.                         *)
(*                                                                         *)
(* Three kinds of task meet at one bounded channel: the main loop reads    *)
(* the client's frames and spawns a task per REQ and per EVENT; those      *)
(* tasks push frames for the client; one writer drains the channel into    *)
(* the socket.  The main loop cancels a subscription through the Notify it *)
(* keeps in `subs`; a task looks at it only where the code selects on it.  *)
(*                                                                         *)
(* External parts: the client, the socket, and the outlay server at the    *)
(* other end of each CEP-41 stream, with its keepalive probe.              *)
(* Tasks are numbered in the order in which they are spawned.              *)
(***************************************************************************)
EXTENDS Integers, Sequences, FiniteSets

CONSTANTS
    SubIds,       \* subscription ids the client uses
    OutboundBuf,  \* OUTBOUND_BUF, capacity of the outbound channel
    MaxReqs,      \* bound: REQ frames of the client
    MaxOthers,    \* bound: EVENT frames and frames the shim does not recognise
    MaxChunks,    \* bound: chunks of all streams
    None

VARIABLES
    main,      \* handle_ws: "start", "loop", "notice", "joining", "done"
    socket,    \* the client's side: "open" or "closed"
    writer,    \* the writer task: "idle", "holding", "closing", "ended"
    held,      \* the frame the writer is sending
    chan,      \* the outbound channel
    got,       \* chunks of each stream that reached the client (history)
    okd,       \* publishes whose OK reached the client (history)
    subs,      \* sub_id -> its current task
    reqs,      \* subscribe tasks spawned so far
    pubs,      \* publish tasks spawned so far
    notices,   \* unrecognised frames so far
    task,      \* where each subscribe task stands
    sub,       \* the sub_id of each subscribe task
    permit,    \* its Notify holds a permit
    hand,      \* the frame it is sending
    pub,       \* where each publish task stands
    server,    \* outlay's side of the stream
    inbox,     \* chunks that reached the shim and were not read
    sent       \* chunks outlay sent (history)

vars == <<main, socket, writer, held, chan, got, okd, subs, reqs, pubs, notices,
          task, sub, permit, hand, pub, server, inbox, sent>>

connVars == <<main, subs, reqs, pubs, notices>>
wireVars == <<socket, writer, held, got, okd>>
taskVars == <<task, sub, permit, hand, pub>>
serverVars == <<server, inbox, sent>>

Tasks == 1..MaxReqs
Pubs == 1..MaxOthers

\* Frames to the client: a stream's chunk number n, the shim's own CLOSED for
\* a stream, the OK of a publish, a NOTICE.
Frames ==
    [kind : {"chunk"}, of : Tasks, n : 1..MaxChunks]
        \cup [kind : {"CLOSED"}, of : Tasks, n : {0}]
        \cup [kind : {"OK"}, of : Pubs, n : {0}]
        \cup [kind : {"NOTICE"}, of : {0}, n : {0}]

ASSUME ConnAssumption ==
    /\ OutboundBuf \in Nat \ {0}
    /\ MaxReqs \in Nat /\ MaxOthers \in Nat /\ MaxChunks \in Nat
    /\ None \notin SubIds /\ None \notin Nat /\ None \notin Frames

Chunk(t, n)    == [kind |-> "chunk", of |-> t, n |-> n]
ClosedFrame(t) == [kind |-> "CLOSED", of |-> t, n |-> 0]
OkFrame(p)     == [kind |-> "OK", of |-> p, n |-> 0]
NoticeFrame    == [kind |-> "NOTICE", of |-> 0, n |-> 0]

\* What a stream yields: a chunk number, its end (0) or an error (None).
StreamEnd == 0
StreamErr == None

\* "dropped": outlay was not told, because the task was cancelled before its
\* stream was established or because the cancel failed.
TaskPCs == {"unused", "calling", "requested", "streaming", "sending",
            "closing", "cancelling", "ended", "dropped"}

Gone == {"ended", "dropped"}

TypeOK ==
    /\ main \in {"start", "loop", "notice", "joining", "done"}
    /\ socket \in {"open", "closed"}
    /\ writer \in {"idle", "holding", "closing", "ended"}
    /\ held \in Frames \cup {None}
    /\ chan \in Seq(Frames) /\ Len(chan) <= OutboundBuf
    /\ got \in [Tasks -> 0..MaxChunks] /\ okd \subseteq Pubs
    /\ subs \in [SubIds -> Tasks \cup {None}]
    /\ reqs \in 0..MaxReqs
    /\ pubs \in Nat /\ notices \in Nat /\ pubs + notices <= MaxOthers
    /\ task \in [Tasks -> TaskPCs]
    /\ sub \in [Tasks -> SubIds \cup {None}]
    /\ permit \in [Tasks -> BOOLEAN]
    /\ hand \in [Tasks -> Frames \cup {None}]
    /\ pub \in [Pubs -> {"unused", "calling", "sending", "ended"}]
    /\ server \in [Tasks -> {"none", "open", "over"}]
    /\ inbox \in [Tasks -> Seq((1..MaxChunks) \cup {StreamEnd, StreamErr})]
    /\ sent \in [Tasks -> 0..MaxChunks]

Init ==
    /\ main = "start" /\ socket = "open"
    /\ writer = "idle" /\ held = None
    /\ chan = <<>> /\ got = [t \in Tasks |-> 0] /\ okd = {}
    /\ subs = [s \in SubIds |-> None]
    /\ reqs = 0 /\ pubs = 0 /\ notices = 0
    /\ task = [t \in Tasks |-> "unused"]
    /\ sub = [t \in Tasks |-> None]
    /\ permit = [t \in Tasks |-> FALSE]
    /\ hand = [t \in Tasks |-> None]
    /\ pub = [p \in Pubs |-> "unused"]
    /\ server = [t \in Tasks |-> "none"]
    /\ inbox = [t \in Tasks |-> <<>>]
    /\ sent = [t \in Tasks |-> 0]

-----------------------------------------------------------------------------
(* The outbound channel (tokio mpsc): send waits for room and fails once   *)
(* the receiver is gone.                                                   *)

\* Wrong variant: an unbounded channel.
CanSend_unbounded == writer # "ended"

CanSend == writer # "ended" /\ Len(chan) < OutboundBuf
SendFails == writer = "ended"

\* Every sender is dropped: the main loop's and each task's.
SendersGone ==
    /\ main \in {"joining", "done"}
    /\ \A t \in Tasks : task[t] \in Gone \cup {"unused"}
    /\ \A p \in Pubs : pub[p] \in {"unused", "ended"}

-----------------------------------------------------------------------------
(* handle_ws                                                               *)

\* A path that does not parse, or no transport: NOTICE, close, return.
Refuse ==
    /\ main = "start"
    /\ main' = "done"
    /\ writer' = "ended"
    /\ socket' = "closed"
    /\ UNCHANGED <<held, chan, got, okd, subs, reqs, pubs, notices>>
    /\ UNCHANGED taskVars /\ UNCHANGED serverVars

Accept ==
    /\ main = "start"
    /\ main' = "loop"
    /\ UNCHANGED <<chan, subs, reqs, pubs, notices>>
    /\ UNCHANGED wireVars /\ UNCHANGED taskVars /\ UNCHANGED serverVars

\* Wrong variant: the entry is replaced or removed and its task is not told.
Notified_nobody(s) == permit

\* cancel.notify_one() on the task registered under s, if there is one.
Notified(s) == [t \in Tasks |-> permit[t] \/ subs[s] = t]

\* Wrong variant: the loop ends without cancelling the subscribe tasks.
NotifiedAll_nobody == permit

NotifiedAll == [t \in Tasks |-> permit[t] \/ \E s \in SubIds : subs[s] = t]

\* REQ: cancel the task that holds the sub_id, spawn a new one in its place.
ReadReq(s) ==
    /\ main = "loop"
    /\ reqs < MaxReqs
    /\ LET t == reqs + 1
       IN /\ permit' = Notified(s)
          /\ subs' = [subs EXCEPT ![s] = t]
          /\ task' = [task EXCEPT ![t] = "calling"]
          /\ sub' = [sub EXCEPT ![t] = s]
          /\ reqs' = t
    /\ UNCHANGED <<main, chan, pubs, notices, hand, pub>>
    /\ UNCHANGED wireVars /\ UNCHANGED serverVars

\* CLOSE: cancel and forget (a CLOSE of an unknown sub_id does nothing).
ReadClose(s) ==
    /\ main = "loop"
    /\ subs[s] # None
    /\ permit' = Notified(s)
    /\ subs' = [subs EXCEPT ![s] = None]
    /\ UNCHANGED <<main, chan, reqs, pubs, notices, task, sub, hand, pub>>
    /\ UNCHANGED wireVars /\ UNCHANGED serverVars

\* EVENT: spawn a publish task.
ReadEvent ==
    /\ main = "loop"
    /\ pubs + notices < MaxOthers
    /\ pubs' = pubs + 1
    /\ pub' = [pub EXCEPT ![pubs + 1] = "calling"]
    /\ UNCHANGED <<main, chan, subs, reqs, notices, task, sub, permit, hand>>
    /\ UNCHANGED wireVars /\ UNCHANGED serverVars

\* Anything else is answered by a NOTICE, which the main loop itself sends.
ReadOther ==
    /\ main = "loop"
    /\ pubs + notices < MaxOthers
    /\ notices' = notices + 1
    /\ main' = "notice"
    /\ UNCHANGED <<chan, subs, reqs, pubs>>
    /\ UNCHANGED wireVars /\ UNCHANGED taskVars /\ UNCHANGED serverVars

SendNotice ==
    /\ main = "notice"
    /\ \/ CanSend /\ chan' = Append(chan, NoticeFrame)
       \/ SendFails /\ chan' = chan
    /\ main' = "loop"
    /\ UNCHANGED <<subs, reqs, pubs, notices>>
    /\ UNCHANGED wireVars /\ UNCHANGED taskVars /\ UNCHANGED serverVars

\* The client's Close or a read error ends the loop: cancel every subscribe,
\* drop subs and tx.
Cleanup ==
    /\ main = "loop"
    /\ socket = "closed"
    /\ permit' = NotifiedAll
    /\ subs' = [s \in SubIds |-> None]
    /\ main' = "joining"
    /\ UNCHANGED <<chan, reqs, pubs, notices, task, sub, hand, pub>>
    /\ UNCHANGED wireVars /\ UNCHANGED serverVars

\* writer.await
Join ==
    /\ main = "joining"
    /\ writer = "ended"
    /\ main' = "done"
    /\ UNCHANGED <<chan, subs, reqs, pubs, notices>>
    /\ UNCHANGED wireVars /\ UNCHANGED taskVars /\ UNCHANGED serverVars

-----------------------------------------------------------------------------
(* The writer task.                                                        *)

WriterTake ==
    /\ main # "start" /\ writer = "idle"
    /\ chan # <<>>
    /\ held' = Head(chan)
    /\ chan' = Tail(chan)
    /\ writer' = "holding"
    /\ UNCHANGED <<socket, got, okd>>
    /\ UNCHANGED connVars /\ UNCHANGED taskVars /\ UNCHANGED serverVars

\* sink.send succeeds; on a socket the client has left, the frame is lost.
WriterSent ==
    /\ writer = "holding"
    /\ IF socket = "open" /\ held.kind = "chunk"
       THEN got' = [got EXCEPT ![held.of] = @ + 1] ELSE got' = got
    /\ IF socket = "open" /\ held.kind = "OK"
       THEN okd' = okd \cup {held.of} ELSE okd' = okd
    /\ held' = None
    /\ writer' = "idle"
    /\ UNCHANGED <<socket, chan>>
    /\ UNCHANGED connVars /\ UNCHANGED taskVars /\ UNCHANGED serverVars

\* sink.send fails (the client has left), or every sender is gone: close the
\* sink.  The receiver, and what is buffered in it, goes with the task.
WriterBreak ==
    /\ main # "start"
    /\ \/ writer = "holding" /\ socket = "closed"
       \/ writer = "idle" /\ chan = <<>> /\ SendersGone
    /\ held' = None
    /\ writer' = "closing"
    /\ UNCHANGED <<socket, chan, got, okd>>
    /\ UNCHANGED connVars /\ UNCHANGED taskVars /\ UNCHANGED serverVars

WriterEnd ==
    /\ writer = "closing"
    /\ writer' = "ended"
    /\ socket' = "closed"
    /\ chan' = <<>>
    /\ UNCHANGED <<held, got, okd>>
    /\ UNCHANGED connVars /\ UNCHANGED taskVars /\ UNCHANGED serverVars

-----------------------------------------------------------------------------
(* subscribe_loop                                                          *)

\* call_tool_stream: the request leaves for outlay, which opens the stream;
\* the call returns once it is established, or with an error.
SetupRequest(t) ==
    /\ task[t] = "calling"
    /\ task' = [task EXCEPT ![t] = "requested"]
    /\ server' = [server EXCEPT ![t] = "open"]
    /\ UNCHANGED <<chan, sub, permit, hand, pub, inbox, sent>>
    /\ UNCHANGED connVars /\ UNCHANGED wireVars

SetupOk(t) ==
    /\ task[t] = "requested"
    /\ task' = [task EXCEPT ![t] = "streaming"]
    /\ UNCHANGED <<chan, sub, permit, hand, pub>>
    /\ UNCHANGED connVars /\ UNCHANGED wireVars /\ UNCHANGED serverVars

\* The request could not be sent, or outlay refused it.
SetupErr(t) ==
    /\ task[t] \in {"calling", "requested"}
    /\ task' = [task EXCEPT ![t] = "closing"]
    /\ hand' = [hand EXCEPT ![t] = ClosedFrame(t)]
    /\ server' = [server EXCEPT ![t] = "over"]
    /\ inbox' = [inbox EXCEPT ![t] = <<>>]
    /\ UNCHANGED <<chan, sub, permit, pub, sent>>
    /\ UNCHANGED connVars /\ UNCHANGED wireVars

\* The cancel branch of the first select: the connect is simply dropped.
SetupCancelled(t) ==
    /\ task[t] \in {"calling", "requested"}
    /\ permit[t]
    /\ task' = [task EXCEPT ![t] = "dropped"]
    /\ inbox' = [inbox EXCEPT ![t] = <<>>]
    /\ UNCHANGED <<chan, sub, permit, hand, pub, server, sent>>
    /\ UNCHANGED connVars /\ UNCHANGED wireVars

\* Wrong variant: a chunk that finds the channel full is thrown away.
TakeChunk_drops(t) ==
    /\ task[t] = "streaming"
    /\ inbox[t] # <<>> /\ Head(inbox[t]) \in 1..MaxChunks
    /\ hand' = [hand EXCEPT ![t] = IF CanSend THEN Chunk(t, Head(inbox[t])) ELSE None]
    /\ inbox' = [inbox EXCEPT ![t] = Tail(inbox[t])]
    /\ task' = [task EXCEPT ![t] = IF CanSend THEN "sending" ELSE "streaming"]
    /\ UNCHANGED <<chan, sub, permit, pub, server, sent>>
    /\ UNCHANGED connVars /\ UNCHANGED wireVars

\* The stream yields a chunk, which the task now has to send.
TakeChunk(t) ==
    /\ task[t] = "streaming"
    /\ inbox[t] # <<>> /\ Head(inbox[t]) \in 1..MaxChunks
    /\ hand' = [hand EXCEPT ![t] = Chunk(t, Head(inbox[t]))]
    /\ inbox' = [inbox EXCEPT ![t] = Tail(inbox[t])]
    /\ task' = [task EXCEPT ![t] = "sending"]
    /\ UNCHANGED <<chan, sub, permit, pub, server, sent>>
    /\ UNCHANGED connVars /\ UNCHANGED wireVars

\* The stream yields an error (answered by CLOSED) or ends (no answer).
TakeEnd(t) ==
    /\ task[t] = "streaming"
    /\ inbox[t] # <<>> /\ Head(inbox[t]) \in {StreamEnd, StreamErr}
    /\ IF Head(inbox[t]) = StreamErr
       THEN /\ hand' = [hand EXCEPT ![t] = ClosedFrame(t)]
            /\ task' = [task EXCEPT ![t] = "closing"]
       ELSE /\ hand' = hand
            /\ task' = [task EXCEPT ![t] = "ended"]
    /\ inbox' = [inbox EXCEPT ![t] = <<>>]
    /\ UNCHANGED <<chan, sub, permit, pub, server, sent>>
    /\ UNCHANGED connVars /\ UNCHANGED wireVars

\* tx.send(chunk).await inside the chunk arm: the cancel signal is not heard
\* while it waits.  A failed send returns without cancelling the stream.
SendChunk(t) ==
    /\ task[t] = "sending"
    /\ \/ /\ CanSend
          /\ chan' = Append(chan, hand[t])
          /\ task' = [task EXCEPT ![t] = "streaming"]
          /\ inbox' = inbox
       \/ /\ SendFails
          /\ chan' = chan
          /\ task' = [task EXCEPT ![t] = "ended"]
          /\ inbox' = [inbox EXCEPT ![t] = <<>>]
    /\ hand' = [hand EXCEPT ![t] = None]
    /\ UNCHANGED <<sub, permit, pub, server, sent>>
    /\ UNCHANGED connVars /\ UNCHANGED wireVars

\* tx.send(CLOSED).await, then return whatever it says.
SendClosed(t) ==
    /\ task[t] = "closing"
    /\ \/ CanSend /\ chan' = Append(chan, hand[t])
       \/ SendFails /\ chan' = chan
    /\ task' = [task EXCEPT ![t] = "ended"]
    /\ hand' = [hand EXCEPT ![t] = None]
    /\ UNCHANGED <<sub, permit, pub>>
    /\ UNCHANGED connVars /\ UNCHANGED wireVars /\ UNCHANGED serverVars

\* The cancel branch of the loop: handle.cancel(token) is under way, and the
\* stream is not read any more.
StreamCancelled(t) ==
    /\ task[t] = "streaming"
    /\ permit[t]
    /\ task' = [task EXCEPT ![t] = "cancelling"]
    /\ inbox' = [inbox EXCEPT ![t] = <<>>]
    /\ UNCHANGED <<chan, sub, permit, hand, pub, server, sent>>
    /\ UNCHANGED connVars /\ UNCHANGED wireVars

\* The cancel returns: outlay was told, or it fails and the error is dropped.
CancelReturns(t) ==
    /\ task[t] = "cancelling"
    /\ \/ /\ task' = [task EXCEPT ![t] = "ended"]
          /\ server' = [server EXCEPT ![t] = "over"]
       \/ /\ task' = [task EXCEPT ![t] = "dropped"]
          /\ server' = server
    /\ UNCHANGED <<chan, sub, permit, hand, pub, inbox, sent>>
    /\ UNCHANGED connVars /\ UNCHANGED wireVars

-----------------------------------------------------------------------------
(* publish_once                                                            *)

\* call_tool returns, with a result or an error: either way one OK frame.
PublishReply(p) ==
    /\ pub[p] = "calling"
    /\ pub' = [pub EXCEPT ![p] = "sending"]
    /\ UNCHANGED <<chan, task, sub, permit, hand>>
    /\ UNCHANGED connVars /\ UNCHANGED wireVars /\ UNCHANGED serverVars

\* Wrong variant: the OK is sent only if the channel has room at once.
SendOk_tries(p) ==
    /\ pub[p] = "sending"
    /\ chan' = IF CanSend THEN Append(chan, OkFrame(p)) ELSE chan
    /\ pub' = [pub EXCEPT ![p] = "ended"]
    /\ UNCHANGED <<task, sub, permit, hand>>
    /\ UNCHANGED connVars /\ UNCHANGED wireVars /\ UNCHANGED serverVars

SendOk(p) ==
    /\ pub[p] = "sending"
    /\ \/ CanSend /\ chan' = Append(chan, OkFrame(p))
       \/ SendFails /\ chan' = chan
    /\ pub' = [pub EXCEPT ![p] = "ended"]
    /\ UNCHANGED <<task, sub, permit, hand>>
    /\ UNCHANGED connVars /\ UNCHANGED wireVars /\ UNCHANGED serverVars

-----------------------------------------------------------------------------
(* The environment.                                                        *)

\* The client closes the WebSocket, or it breaks.
Disconnect ==
    /\ socket = "open"
    /\ socket' = "closed"
    /\ UNCHANGED <<chan, writer, held, got, okd>>
    /\ UNCHANGED connVars /\ UNCHANGED taskVars /\ UNCHANGED serverVars

\* Every chunk that was sent, with its stream.
AllSent == {c \in Tasks \X (1..MaxChunks) : c[2] <= sent[c[1]]}

\* A stream that has a reader: what outlay sends for a task that has gone, or
\* that is cancelling, goes nowhere.
HasReader(t) == server[t] = "open" /\ task[t] \notin Gone \cup {"cancelling"}

\* outlay sends a chunk, ends the stream, or the transport fails it.
ServerChunk(t) ==
    /\ HasReader(t)
    /\ Cardinality(AllSent) < MaxChunks
    /\ sent' = [sent EXCEPT ![t] = @ + 1]
    /\ inbox' = [inbox EXCEPT ![t] = Append(@, sent[t] + 1)]
    /\ UNCHANGED <<chan, server>>
    /\ UNCHANGED connVars /\ UNCHANGED wireVars /\ UNCHANGED taskVars

ServerEnd(t) ==
    /\ HasReader(t)
    /\ server' = [server EXCEPT ![t] = "over"]
    /\ \E x \in {StreamEnd, StreamErr} :
            inbox' = [inbox EXCEPT ![t] = Append(@, x)]
    /\ UNCHANGED <<chan, sent>>
    /\ UNCHANGED connVars /\ UNCHANGED wireVars /\ UNCHANGED taskVars

-----------------------------------------------------------------------------

MainStep == Refuse \/ Accept \/ SendNotice \/ Cleanup \/ Join

ClientFrame ==
    \/ \E s \in SubIds : ReadReq(s) \/ ReadClose(s)
    \/ ReadEvent \/ ReadOther

WriterStep == WriterTake \/ WriterSent \/ WriterBreak \/ WriterEnd

\* What a subscribe task does by itself, and what it owes to an answer.
TaskRuns(t) ==
    \/ SetupRequest(t) \/ SetupCancelled(t)
    \/ TakeChunk(t) \/ TakeEnd(t) \/ SendChunk(t) \/ SendClosed(t)
    \/ StreamCancelled(t)

TaskAnswered(t) == SetupOk(t) \/ SetupErr(t) \/ CancelReturns(t)

TaskStep(t) == TaskRuns(t) \/ TaskAnswered(t)

PublishStep(p) == PublishReply(p) \/ SendOk(p)

Environment ==
    \/ Disconnect
    \/ \E t \in Tasks : ServerChunk(t) \/ ServerEnd(t)

Next ==
    \/ MainStep \/ ClientFrame \/ WriterStep
    \/ \E t \in Tasks : TaskStep(t)
    \/ \E p \in Pubs : PublishStep(p)
    \/ Environment

Spec == Init /\ [][Next]_vars

\* tokio runs what can run; a socket write finishes or fails.  Nothing is
\* promised of the client, nor of outlay: neither call_tool_stream nor
\* call_tool nor cancel has a timeout in the shim, and each may never return.
FairSpec ==
    /\ Spec
    /\ WF_vars(MainStep) /\ WF_vars(WriterStep)
    /\ \A t \in Tasks : WF_vars(TaskRuns(t))
    /\ \A p \in Pubs : WF_vars(SendOk(p))

-----------------------------------------------------------------------------
(* Properties.                                                             *)

\* conn.rs:80-95, 115-118.  A subscribe task that runs and was not told to
\* stop is the current entry of its sub_id, so CLOSE, a new REQ and the
\* cleanup can all reach it.
EveryTaskCancellable ==
    \A t \in Tasks :
        task[t] \notin Gone \cup {"unused"} /\ ~permit[t] =>
            main \in {"loop", "notice"} /\ subs[sub[t]] = t

\* Chunk n of t is at place k on its way to the client: unread (from 1 up), in
\* the hand of its task (0), in the channel (the last entry is -1), or in the
\* hand of the writer (beyond the first entry).
At(t, k, n) ==
    \/ k \in 1..Len(inbox[t]) /\ inbox[t][k] = n
    \/ k = 0 /\ hand[t] = Chunk(t, n)
    \/ -k \in 1..Len(chan) /\ chan[Len(chan) + 1 + k] = Chunk(t, n)
    \/ -k = Len(chan) + 1 /\ held = Chunk(t, n)

Way(t) == (-(Len(chan) + 1))..Len(inbox[t])

\* conn.rs:47-59, 157-163.  While a stream is up, a chunk that outlay sent and
\* the client has not got is on its way, at one place only, and the chunks on
\* their way are in the order in which they were sent, the next one first:
\* backpressure delays frames and never loses, repeats or reorders them.
NoChunkLost ==
    \A t \in Tasks :
        task[t] \in {"streaming", "sending"} /\ socket = "open" =>
            /\ \A n \in 1..MaxChunks :
                  n \in (got[t] + 1)..sent[t] <=> \E k \in Way(t) : At(t, k, n)
            /\ \A k, l \in Way(t), m, n \in 1..MaxChunks :
                  At(t, k, m) /\ At(t, l, n) => (k < l <=> m < n)

\* A task waits for outlay to answer its call_tool or its cancel; the writer,
\* and the connection with it, waits for the sender that the task holds.
Awaiting ==
    \/ \E p \in Pubs : pub[p] = "calling"
    \/ \E t \in Tasks : task[t] = "cancelling"

\* conn.rs:73-76, 112-120.  Once the client is gone the connection is wound
\* up, full channel or not: it ends, or its loop is over and a call to outlay
\* holds it up.  A closed socket stays closed, so a connection that does not
\* end is held up again and again; each call waits once, so in the end by one
\* that never returns.
ConnectionEnds ==
    socket = "closed" ~> (main = "done" \/ (main = "joining" /\ Awaiting))

\* conn.rs:80-100, 112-120.  A task that lost its sub_id, to a CLOSE, to a
\* new REQ or to the end of the connection, ends, or has the cancel of its
\* stream under way, even if it was blocked on a full channel or outlay never
\* answered its request: no orphan goes on reading.
ReplacedTaskEnds ==
    \A t \in Tasks :
        task[t] # "unused" /\ subs[sub[t]] # t ~> task[t] \in Gone \cup {"cancelling"}

\* conn.rs:197-208.  A publish that outlay answered, with a result or an
\* error, is answered by its OK unless the client left.
PublishAnswered ==
    \A p \in Pubs :
        pub[p] = "sending" ~> (socket = "closed" \/ p \in okd)

\* conn.rs:112-113 says of the cleanup that it cancels every subscribe with
\* "prompt reader-session teardown": an established stream whose task has
\* ended is not left open on outlay's side.
PromptTeardown == \A t \in Tasks : task[t] = "ended" => server[t] # "open"

=============================================================================
