--------------------------- MODULE ProxySubscribe ---------------------------
(***************************************************************************)
(* The `subscribe` tool of outlay: Proxy::subscribe in                     *)
(* crates/outlay/src/proxy.rs, entered through OutlayHandler::subscribe in *)
(* crates/outlay/src/handler.rs.                                           *)
(*                                                                         *)
(* Every tool call runs the same task: register a receiver on the SDK      *)
(* pool's broadcast channel, open an upstream subscription under a fresh   *)
(* id, pump the notifications that carry that id into the CEP-41 sink, and *)
(* unwind.  All calls share ONE upstream socket and ONE broadcast channel, *)
(* so each receiver also sees the traffic of every other call.             *)
(*                                                                         *)
(* External parts (modelled from how the code uses them): the upstream     *)
(* relay, the SDK pool, tokio's broadcast channel and the CEP-41 sink.     *)
(* An event is abstracted to the call whose filters it matches and to its  *)
(* position in what the relay sent for that call.                          *)
(***************************************************************************)
EXTENDS Naturals, Sequences, FiniteSets

CONSTANTS
    Calls,           \* subscribe tool calls
    SubNames,        \* subscription ids that clients pick; they may collide
    ClientSub,       \* the id the client of each call picked
    Ids,             \* upstream subscription ids
    None,            \* no id / no call
    RxCap,           \* capacity of the pool's broadcast channel
    MaxMsgs,         \* bound: relay messages per subscription
    MaxForeign,      \* bound: unrelated pool notifications
    EndlessTraffic   \* TRUE: unrelated notifications never stop

ASSUME ConstantsAssumption ==
    /\ ClientSub \in [Calls -> SubNames]
    /\ None \notin Calls /\ None \notin Ids
    /\ RxCap \in Nat \ {0}
    /\ MaxMsgs \in Nat
    /\ MaxForeign \in Nat
    /\ EndlessTraffic \in BOOLEAN

VARIABLES
    pc,        \* where each call's task stands
    upid,      \* its upstream_id
    rx,        \* notifications its receiver has not read
    lag,       \* its receiver will report Lagged at the next recv()
    sink,      \* its CEP-41 writer: "active", "aborted" or "closed"
    chunks,    \* what was written to its client
    owner,     \* upstream: the call whose filters run under an id
    emitted,   \* upstream: kinds of what the relay sent for a call (history)
    pool,      \* the SDK pool: "up" or, after its shutdown, "down"
    foreign,   \* unrelated notifications so far
    lost,      \* the receiver ever overflowed (history)
    werr       \* a write failed on a live sink (history)

vars == <<pc, upid, rx, lag, sink, chunks, owner, emitted, pool, foreign,
          lost, werr>>

RelayKinds == {"EVENT", "EOSE", "CLOSED"}

\* RelayPoolNotification: a relay message of some subscription, the pool's
\* own Shutdown, or anything else (OK, NOTICE, the deduplicated Event, ...).
Notifications ==
    [kind : RelayKinds \cup {"SHUTDOWN", "OTHER"}, sid : Ids \cup {None},
     call : Calls \cup {None}, n : Nat]

ShutdownNotification == [kind |-> "SHUTDOWN", sid |-> None, call |-> None, n |-> 0]
OtherNotification    == [kind |-> "OTHER", sid |-> None, call |-> None, n |-> 0]

\* A chunk carries the client's own subscription id.
Chunks ==
    [kind : RelayKinds, sub : SubNames, call : Calls \cup {None}, n : Nat]

PCs == {"idle", "registered", "subscribed", "streaming", "wrote",
        "unwinding", "closing", "done", "failed"}

TypeOK ==
    /\ pc \in [Calls -> PCs]
    /\ upid \in [Calls -> Ids \cup {None}]
    /\ rx \in [Calls -> Seq(Notifications)]
    /\ lag \in [Calls -> BOOLEAN]
    /\ sink \in [Calls -> {"active", "aborted", "closed"}]
    /\ chunks \in [Calls -> Seq(Chunks)]
    /\ owner \in [Ids -> Calls \cup {None}]
    /\ emitted \in [Calls -> Seq(RelayKinds)]
    /\ pool \in {"up", "down"}
    /\ foreign \in Nat
    /\ lost \in [Calls -> BOOLEAN]
    /\ werr \in [Calls -> BOOLEAN]

Init ==
    /\ pc = [c \in Calls |-> "idle"]
    /\ upid = [c \in Calls |-> None]
    /\ rx = [c \in Calls |-> <<>>]
    /\ lag = [c \in Calls |-> FALSE]
    /\ sink = [c \in Calls |-> "active"]
    /\ chunks = [c \in Calls |-> <<>>]
    /\ owner = [i \in Ids |-> None]
    /\ emitted = [c \in Calls |-> <<>>]
    /\ pool = "up"
    /\ foreign = 0
    /\ lost = [c \in Calls |-> FALSE]
    /\ werr = [c \in Calls |-> FALSE]

-----------------------------------------------------------------------------
(* The broadcast channel (external, tokio::sync::broadcast): each live     *)
(* receiver gets every notification; a full receiver loses its oldest and  *)
(* reports Lagged at its next recv().                                      *)

\* Wrong variant: the receiver is taken after subscribe_with_id returned.
Receivers_late ==
    {c \in Calls : pc[c] \in {"streaming", "wrote", "unwinding", "closing"}}

\* A call's receiver lives from before the subscribe to the end of the call.
Receivers ==
    {c \in Calls : pc[c] \in {"registered", "subscribed", "streaming", "wrote",
                              "unwinding", "closing"}}

Overflows(c) == c \in Receivers /\ Len(rx[c]) >= RxCap

Broadcast(m) ==
    /\ rx' = [c \in Calls |->
                IF c \notin Receivers THEN rx[c]
                ELSE IF Overflows(c) THEN Append(Tail(rx[c]), m)
                ELSE Append(rx[c], m)]
    /\ lag' = [c \in Calls |-> lag[c] \/ Overflows(c)]
    /\ lost' = [c \in Calls |-> lost[c] \/ Overflows(c)]

-----------------------------------------------------------------------------
(* map_notification: what a notification means to the call whose upstream  *)
(* id is `id`.                                                             *)

\* Wrong variant, for the mutation check: CLOSED does not end the stream.
Forward_closedContinues(m, id) ==
    CASE m.kind = "SHUTDOWN" -> "stop"
      [] m.kind \in RelayKinds /\ m.sid = id -> "continue"
      [] OTHER -> "none"

\* Wrong variant: Shutdown falls into the catch-all arm.
Forward_ignoresShutdown(m, id) ==
    CASE m.kind \in {"EVENT", "EOSE"} /\ m.sid = id -> "continue"
      [] m.kind = "CLOSED" /\ m.sid = id -> "stop"
      [] OTHER -> "none"

\* Wrong variant: the stream ends when the stored events have been sent.
Forward_stopsAtEose(m, id) ==
    CASE m.kind = "SHUTDOWN" -> "stop"
      [] m.kind = "EVENT" /\ m.sid = id -> "continue"
      [] m.kind \in {"EOSE", "CLOSED"} /\ m.sid = id -> "stop"
      [] OTHER -> "none"

Forward(m, id) ==
    CASE m.kind = "SHUTDOWN" -> "stop"
      [] m.kind \in {"EVENT", "EOSE"} /\ m.sid = id -> "continue"
      [] m.kind = "CLOSED" /\ m.sid = id -> "stop"
      [] OTHER -> "none"

\* Wrong variant: a pool shutdown is not turned into a NIP-01 message.
ChunkOf_rawShutdown(m, c) ==
    [kind |-> m.kind, sub |-> ClientSub[c], call |-> m.call, n |-> m.n]

\* The chunk written for a forwarded notification: the client's bare id
\* replaces the upstream id; a pool shutdown is told as a CLOSED.
ChunkOf(m, c) ==
    [kind |-> IF m.kind = "SHUTDOWN" THEN "CLOSED" ELSE m.kind,
     sub |-> ClientSub[c], call |-> m.call, n |-> m.n]

-----------------------------------------------------------------------------
(* The call's task.                                                        *)

\* Missing stream writer, unparsable filters or no filters at all: the tool
\* call fails before it touches the pool.
Reject(c) ==
    /\ pc[c] = "idle"
    /\ pc' = [pc EXCEPT ![c] = "failed"]
    /\ UNCHANGED <<upid, rx, lag, sink, chunks, owner, emitted, pool, foreign,
                   lost, werr>>

\* SubscriptionId::generate(): an id no other call has drawn.
\* Wrong variant: ids are not unique (say, the client's own sub id is reused).
FreshIds_shared == Ids

FreshIds == Ids \ {upid[c] : c \in Calls}

\* Draw the id and take the broadcast receiver; nothing awaits in between.
Invoke(c, id) ==
    /\ pc[c] = "idle"
    /\ id \in FreshIds
    /\ upid' = [upid EXCEPT ![c] = id]
    /\ pc' = [pc EXCEPT ![c] = "registered"]
    /\ UNCHANGED <<rx, lag, sink, chunks, owner, emitted, pool, foreign, lost,
                   werr>>

\* subscribe_with_id succeeded: the relay now runs this call's filters.
SubscribeOk(c) ==
    /\ pc[c] = "registered"
    /\ pool = "up"
    /\ owner' = [owner EXCEPT ![upid[c]] = c]
    /\ pc' = [pc EXCEPT ![c] = "subscribed"]
    /\ UNCHANGED <<upid, rx, lag, sink, chunks, emitted, pool, foreign, lost,
                   werr>>

\* subscribe_with_id failed: the error is returned and the receiver dropped.
SubscribeErr(c) ==
    /\ pc[c] = "registered"
    /\ pc' = [pc EXCEPT ![c] = "failed"]
    /\ rx' = [rx EXCEPT ![c] = <<>>]
    /\ lag' = [lag EXCEPT ![c] = FALSE]
    /\ UNCHANGED <<upid, sink, chunks, owner, emitted, pool, foreign, lost,
                   werr>>

\* sink.start(); its result is ignored.
StartSink(c) ==
    /\ pc[c] = "subscribed"
    /\ pc' = [pc EXCEPT ![c] = "streaming"]
    /\ UNCHANGED <<upid, rx, lag, sink, chunks, owner, emitted, pool, foreign,
                   lost, werr>>

\* Wrong variant: on Lagged the REQ is sent again and the relay replays.
RecvLagged_resubscribes(c) ==
    /\ pc[c] = "streaming"
    /\ lag[c]
    /\ lag' = [lag EXCEPT ![c] = FALSE]
    /\ rx' = [rx EXCEPT ![c] =
                [n \in DOMAIN emitted[c] |->
                    [kind |-> emitted[c][n], sid |-> upid[c], call |-> c, n |-> n]]]
    /\ UNCHANGED <<pc, upid, sink, chunks, owner, emitted, pool, foreign,
                   lost, werr>>

\* recv() reports Lagged: `continue`.
RecvLagged(c) ==
    /\ pc[c] = "streaming"
    /\ lag[c]
    /\ lag' = [lag EXCEPT ![c] = FALSE]
    /\ UNCHANGED <<pc, upid, rx, sink, chunks, owner, emitted, pool, foreign,
                   lost, werr>>

\* recv() is ready with a notification.  It never reports Closed here: the
\* call borrows the proxy, whose pool owns the channel's sender.
Ready(c) == pc[c] = "streaming" /\ ~lag[c] /\ rx[c] # <<>>

\* A notification that is not ours.
RecvOther(c) ==
    /\ Ready(c)
    /\ Forward(Head(rx[c]), upid[c]) = "none"
    /\ rx' = [rx EXCEPT ![c] = Tail(rx[c])]
    /\ UNCHANGED <<pc, upid, lag, sink, chunks, owner, emitted, pool, foreign,
                   lost, werr>>

\* A notification of ours goes to the sink.  The write reaches the client
\* only on an active sink, and may fail even there.  A Stop leaves the loop
\* whatever the write says; a failed Continue leaves it too; a successful
\* Continue still has to look at is_active() (AfterWrite).
RecvOurs(c) ==
    /\ Ready(c)
    /\ LET m == Head(rx[c])
           f == Forward(m, upid[c])
       IN /\ f # "none"
          /\ \E ok \in BOOLEAN :
                /\ ok => sink[c] = "active"
                /\ chunks' = IF ok THEN [chunks EXCEPT ![c] = Append(@, ChunkOf(m, c))]
                                   ELSE chunks
                /\ werr' = [werr EXCEPT ![c] = @ \/ (~ok /\ sink[c] = "active")]
                /\ pc' = [pc EXCEPT ![c] = IF ok /\ f = "continue" THEN "wrote"
                                                                  ELSE "unwinding"]
    /\ rx' = [rx EXCEPT ![c] = Tail(rx[c])]
    /\ UNCHANGED <<upid, lag, sink, owner, emitted, pool, foreign, lost>>

\* StreamWriter::write returns `ok && is_active()`: the sink may have died
\* while the write was awaited.
AfterWrite(c) ==
    /\ pc[c] = "wrote"
    /\ pc' = [pc EXCEPT ![c] = IF sink[c] = "active" THEN "streaming" ELSE "unwinding"]
    /\ UNCHANGED <<upid, rx, lag, sink, chunks, owner, emitted, pool, foreign,
                   lost, werr>>

\* Wrong variant: the timer branch returns instead of breaking the loop.
PollInactive_returns(c) ==
    /\ pc[c] = "streaming"
    /\ ~lag[c] /\ rx[c] = <<>>
    /\ sink[c] # "active"
    /\ pc' = [pc EXCEPT ![c] = "done"]
    /\ rx' = [rx EXCEPT ![c] = <<>>]
    /\ UNCHANGED <<upid, lag, sink, chunks, owner, emitted, pool, foreign,
                   lost, werr>>

\* Wrong variant: no timer branch.
PollInactive_never(c) == FALSE

\* The SINK_ACTIVE_POLL timer.  `select!` makes a new sleep on every turn of
\* the loop, so it expires only after a second in which recv() had nothing;
\* an active sink just goes round the loop again.
PollInactive(c) ==
    /\ pc[c] = "streaming"
    /\ ~lag[c] /\ rx[c] = <<>>
    /\ sink[c] # "active"
    /\ pc' = [pc EXCEPT ![c] = "unwinding"]
    /\ UNCHANGED <<upid, rx, lag, sink, chunks, owner, emitted, pool, foreign,
                   lost, werr>>

\* client.unsubscribe(&upstream_id)
Unsubscribe(c) ==
    /\ pc[c] = "unwinding"
    /\ owner' = [owner EXCEPT ![upid[c]] = None]
    /\ pc' = [pc EXCEPT ![c] = "closing"]
    /\ UNCHANGED <<upid, rx, lag, sink, chunks, emitted, pool, foreign, lost,
                   werr>>

\* Close the stream if the client still has it, return Ok, drop the receiver.
CloseSink(c) ==
    /\ pc[c] = "closing"
    /\ sink' = [sink EXCEPT ![c] = IF @ = "active" THEN "closed" ELSE @]
    /\ pc' = [pc EXCEPT ![c] = "done"]
    /\ rx' = [rx EXCEPT ![c] = <<>>]
    /\ lag' = [lag EXCEPT ![c] = FALSE]
    /\ UNCHANGED <<upid, chunks, owner, emitted, pool, foreign, lost, werr>>

-----------------------------------------------------------------------------
(* The environment.                                                        *)

\* The client aborts the CEP-41 stream, or its keepalive probe expires.
Abort(c) ==
    /\ pc[c] \notin {"idle", "done", "failed"}
    /\ sink[c] = "active"
    /\ sink' = [sink EXCEPT ![c] = "aborted"]
    /\ UNCHANGED <<pc, upid, rx, lag, chunks, owner, emitted, pool, foreign,
                   lost, werr>>

\* The relay sends a message for a subscription it runs: any EVENT, at most
\* one EOSE, and a CLOSED that ends the subscription.
Emit(id, k) ==
    LET c == owner[id]
        m == [kind |-> k, sid |-> id, call |-> c, n |-> Len(emitted[c]) + 1]
    IN /\ pool = "up"
       /\ c # None
       /\ Len(emitted[c]) < MaxMsgs
       /\ k = "EOSE" => \A i \in DOMAIN emitted[c] : emitted[c][i] # "EOSE"
       /\ emitted' = [emitted EXCEPT ![c] = Append(@, k)]
       /\ Broadcast(m)
       /\ owner' = IF k = "CLOSED" THEN [owner EXCEPT ![id] = None] ELSE owner
       /\ UNCHANGED <<pc, upid, sink, chunks, pool, foreign, werr>>

\* Any other pool notification: OK, NOTICE, relay status, ...  Traffic that
\* never ends is slow enough for every receiver to keep up with it.
ForeignTraffic ==
    /\ pool = "up"
    /\ IF EndlessTraffic THEN \A c \in Calls : ~Overflows(c)
                         ELSE foreign < MaxForeign
    /\ foreign' = IF EndlessTraffic THEN foreign ELSE foreign + 1
    /\ Broadcast(OtherNotification)
    /\ UNCHANGED <<pc, upid, sink, chunks, owner, emitted, pool, werr>>

\* The pool shuts down: its receivers are told and its socket is closed.
PoolShutdown ==
    /\ pool = "up"
    /\ pool' = "down"
    /\ owner' = [i \in Ids |-> None]
    /\ Broadcast(ShutdownNotification)
    /\ UNCHANGED <<pc, upid, sink, chunks, emitted, foreign, werr>>

-----------------------------------------------------------------------------

\* A step of the call's own task.
TaskStep(c) ==
    \/ SubscribeOk(c) \/ SubscribeErr(c) \/ StartSink(c)
    \/ RecvLagged(c) \/ RecvOther(c) \/ RecvOurs(c) \/ AfterWrite(c)
    \/ PollInactive(c) \/ Unsubscribe(c) \/ CloseSink(c)

Environment ==
    \/ \E c \in Calls : Abort(c)
    \/ \E id \in Ids, k \in RelayKinds : Emit(id, k)
    \/ ForeignTraffic
    \/ PoolShutdown

Next ==
    \/ \E c \in Calls : Reject(c) \/ (\E id \in Ids : Invoke(c, id)) \/ TaskStep(c)
    \/ Environment

Spec == Init /\ [][Next]_vars

\* tokio runs every task that can run; nothing is promised of clients, of
\* the relay, or of the traffic on the pool.
FairSpec == Spec /\ \A c \in Calls : WF_vars(TaskStep(c))

-----------------------------------------------------------------------------
(* Properties.                                                             *)

Ended == {"done", "failed"}

Terminal(ch) == ch.kind = "CLOSED"

LastIsTerminal(c) == chunks[c] # <<>> /\ Terminal(chunks[c][Len(chunks[c])])

\* proxy.rs:244-250.  A client never sees a message that the relay sent for
\* another call's filters, even when both picked the same subscription id.
Isolation ==
    \A c \in Calls : \A i \in DOMAIN chunks[c] : chunks[c][i].call \in {c, None}

\* proxy.rs:266-290.  Chunks keep the relay's order and nothing is written
\* twice, whatever the receiver lost in between.
InOrder ==
    \A c \in Calls : \A i, j \in DOMAIN chunks[c] :
        i < j /\ chunks[c][j].call = c => chunks[c][i].n < chunks[c][j].n

\* Message n of the relay is in a sequence of chunks or notifications.
Holds(q, c, n) == \E i \in DOMAIN q : q[i].call = c /\ q[i].n = n

\* proxy.rs:252-254.  While a stream is up, everything the relay sent for it
\* has reached the client or waits in its receiver, unless the receiver
\* overflowed: the first EVENT cannot be missed.
NoSilentGap ==
    \A c \in Calls :
        pc[c] \in {"subscribed", "streaming", "wrote"} /\ ~lost[c] =>
            \A n \in 1..Len(emitted[c]) : Holds(chunks[c], c, n) \/ Holds(rx[c], c, n)

\* proxy.rs:273-276.  A CLOSED is the last chunk of its stream: the call
\* is on its way out when it is written.
ClosedIsLast ==
    \A c \in Calls : \A i \in DOMAIN chunks[c] :
        Terminal(chunks[c][i]) =>
            i = Len(chunks[c]) /\ pc[c] \in {"unwinding", "closing", "done"}

\* proxy.rs:292-294.  An upstream subscription always has a task that will
\* unwind it: no exit from the loop leaves one behind.
NoOrphanSubscription ==
    \A id \in Ids : owner[id] # None =>
        /\ upid[owner[id]] = id
        /\ pc[owner[id]] \in {"subscribed", "streaming", "wrote", "unwinding"}

\* proxy.rs:98-103, 275-279, 292-297.  A stream that outlay itself ends, with
\* no write error, has told the client CLOSED first, whatever was lost.
ClientToldWhy ==
    \A c \in Calls : sink[c] = "closed" /\ ~werr[c] => LastIsTerminal(c)

\* proxy.rs:232-299.  The tool implements PrivateStreams: fresh ids, one
\* shared socket and lossy buffers look to each client like an upstream of
\* its own.  A stream is over once its task has left the loop.
StreamState ==
    [c \in Calls |-> IF pc[c] \in {"unwinding", "closing", "done", "failed"}
                     THEN "over" ELSE "open"]

Streams ==
    INSTANCE PrivateStreams WITH sent <- emitted, got <- chunks, state <- StreamState

StreamsSpec == Streams!Spec

\* proxy.rs:22-25, 284-288.  A client that aborts does not leave an upstream
\* subscription open forever.
AbortUnwinds == \A c \in Calls : sink[c] = "aborted" ~> pc[c] \in Ended

\* proxy.rs:229-231.  When the relay closes the subscription, the call ends.
UpstreamClosedEnds ==
    \A c \in Calls :
        (\E i \in DOMAIN emitted[c] : emitted[c][i] = "CLOSED") ~> pc[c] \in Ended

\* proxy.rs:98-103, 292-293.  When the pool dies, every call in flight ends.
PoolShutdownEnds ==
    \A c \in Calls :
        pool = "down" /\ pc[c] \notin Ended \cup {"idle"} ~> pc[c] \in Ended

-----------------------------------------------------------------------------
(* The inductive strengthening of the safety properties.                   *)

\* An id belongs to one call, from the moment the call draws it.
IdsUnique ==
    /\ \A c \in Calls : pc[c] = "idle" => upid[c] = None
    /\ \A c \in Calls : pc[c] \notin {"idle", "failed"} => upid[c] \in Ids
    /\ \A c, d \in Calls : upid[c] = upid[d] /\ upid[c] # None => c = d

\* A buffered relay message is one the relay sent, under its call's id.
MessageOwned(m) ==
    IF m.sid = None THEN m.kind \notin RelayKinds /\ m.call = None /\ m.n = 0
    ELSE /\ m.kind \in RelayKinds
         /\ m.call \in Calls
         /\ upid[m.call] = m.sid
         /\ m.n \in 1..Len(emitted[m.call])
         /\ m.kind = emitted[m.call][m.n]

BuffersOwned == \A c \in Calls : \A i \in DOMAIN rx[c] : MessageOwned(rx[c][i])

\* The relay sends nothing for a call that has not subscribed, and nothing
\* after its CLOSED.
RelayOrderly ==
    /\ \A c \in Calls : pc[c] \in {"idle", "registered"} => emitted[c] = <<>>
    /\ \A id \in Ids : owner[id] # None =>
            \A i \in DOMAIN emitted[owner[id]] : emitted[owner[id]][i] # "CLOSED"

\* Written chunks precede buffered messages, which are in sending order.
BuffersInOrder ==
    \A c \in Calls :
        /\ \A i \in DOMAIN chunks[c] : chunks[c][i].n <= Len(emitted[c])
        /\ \A i \in DOMAIN chunks[c], j \in DOMAIN rx[c] :
                rx[c][j].call = c => chunks[c][i].n < rx[c][j].n
        /\ \A i, j \in DOMAIN rx[c] :
                i < j /\ rx[c][i].call = c /\ rx[c][j].call = c => rx[c][i].n < rx[c][j].n

\* A call that leaves its loop with a live sink has written CLOSED; a call
\* still in its loop after the pool's shutdown has the notice in its buffer.
ShutdownPending ==
    \A c \in Calls : ~werr[c] =>
        /\ pc[c] \in {"unwinding", "closing"} /\ sink[c] = "active" => LastIsTerminal(c)
        /\ pc[c] \in {"subscribed", "streaming", "wrote"} /\ pool # "up" =>
              \E i \in DOMAIN rx[c] : rx[c][i].kind = "SHUTDOWN"

ClosedMeansDone == \A c \in Calls : sink[c] = "closed" => pc[c] = "done"

\* proxy.rs:232-299.  The inductive invariant from which the safety
\* properties of the subscribe tool follow.
SubscribeInv ==
    /\ IdsUnique
    /\ NoOrphanSubscription
    /\ BuffersOwned
    /\ RelayOrderly
    /\ Isolation
    /\ BuffersInOrder
    /\ InOrder
    /\ ClosedIsLast
    /\ ClosedMeansDone
    /\ ShutdownPending
    /\ ClientToldWhy
=============================================================================
