----------------------- MODULE ProxySubscribe_proofs -----------------------
(***************************************************************************)
(* TLAPS proofs about the subscribe tool, for any number of calls, any     *)
(* channel capacity and any amount of traffic.                             *)
(***************************************************************************)
EXTENDS ProxySubscribe, TLAPS

-----------------------------------------------------------------------------
(* Facts about the operators.                                              *)

\* map_notification yields one of three verdicts, "none" to a notification
\* that carries another id.
LEMMA ForwardRange ==
    ASSUME NEW m \in Notifications, NEW id \in Ids \cup {None}
    PROVE  /\ Forward(m, id) \in {"stop", "continue", "none"}
           /\ Forward(m, id) = "continue" =>
                m.kind \in {"EVENT", "EOSE"} /\ m.sid = id
           /\ Forward(m, id) = "stop" =>
                m.kind = "SHUTDOWN" \/ (m.kind = "CLOSED" /\ m.sid = id)
    BY DEF Forward, Notifications, RelayKinds

\* What a call forwards is a well-formed chunk.
LEMMA ChunkOfType ==
    ASSUME NEW m \in Notifications, NEW c \in Calls, NEW id \in Ids \cup {None},
           Forward(m, id) # "none"
    PROVE  ChunkOf(m, c) \in Chunks
  <1>1. m.kind \in RelayKinds \/ m.kind = "SHUTDOWN"
    BY ForwardRange DEF RelayKinds
  <1> QED
    BY <1>1, ConstantsAssumption DEF ChunkOf, Chunks, Notifications, RelayKinds

\* The pool's own notifications are well formed.
LEMMA NotificationTypes ==
    ShutdownNotification \in Notifications /\ OtherNotification \in Notifications
    BY DEF ShutdownNotification, OtherNotification, Notifications, RelayKinds

\* A broadcast keeps the receivers' buffers well typed.
LEMMA BroadcastType ==
    ASSUME TypeOK, NEW m \in Notifications, Broadcast(m)
    PROVE  /\ rx' \in [Calls -> Seq(Notifications)]
           /\ lag' \in [Calls -> BOOLEAN]
           /\ lost' \in [Calls -> BOOLEAN]
  <1>1. ASSUME NEW c \in Calls
        PROVE  rx'[c] \in Seq(Notifications)
    <2>1. rx[c] \in Seq(Notifications)
      BY DEF TypeOK
    <2>2. CASE c \notin Receivers
      BY <2>1, <2>2 DEF Broadcast
    <2>3. CASE c \in Receivers /\ ~Overflows(c)
      BY <2>1, <2>3 DEF Broadcast
    <2>4. CASE c \in Receivers /\ Overflows(c)
      <3>1. rx[c] # <<>>
        BY <2>1, <2>4, ConstantsAssumption DEF Overflows
      <3>2. Tail(rx[c]) \in Seq(Notifications)
        BY <2>1, <3>1
      <3> QED
        BY <2>4, <3>2 DEF Broadcast
    <2> QED
      BY <2>2, <2>3, <2>4
  <1>2. rx' \in [Calls -> Seq(Notifications)]
    BY <1>1 DEF Broadcast
  <1>3. lag' \in [Calls -> BOOLEAN] /\ lost' \in [Calls -> BOOLEAN]
    BY DEF Broadcast, TypeOK, Overflows
  <1> QED
    BY <1>2, <1>3

-----------------------------------------------------------------------------
(* Type correctness.                                                       *)

\* The initial state is well typed.
LEMMA TypeInit == Init => TypeOK
    BY ConstantsAssumption DEF Init, TypeOK, PCs

\* Every step of a call's task keeps the types.
LEMMA TypeTask ==
    ASSUME TypeOK, NEW c \in Calls,
           Reject(c) \/ (\E id \in Ids : Invoke(c, id)) \/ TaskStep(c)
    PROVE  TypeOK'
  <1> USE DEF PCs
  <1>1. CASE Reject(c)
    BY <1>1 DEF Reject, TypeOK
  <1>2. CASE \E id \in Ids : Invoke(c, id)
    BY <1>2 DEF Invoke, TypeOK
  <1>3. CASE SubscribeOk(c)
    BY <1>3 DEF SubscribeOk, TypeOK
  <1>4. CASE SubscribeErr(c)
    BY <1>4 DEF SubscribeErr, TypeOK
  <1>5. CASE StartSink(c)
    BY <1>5 DEF StartSink, TypeOK
  <1>6. CASE RecvLagged(c)
    BY <1>6 DEF RecvLagged, TypeOK
  <1>7. CASE RecvOther(c)
    BY <1>7 DEF RecvOther, Ready, TypeOK
  <1>8. CASE RecvOurs(c)
    <2> DEFINE m == Head(rx[c])
    <2>1. m \in Notifications /\ Tail(rx[c]) \in Seq(Notifications)
      BY <1>8 DEF RecvOurs, Ready, TypeOK
    <2>2. Forward(m, upid[c]) # "none" /\ upid[c] \in Ids \cup {None}
      BY <1>8 DEF RecvOurs, TypeOK
    <2>3. ChunkOf(m, c) \in Chunks
      BY <2>1, <2>2, ChunkOfType
    <2>4. chunks' \in [Calls -> Seq(Chunks)]
      BY <1>8, <2>3 DEF RecvOurs, TypeOK
    <2>5. pc' \in [Calls -> PCs]
      BY <1>8 DEF RecvOurs, TypeOK
    <2>6. werr' \in [Calls -> BOOLEAN]
      BY <1>8 DEF RecvOurs, TypeOK
    <2> QED
      BY <1>8, <2>1, <2>4, <2>5, <2>6 DEF RecvOurs, TypeOK
  <1>9. CASE AfterWrite(c)
    BY <1>9 DEF AfterWrite, TypeOK
  <1>10. CASE PollInactive(c)
    BY <1>10 DEF PollInactive, TypeOK
  <1>11. CASE Unsubscribe(c)
    BY <1>11 DEF Unsubscribe, TypeOK
  <1>12. CASE CloseSink(c)
    BY <1>12 DEF CloseSink, TypeOK
  <1> QED
    BY <1>1, <1>2, <1>3, <1>4, <1>5, <1>6, <1>7, <1>8, <1>9, <1>10, <1>11,
       <1>12 DEF TaskStep

\* What the relay says about a subscription is a well-formed notification.
LEMMA EmitMessage ==
    ASSUME TypeOK, NEW id \in Ids, NEW k \in RelayKinds, Emit(id, k)
    PROVE  /\ owner[id] \in Calls
           /\ [kind |-> k, sid |-> id, call |-> owner[id],
               n |-> Len(emitted[owner[id]]) + 1] \in Notifications
    BY DEF Emit, TypeOK, Notifications

\* Every step of the environment keeps the types.
LEMMA TypeEnvironment ==
    ASSUME TypeOK, Environment
    PROVE  TypeOK'
  <1>1. CASE \E c \in Calls : Abort(c)
    BY <1>1 DEF Abort, TypeOK
  <1>2. ASSUME NEW id \in Ids, NEW k \in RelayKinds, Emit(id, k)
        PROVE  TypeOK'
    <2> DEFINE m == [kind |-> k, sid |-> id, call |-> owner[id],
                     n |-> Len(emitted[owner[id]]) + 1]
    <2>1. owner[id] \in Calls /\ m \in Notifications
      BY <1>2, EmitMessage
    <2>2. Broadcast(m)
      BY <1>2 DEF Emit
    <2>3. /\ rx' \in [Calls -> Seq(Notifications)]
          /\ lag' \in [Calls -> BOOLEAN]
          /\ lost' \in [Calls -> BOOLEAN]
      BY <2>1, <2>2, BroadcastType
    <2>4. emitted' = [emitted EXCEPT ![owner[id]] = Append(@, k)]
      BY <1>2 DEF Emit
    <2>5. emitted' \in [Calls -> Seq(RelayKinds)]
      BY <2>1, <2>4 DEF TypeOK
    <2>6. owner' \in [Ids -> Calls \cup {None}]
      BY <1>2 DEF Emit, TypeOK
    <2> QED
      BY <1>2, <2>3, <2>5, <2>6 DEF Emit, TypeOK
  <1>3. CASE ForeignTraffic
    <2>1. /\ rx' \in [Calls -> Seq(Notifications)]
          /\ lag' \in [Calls -> BOOLEAN]
          /\ lost' \in [Calls -> BOOLEAN]
      BY <1>3, NotificationTypes, BroadcastType DEF ForeignTraffic
    <2> QED
      BY <1>3, <2>1 DEF ForeignTraffic, TypeOK
  <1>4. CASE PoolShutdown
    <2>1. /\ rx' \in [Calls -> Seq(Notifications)]
          /\ lag' \in [Calls -> BOOLEAN]
          /\ lost' \in [Calls -> BOOLEAN]
      BY <1>4, NotificationTypes, BroadcastType DEF PoolShutdown
    <2> QED
      BY <1>4, <2>1 DEF PoolShutdown, TypeOK
  <1> QED
    BY <1>1, <1>2, <1>3, <1>4 DEF Environment

\* Every reachable state of the subscribe tool is well typed.
THEOREM TypeCorrect == Spec => []TypeOK
  <1>1. TypeOK /\ [Next]_vars => TypeOK'
    <2> SUFFICES ASSUME TypeOK, [Next]_vars PROVE TypeOK'
      OBVIOUS
    <2>1. CASE Next
      BY <2>1, TypeTask, TypeEnvironment DEF Next
    <2>2. CASE UNCHANGED vars
      BY <2>2 DEF vars, TypeOK
    <2> QED
      BY <2>1, <2>2
  <1> QED
    BY <1>1, TypeInit, PTL DEF Spec

-----------------------------------------------------------------------------
(* The inductive invariant.                                                *)

\* What a broadcast does to one buffer: nothing to a call that has no
\* receiver; otherwise it drops the oldest k (0 or 1) and appends m.
LEMMA BroadcastBuffer ==
    ASSUME TypeOK, NEW m \in Notifications, Broadcast(m), NEW c \in Calls
    PROVE  \/ rx'[c] = rx[c] /\ c \notin Receivers
           \/ /\ c \in Receivers
              /\ \E k \in {0, 1} :
                   /\ k = 1 => Overflows(c)
                   /\ k <= Len(rx[c])
                   /\ Len(rx'[c]) = Len(rx[c]) + 1 - k
                   /\ rx'[c][Len(rx'[c])] = m
                   /\ \A i \in 1..(Len(rx[c]) - k) : rx'[c][i] = rx[c][i + k]
  <1>1. rx[c] \in Seq(Notifications)
    BY DEF TypeOK
  <1>2. CASE c \notin Receivers
    BY <1>2 DEF Broadcast
  <1>3. CASE c \in Receivers /\ ~Overflows(c)
    <2>1. rx'[c] = Append(rx[c], m)
      BY <1>3 DEF Broadcast
    <2>2. /\ 0 <= Len(rx[c])
          /\ Len(rx'[c]) = Len(rx[c]) + 1 - 0
          /\ rx'[c][Len(rx'[c])] = m
          /\ \A i \in 1..(Len(rx[c]) - 0) : rx'[c][i] = rx[c][i + 0]
      BY <1>1, <2>1
    <2> QED
      BY <1>3, <2>2
  <1>4. CASE c \in Receivers /\ Overflows(c)
    <2>1. rx'[c] = Append(Tail(rx[c]), m)
      BY <1>4 DEF Broadcast
    <2>2. rx[c] # <<>> /\ Len(rx[c]) >= 1
      BY <1>1, <1>4, ConstantsAssumption DEF Overflows
    <2>3. /\ 1 <= Len(rx[c])
          /\ Len(rx'[c]) = Len(rx[c]) + 1 - 1
          /\ rx'[c][Len(rx'[c])] = m
          /\ \A i \in 1..(Len(rx[c]) - 1) : rx'[c][i] = rx[c][i + 1]
      BY <1>1, <2>1, <2>2
    <2> QED
      BY <1>4, <2>3
  <1> QED
    BY <1>2, <1>3, <1>4

\* The initial state satisfies the inductive invariant.
LEMMA InvInit == Init => SubscribeInv
    BY ConstantsAssumption
    DEF Init, SubscribeInv, IdsUnique, NoOrphanSubscription, BuffersOwned,
        RelayOrderly, Isolation, BuffersInOrder, InOrder, ClosedIsLast, ClosedMeansDone,
        ShutdownPending, ClientToldWhy

\* Steps of a task that neither read a notification nor change what the
\* relay runs.
LEMMA InvQuietTask ==
    ASSUME TypeOK, SubscribeInv, NEW c \in Calls,
           \/ Reject(c) \/ SubscribeErr(c) \/ StartSink(c) \/ RecvLagged(c)
           \/ AfterWrite(c) \/ PollInactive(c) \/ CloseSink(c)
    PROVE  SubscribeInv'
  <1> USE ConstantsAssumption
      DEF TypeOK, SubscribeInv, IdsUnique, NoOrphanSubscription, BuffersOwned,
          MessageOwned, RelayOrderly, Isolation, BuffersInOrder, InOrder, ClosedIsLast,
          Terminal, LastIsTerminal, ClosedMeansDone, ShutdownPending, ClientToldWhy
  <1>1. CASE Reject(c)
    BY <1>1 DEF Reject
  <1>2. CASE SubscribeErr(c)
    BY <1>2 DEF SubscribeErr
  <1>3. CASE StartSink(c)
    BY <1>3 DEF StartSink
  <1>4. CASE RecvLagged(c)
    BY <1>4 DEF RecvLagged
  <1>5. CASE AfterWrite(c)
    BY <1>5 DEF AfterWrite
  <1>6. CASE PollInactive(c)
    <2>1. sink[c] # "active" /\ \A d \in Calls : d # c => pc'[d] = pc[d]
      BY <1>6 DEF PollInactive
    <2>2. ShutdownPending'
      <3> SUFFICES ASSUME NEW d \in Calls, ~werr'[d]
                   PROVE  /\ pc'[d] \in {"unwinding", "closing"} /\ sink'[d] = "active" =>
                                LastIsTerminal(d)'
                          /\ pc'[d] \in {"subscribed", "streaming", "wrote"} /\ pool' # "up" =>
                                \E i \in DOMAIN rx'[d] : rx'[d][i].kind = "SHUTDOWN"
        BY DEF ShutdownPending
      <3>1. CASE d = c
        BY <1>6, <2>1, <3>1 DEF PollInactive
      <3>2. CASE d # c
        BY <1>6, <2>1, <3>2 DEF PollInactive
      <3> QED
        BY <3>1, <3>2
    <2>3. IdsUnique' /\ NoOrphanSubscription' /\ BuffersOwned' /\ RelayOrderly'
      BY <1>6, <2>1 DEF PollInactive
    <2>4. /\ Isolation' /\ BuffersInOrder' /\ InOrder' /\ ClosedIsLast'
          /\ ClosedMeansDone' /\ ClientToldWhy'
      BY <1>6, <2>1 DEF PollInactive
    <2> QED
      BY <2>2, <2>3, <2>4
  <1>7. CASE CloseSink(c)
    BY <1>7 DEF CloseSink
  <1> QED
    BY <1>1, <1>2, <1>3, <1>4, <1>5, <1>6, <1>7

\* Drawing an id, opening and closing the upstream subscription.
LEMMA InvOpenClose ==
    ASSUME TypeOK, SubscribeInv, NEW c \in Calls,
           (\E id \in Ids : Invoke(c, id)) \/ SubscribeOk(c) \/ Unsubscribe(c)
    PROVE  SubscribeInv'
  <1> USE ConstantsAssumption
      DEF TypeOK, SubscribeInv, IdsUnique, NoOrphanSubscription, BuffersOwned,
          MessageOwned, RelayOrderly, Isolation, BuffersInOrder, InOrder, ClosedIsLast,
          Terminal, LastIsTerminal, ClosedMeansDone, ShutdownPending, ClientToldWhy
  <1>1. CASE \E id \in Ids : Invoke(c, id)
    <2>1. PICK id \in Ids : Invoke(c, id)
      BY <1>1
    <2>2. /\ upid[c] = None
          /\ \A d \in Calls : upid[d] # id
          /\ upid' = [upid EXCEPT ![c] = id]
          /\ pc' = [pc EXCEPT ![c] = "registered"]
          /\ UNCHANGED <<rx, lag, sink, chunks, owner, emitted, pool, foreign, lost, werr>>
      BY <2>1 DEF Invoke, FreshIds
    <2>3. IdsUnique'
      BY <2>2
    <2>4. BuffersOwned'
      BY <2>2
    <2>5. NoOrphanSubscription' /\ RelayOrderly'
      BY <2>1, <2>2 DEF Invoke
    <2>6. Isolation' /\ BuffersInOrder' /\ InOrder'
      BY <2>2
    <2>7. ClosedIsLast' /\ ClosedMeansDone'
      BY <2>1, <2>2 DEF Invoke
    <2>8. ShutdownPending' /\ ClientToldWhy'
      BY <2>2
    <2> QED
      BY <2>3, <2>4, <2>5, <2>6, <2>7, <2>8
  <1>2. CASE SubscribeOk(c)
    BY <1>2 DEF SubscribeOk
  <1>3. CASE Unsubscribe(c)
    BY <1>3 DEF Unsubscribe
  <1> QED
    BY <1>1, <1>2, <1>3

\* A non-empty sequence without its head.
LEMMA TailFacts ==
    ASSUME NEW S, NEW q \in Seq(S), q # <<>>
    PROVE  /\ 1 \in DOMAIN q /\ Head(q) = q[1] /\ Head(q) \in S
           /\ \A i \in DOMAIN Tail(q) :
                i \in Nat /\ i + 1 \in DOMAIN q /\ Tail(q)[i] = q[i + 1]
           /\ \A i \in DOMAIN q :
                i # 1 => i - 1 \in DOMAIN Tail(q) /\ Tail(q)[i - 1] = q[i]
  <1>1. Len(q) \in Nat /\ Len(q) > 0 /\ DOMAIN q = 1..Len(q)
    OBVIOUS
  <1>2. Tail(q) \in Seq(S) /\ Len(Tail(q)) = Len(q) - 1
    BY <1>1
  <1>3. DOMAIN Tail(q) = 1..(Len(q) - 1)
    BY <1>1, <1>2
  <1>4. \A i \in 1..(Len(q) - 1) : Tail(q)[i] = q[i + 1]
    BY <1>1
  <1>5. Head(q) = q[1] /\ q[1] \in S
    BY <1>1
  <1>6. ASSUME NEW i \in DOMAIN q, i # 1
        PROVE  i - 1 \in DOMAIN Tail(q) /\ Tail(q)[i - 1] = q[i]
    <2>1. i - 1 \in 1..(Len(q) - 1) /\ (i - 1) + 1 = i
      BY <1>1, <1>6
    <2> QED
      BY <1>3, <1>4, <2>1
  <1> QED
    BY <1>1, <1>3, <1>4, <1>5, <1>6

\* Reading a notification: the buffer loses its head.
LEMMA TailBuffer ==
    ASSUME TypeOK, NEW c \in Calls, Ready(c), rx' = [rx EXCEPT ![c] = Tail(rx[c])]
    PROVE  /\ 1 \in DOMAIN rx[c] /\ Head(rx[c]) = rx[c][1]
           /\ Head(rx[c]) \in Notifications
           /\ \A d \in Calls \ {c} : rx'[d] = rx[d]
           /\ \A i \in DOMAIN rx'[c] :
                i \in Nat /\ i + 1 \in DOMAIN rx[c] /\ rx'[c][i] = rx[c][i + 1]
           /\ \A i \in DOMAIN rx[c] :
                i # 1 => i - 1 \in DOMAIN rx'[c] /\ rx'[c][i - 1] = rx[c][i]
  <1>1. rx[c] \in Seq(Notifications) /\ rx[c] # <<>>
    BY DEF Ready, TypeOK
  <1>2. rx'[c] = Tail(rx[c]) /\ \A d \in Calls \ {c} : rx'[d] = rx[d]
    BY DEF TypeOK
  <1>3. /\ 1 \in DOMAIN rx[c] /\ Head(rx[c]) = rx[c][1] /\ Head(rx[c]) \in Notifications
        /\ \A i \in DOMAIN Tail(rx[c]) :
                i \in Nat /\ i + 1 \in DOMAIN rx[c] /\ Tail(rx[c])[i] = rx[c][i + 1]
        /\ \A i \in DOMAIN rx[c] :
                i # 1 => i - 1 \in DOMAIN Tail(rx[c]) /\ Tail(rx[c])[i - 1] = rx[c][i]
    BY <1>1, TailFacts
  <1> QED
    BY <1>2, <1>3, Zenon

\* The messages left in the reader's buffer stay in order.
LEMMA TailInOrder ==
    ASSUME TypeOK, SubscribeInv, NEW c \in Calls, Ready(c),
           rx' = [rx EXCEPT ![c] = Tail(rx[c])]
    PROVE  \A d \in Calls : \A i, j \in DOMAIN rx'[d] :
                i < j /\ rx'[d][i].call = d /\ rx'[d][j].call = d => rx'[d][i].n < rx'[d][j].n
  <1> SUFFICES ASSUME NEW d \in Calls, NEW i \in DOMAIN rx'[d], NEW j \in DOMAIN rx'[d],
                      i < j, rx'[d][i].call = d, rx'[d][j].call = d
               PROVE  rx'[d][i].n < rx'[d][j].n
    OBVIOUS
  <1>1. CASE d # c
    BY <1>1, TailBuffer DEF SubscribeInv, BuffersInOrder
  <1>2. CASE d = c
    <2>1. /\ i \in Nat /\ i + 1 \in DOMAIN rx[c] /\ rx'[c][i] = rx[c][i + 1]
          /\ j \in Nat /\ j + 1 \in DOMAIN rx[c] /\ rx'[c][j] = rx[c][j + 1]
      BY <1>2, TailBuffer
    <2>2. i + 1 < j + 1
      BY <2>1
    <2>3. rx[c][i + 1].n < rx[c][j + 1].n
      BY <1>2, <2>1, <2>2 DEF SubscribeInv, BuffersInOrder
    <2> QED
      BY <1>2, <2>1, <2>3
  <1> QED
    BY <1>1, <1>2

\* Skipping a notification of another call.
LEMMA InvRecvOther ==
    ASSUME TypeOK, SubscribeInv, NEW c \in Calls, RecvOther(c)
    PROVE  SubscribeInv'
  <1>1. Ready(c) /\ rx' = [rx EXCEPT ![c] = Tail(rx[c])]
    BY DEF RecvOther
  <1>2. /\ 1 \in DOMAIN rx[c] /\ Head(rx[c]) = rx[c][1]
        /\ Head(rx[c]) \in Notifications
        /\ \A d \in Calls \ {c} : rx'[d] = rx[d]
        /\ \A i \in DOMAIN rx'[c] :
                i \in Nat /\ i + 1 \in DOMAIN rx[c] /\ rx'[c][i] = rx[c][i + 1]
        /\ \A i \in DOMAIN rx[c] :
                i # 1 => i - 1 \in DOMAIN rx'[c] /\ rx'[c][i - 1] = rx[c][i]
    BY <1>1, TailBuffer
  <1>3. rx[c][1].kind # "SHUTDOWN"
    BY <1>2 DEF RecvOther, Forward
  <1>4. UNCHANGED <<pc, upid, lag, sink, chunks, owner, emitted, pool, foreign, lost, werr>>
    BY DEF RecvOther
  <1>5. BuffersOwned'
    <2> SUFFICES ASSUME NEW d \in Calls, NEW i \in DOMAIN rx'[d]
                 PROVE  MessageOwned(rx[d][i])'
      BY DEF BuffersOwned
    <2>1. PICK j \in DOMAIN rx[d] : rx'[d][i] = rx[d][j]
      BY <1>2
    <2>2. MessageOwned(rx[d][j])
      BY DEF SubscribeInv, BuffersOwned
    <2> QED
      BY <1>4, <2>1, <2>2 DEF MessageOwned
  <1>6. BuffersInOrder'
    <2>1. \A d \in Calls : \A i \in DOMAIN chunks[d] : chunks[d][i].n <= Len(emitted[d])
      BY DEF SubscribeInv, BuffersInOrder
    <2>2. \A d \in Calls : \A i \in DOMAIN chunks[d], j \in DOMAIN rx'[d] :
                rx'[d][j].call = d => chunks[d][i].n < rx'[d][j].n
      BY <1>2 DEF SubscribeInv, BuffersInOrder
    <2>3. \A d \in Calls : \A i, j \in DOMAIN rx'[d] :
                i < j /\ rx'[d][i].call = d /\ rx'[d][j].call = d => rx'[d][i].n < rx'[d][j].n
      BY <1>1, TailInOrder
    <2> QED
      BY <1>4, <2>1, <2>2, <2>3 DEF BuffersInOrder
  <1>7. ShutdownPending'
    BY <1>2, <1>3, <1>4 DEF SubscribeInv, ShutdownPending, LastIsTerminal
  <1>8. /\ IdsUnique' /\ NoOrphanSubscription' /\ RelayOrderly' /\ Isolation' /\ InOrder'
        /\ ClosedIsLast' /\ ClosedMeansDone' /\ ClientToldWhy'
    BY <1>4 DEF SubscribeInv, IdsUnique, NoOrphanSubscription, RelayOrderly, Isolation, InOrder,
                ClosedIsLast, ClosedMeansDone, ClientToldWhy, LastIsTerminal
  <1> QED
    BY <1>5, <1>6, <1>7, <1>8 DEF SubscribeInv

\* Append makes the new element the last one.
LEMMA AppendLast ==
    ASSUME NEW S, NEW s \in Seq(S), NEW e \in S
    PROVE  Append(s, e) # <<>> /\ Append(s, e)[Len(Append(s, e))] = e
    OBVIOUS

\* Writing a notification of ours.
LEMMA InvRecvOurs ==
    ASSUME TypeOK, SubscribeInv, NEW c \in Calls, RecvOurs(c)
    PROVE  SubscribeInv'
  <1> DEFINE m == Head(rx[c])
             f == Forward(m, upid[c])
             ch == ChunkOf(m, c)
  <1>1. Ready(c) /\ rx' = [rx EXCEPT ![c] = Tail(rx[c])]
    BY DEF RecvOurs
  <1>2. /\ 1 \in DOMAIN rx[c] /\ m = rx[c][1]
        /\ m \in Notifications
        /\ \A d \in Calls \ {c} : rx'[d] = rx[d]
        /\ \A i \in DOMAIN rx'[c] :
                i \in Nat /\ i + 1 \in DOMAIN rx[c] /\ rx'[c][i] = rx[c][i + 1]
        /\ \A i \in DOMAIN rx[c] :
                i # 1 => i - 1 \in DOMAIN rx'[c] /\ rx'[c][i - 1] = rx[c][i]
    BY <1>1, TailBuffer
  <1>3. PICK ok \in BOOLEAN :
          /\ f # "none"
          /\ ok => sink[c] = "active"
          /\ chunks' = IF ok THEN [chunks EXCEPT ![c] = Append(@, ch)] ELSE chunks
          /\ werr' = [werr EXCEPT ![c] = @ \/ (~ok /\ sink[c] = "active")]
          /\ pc' = [pc EXCEPT ![c] = IF ok /\ f = "continue" THEN "wrote" ELSE "unwinding"]
    BY DEF RecvOurs
  <1>4. UNCHANGED <<upid, lag, sink, owner, emitted, pool, foreign, lost>>
    BY DEF RecvOurs
  <1>5. pc[c] = "streaming" /\ upid[c] \in Ids
    BY <1>1 DEF Ready, SubscribeInv, IdsUnique
  \* Only this call draws its id, so the message is its own or the shutdown.
  <1>6. /\ m.call \in {c, None}
        /\ m.call = None => m.n = 0 /\ m.kind = "SHUTDOWN"
        /\ m.call = c => m.n \in 1..Len(emitted[c])
    <2>1. MessageOwned(m)
      BY <1>2 DEF SubscribeInv, BuffersOwned
    <2>2. (m.kind \in RelayKinds /\ m.sid = upid[c]) \/ m.kind = "SHUTDOWN"
      BY <1>2, <1>3, <1>5, ForwardRange DEF RelayKinds
    <2>3. CASE m.kind = "SHUTDOWN"
      BY <2>1, <2>3, ConstantsAssumption DEF MessageOwned, RelayKinds
    <2>4. CASE m.kind \in RelayKinds /\ m.sid = upid[c]
      <3>1. m.sid # None
        BY <1>5, <2>4, ConstantsAssumption
      <3>2. m.call \in Calls /\ upid[m.call] = upid[c] /\ m.n \in 1..Len(emitted[m.call])
        BY <2>1, <2>4, <3>1 DEF MessageOwned
      <3>3. m.call = c
        BY <2>4, <3>1, <3>2 DEF SubscribeInv, IdsUnique
      <3> QED
        BY <3>2, <3>3, ConstantsAssumption
    <2> QED
      BY <2>2, <2>3, <2>4
  <1>7. /\ ch.call = m.call /\ ch.n = m.n /\ ch \in Chunks
        /\ Terminal(ch) <=> f = "stop"
    <2>1. ch \in Chunks /\ ch.call = m.call /\ ch.n = m.n
      BY <1>2, <1>3, <1>5, ChunkOfType DEF ChunkOf
    <2>2. ch.kind = IF m.kind = "SHUTDOWN" THEN "CLOSED" ELSE m.kind
      BY DEF ChunkOf
    <2>3. f = "continue" \/ f = "stop"
      BY <1>2, <1>3, <1>5, ForwardRange
    <2>4. CASE f = "continue"
      <3>1. m.kind \in {"EVENT", "EOSE"}
        BY <1>2, <1>5, <2>4, ForwardRange
      <3>2. ch.kind # "CLOSED"
        BY <2>2, <3>1
      <3> QED
        BY <2>1, <2>4, <3>2 DEF Terminal
    <2>5. CASE f = "stop"
      <3>1. m.kind \in {"SHUTDOWN", "CLOSED"}
        BY <1>2, <1>5, <2>5, ForwardRange
      <3>2. ch.kind = "CLOSED"
        BY <2>2, <3>1
      <3> QED
        BY <2>1, <2>5, <3>2 DEF Terminal
    <2> QED
      BY <2>1, <2>3, <2>4, <2>5
  <1>8. /\ \A d \in Calls \ {c} : chunks'[d] = chunks[d] /\ pc'[d] = pc[d] /\ werr'[d] = werr[d]
        /\ ok => chunks'[c] = Append(chunks[c], ch)
        /\ ~ok => chunks'[c] = chunks[c]
        /\ pc'[c] \in {"wrote", "unwinding"}
        /\ pc'[c] = "wrote" => ok /\ f = "continue"
        /\ pc'[c] = "unwinding" => ~ok \/ f = "stop"
    <2>1. f = "continue" \/ f = "stop"
      BY <1>2, <1>3, <1>5, ForwardRange
    <2> QED
      BY <1>3, <2>1 DEF TypeOK
  \* The chunks of c after the step: the old ones, then perhaps ch.
  <1>9. /\ chunks[c] \in Seq(Chunks) /\ DOMAIN chunks[c] = 1..Len(chunks[c])
        /\ Len(chunks[c]) \in Nat
    BY DEF TypeOK
  <1>10. \A i \in DOMAIN chunks'[c] :
            \/ i \in DOMAIN chunks[c] /\ chunks'[c][i] = chunks[c][i]
            \/ ok /\ i = Len(chunks[c]) + 1 /\ i = Len(chunks'[c]) /\ chunks'[c][i] = ch
    <2>1. CASE ok
      <3>1. chunks'[c] = Append(chunks[c], ch)
        BY <1>8, <2>1
      <3> QED
        BY <1>9, <2>1, <3>1
    <2>2. CASE ~ok
      BY <1>8, <2>2
    <2> QED
      BY <2>1, <2>2
  <1>11. \A i \in DOMAIN chunks[c] : ~Terminal(chunks[c][i])
    BY <1>5 DEF SubscribeInv, ClosedIsLast
  <1>12. IdsUnique' /\ NoOrphanSubscription' /\ RelayOrderly'
    <2>1. IdsUnique'
      BY <1>4, <1>5, <1>8 DEF SubscribeInv, IdsUnique
    <2>2. NoOrphanSubscription'
      <3> SUFFICES ASSUME NEW id \in Ids, owner[id] # None
                   PROVE  /\ upid[owner[id]] = id
                          /\ pc'[owner[id]] \in {"subscribed", "streaming", "wrote", "unwinding"}
        BY <1>4 DEF NoOrphanSubscription
      <3>1. /\ owner[id] \in Calls /\ upid[owner[id]] = id
            /\ pc[owner[id]] \in {"subscribed", "streaming", "wrote", "unwinding"}
        BY DEF SubscribeInv, NoOrphanSubscription, TypeOK
      <3> QED
        BY <1>8, <3>1
    <2>3. RelayOrderly'
      BY <1>4, <1>8 DEF SubscribeInv, RelayOrderly
    <2> QED
      BY <2>1, <2>2, <2>3
  <1>13. BuffersOwned'
    <2> SUFFICES ASSUME NEW d \in Calls, NEW i \in DOMAIN rx'[d]
                 PROVE  MessageOwned(rx[d][i])'
      BY DEF BuffersOwned
    <2>1. PICK j \in DOMAIN rx[d] : rx'[d][i] = rx[d][j]
      BY <1>2
    <2>2. MessageOwned(rx[d][j])
      BY DEF SubscribeInv, BuffersOwned
    <2> QED
      BY <1>4, <2>1, <2>2 DEF MessageOwned
  <1>14. Isolation'
    BY <1>6, <1>7, <1>8, <1>10 DEF SubscribeInv, Isolation
  <1>15. BuffersInOrder'
    <2>1. \A d \in Calls : \A i \in DOMAIN chunks'[d] : chunks'[d][i].n <= Len(emitted[d])
      <3>1. ch.n <= Len(emitted[c])
        BY <1>6, <1>7, <1>2 DEF TypeOK
      <3> QED
        BY <1>8, <1>10, <3>1 DEF SubscribeInv, BuffersInOrder
    <2>2. ASSUME NEW d \in Calls, NEW i \in DOMAIN chunks'[d], NEW j \in DOMAIN rx'[d],
                 rx'[d][j].call = d
          PROVE  chunks'[d][i].n < rx'[d][j].n
      <3>1. CASE d # c
        BY <1>2, <1>8, <2>2, <3>1 DEF SubscribeInv, BuffersInOrder
      <3>2. CASE d = c
        <4>1. j \in Nat /\ j + 1 \in DOMAIN rx[c] /\ rx'[c][j] = rx[c][j + 1]
          BY <1>2, <3>2
        <4>2. CASE i \in DOMAIN chunks[c] /\ chunks'[c][i] = chunks[c][i]
          BY <2>2, <3>2, <4>1, <4>2 DEF SubscribeInv, BuffersInOrder
        <4>3. CASE chunks'[c][i] = ch /\ m.call = c
          <5>1. j \in 1..Len(rx'[c])
            BY <1>1, <3>2 DEF TypeOK, Ready
          <5>2. 1 < j + 1
            BY <5>1
          <5> QED
            BY <1>2, <1>7, <2>2, <3>2, <4>1, <4>3, <5>2 DEF SubscribeInv, BuffersInOrder
        <4>4. CASE chunks'[c][i] = ch /\ m.call = None
          <5>1. MessageOwned(rx[c][j + 1]) /\ rx[c][j + 1].call = c
            BY <2>2, <3>2, <4>1 DEF SubscribeInv, BuffersOwned
          <5>2. rx[c][j + 1].n \in 1..Len(emitted[c])
            BY <5>1, ConstantsAssumption DEF MessageOwned
          <5> QED
            BY <1>6, <1>7, <3>2, <4>1, <4>4, <5>2
        <4> QED
          BY <1>6, <1>10, <3>2, <4>2, <4>3, <4>4
      <3> QED
        BY <3>1, <3>2
    <2>3. \A d \in Calls : \A i, j \in DOMAIN rx'[d] :
                i < j /\ rx'[d][i].call = d /\ rx'[d][j].call = d => rx'[d][i].n < rx'[d][j].n
      BY <1>1, TailInOrder
    <2> QED
      BY <1>4, <2>1, <2>2, <2>3 DEF BuffersInOrder
  <1>16. InOrder'
    <2> SUFFICES ASSUME NEW d \in Calls, NEW i \in DOMAIN chunks'[d], NEW j \in DOMAIN chunks'[d],
                        i < j, chunks'[d][j].call = d
                 PROVE  chunks'[d][i].n < chunks'[d][j].n
      BY DEF InOrder
    <2>1. CASE d # c
      BY <1>8, <2>1 DEF SubscribeInv, InOrder
    <2>2. CASE d = c
      <3>1. CASE j \in DOMAIN chunks[c] /\ chunks'[c][j] = chunks[c][j]
        <4>1. i \in DOMAIN chunks[c] /\ chunks'[c][i] = chunks[c][i]
          BY <1>9, <1>10, <2>2, <3>1
        <4> QED
          BY <2>2, <3>1, <4>1 DEF SubscribeInv, InOrder
      <3>2. CASE j = Len(chunks[c]) + 1 /\ chunks'[c][j] = ch
        <4>1. i \in DOMAIN chunks[c] /\ chunks'[c][i] = chunks[c][i]
          BY <1>9, <1>10, <2>2, <3>2
        <4>2. chunks[c][i].n < rx[c][1].n
          BY <1>2, <1>7, <2>2, <3>2, <4>1 DEF SubscribeInv, BuffersInOrder
        <4> QED
          BY <1>2, <1>7, <2>2, <3>2, <4>1, <4>2
      <3> QED
        BY <1>10, <2>2, <3>1, <3>2
    <2> QED
      BY <2>1, <2>2
  <1>17. ClosedIsLast'
    <2> SUFFICES ASSUME NEW d \in Calls, NEW i \in DOMAIN chunks'[d], Terminal(chunks'[d][i])
                 PROVE  i = Len(chunks'[d]) /\ pc'[d] \in {"unwinding", "closing", "done"}
      BY DEF ClosedIsLast
    <2>1. CASE d # c
      BY <1>8, <2>1 DEF SubscribeInv, ClosedIsLast
    <2>2. CASE d = c
      <3>1. i = Len(chunks'[c]) /\ f = "stop"
        BY <1>7, <1>10, <1>11, <2>2
      <3>2. pc'[c] = "unwinding"
        BY <1>8, <3>1
      <3> QED
        BY <2>2, <3>1, <3>2
    <2> QED
      BY <2>1, <2>2
  <1>18. ClosedMeansDone'
    BY <1>4, <1>5, <1>8 DEF SubscribeInv, ClosedMeansDone
  <1>19. ShutdownPending'
    <2> SUFFICES ASSUME NEW d \in Calls, ~werr'[d]
                 PROVE  /\ pc'[d] \in {"unwinding", "closing"} /\ sink'[d] = "active" =>
                              LastIsTerminal(d)'
                        /\ pc'[d] \in {"subscribed", "streaming", "wrote"} /\ pool' # "up" =>
                              \E i \in DOMAIN rx'[d] : rx'[d][i].kind = "SHUTDOWN"
      BY DEF ShutdownPending
    <2>1. CASE d # c
      BY <1>2, <1>4, <1>8, <2>1 DEF SubscribeInv, ShutdownPending, LastIsTerminal
    <2>2. CASE d = c
      <3>1. ~werr[c] /\ ~(~ok /\ sink[c] = "active")
        BY <1>3, <1>4, <2>2 DEF TypeOK
      <3>2. ASSUME pc'[c] = "unwinding", sink'[c] = "active"
            PROVE  LastIsTerminal(c)'
        <4>1. ok /\ f = "stop"
          BY <1>4, <1>8, <3>1, <3>2
        <4>2. chunks'[c] = Append(chunks[c], ch) /\ Terminal(ch)
          BY <1>7, <1>8, <4>1
        <4>3. chunks'[c] # <<>> /\ chunks'[c][Len(chunks'[c])] = ch
          <5>1. chunks[c] \in Seq(Chunks) /\ ch \in Chunks
            BY <1>7, <1>9
          <5> HIDE DEF ch
          <5> QED
            BY <4>2, <5>1, AppendLast
        <4> QED
          BY <4>2, <4>3 DEF LastIsTerminal
      <3>3. ASSUME pc'[c] = "wrote", pool # "up"
            PROVE  \E i \in DOMAIN rx'[c] : rx'[c][i].kind = "SHUTDOWN"
        <4>1. PICK i \in DOMAIN rx[c] : rx[c][i].kind = "SHUTDOWN"
          BY <1>5, <3>1, <3>3 DEF SubscribeInv, ShutdownPending
        <4>2. i # 1
          <5>1. f = "continue"
            BY <1>8, <3>3
          <5>2. m.kind \in {"EVENT", "EOSE"}
            BY <1>2, <1>5, <5>1, ForwardRange
          <5> QED
            BY <1>2, <4>1, <5>2
        <4> QED
          BY <1>2, <4>1, <4>2
      <3> QED
        BY <1>4, <1>8, <2>2, <3>2, <3>3
    <2> QED
      BY <2>1, <2>2
  <1>20. ClientToldWhy'
    <2>1. sink[c] # "closed"
      BY <1>5 DEF SubscribeInv, ClosedMeansDone
    <2> QED
      BY <1>4, <1>8, <2>1 DEF SubscribeInv, ClientToldWhy, LastIsTerminal
  <1> QED
    BY <1>12, <1>13, <1>14, <1>15, <1>16, <1>17, <1>18, <1>19, <1>20 DEF SubscribeInv

\* After a broadcast a buffer holds old messages, and perhaps the new one.
LEMMA BroadcastElements ==
    ASSUME TypeOK, NEW m \in Notifications, Broadcast(m), NEW c \in Calls,
           NEW i \in DOMAIN rx'[c]
    PROVE  rx'[c][i] = m \/ \E j \in DOMAIN rx[c] : rx'[c][i] = rx[c][j]
  <1>1. rx[c] \in Seq(Notifications) /\ rx'[c] \in Seq(Notifications)
    BY BroadcastType DEF TypeOK
  <1>2. CASE rx'[c] = rx[c]
    BY <1>2
  <1>3. ASSUME NEW k \in {0, 1},
               k <= Len(rx[c]),
               Len(rx'[c]) = Len(rx[c]) + 1 - k,
               rx'[c][Len(rx'[c])] = m,
               \A a \in 1..(Len(rx[c]) - k) : rx'[c][a] = rx[c][a + k]
        PROVE  rx'[c][i] = m \/ \E j \in DOMAIN rx[c] : rx'[c][i] = rx[c][j]
    <2>1. CASE i = Len(rx'[c])
      BY <1>3, <2>1
    <2>2. CASE i # Len(rx'[c])
      <3>1. i \in 1..(Len(rx[c]) - k) /\ i + k \in DOMAIN rx[c]
        BY <1>1, <1>3, <2>2
      <3> QED
        BY <1>3, <3>1
    <2> QED
      BY <2>1, <2>2
  <1> QED
    BY <1>2, <1>3, BroadcastBuffer

\* A broadcast keeps a call's messages in order if the new one is the latest.
LEMMA BroadcastInOrder ==
    ASSUME TypeOK, SubscribeInv, NEW m \in Notifications, Broadcast(m), NEW c \in Calls,
           m.call = c => \A j \in DOMAIN rx[c] : rx[c][j].call = c => rx[c][j].n < m.n,
           NEW i \in DOMAIN rx'[c], NEW j \in DOMAIN rx'[c],
           i < j, rx'[c][i].call = c, rx'[c][j].call = c
    PROVE  rx'[c][i].n < rx'[c][j].n
  <1>1. rx[c] \in Seq(Notifications) /\ rx'[c] \in Seq(Notifications)
    BY BroadcastType DEF TypeOK
  <1>2. CASE rx'[c] = rx[c]
    BY <1>2 DEF SubscribeInv, BuffersInOrder
  <1>3. ASSUME NEW k \in {0, 1},
               k <= Len(rx[c]),
               Len(rx'[c]) = Len(rx[c]) + 1 - k,
               rx'[c][Len(rx'[c])] = m,
               \A a \in 1..(Len(rx[c]) - k) : rx'[c][a] = rx[c][a + k]
        PROVE  rx'[c][i].n < rx'[c][j].n
    <2>0. /\ Len(rx[c]) \in Nat /\ DOMAIN rx[c] = 1..Len(rx[c])
          /\ i \in 1..(Len(rx[c]) + 1 - k) /\ j \in 1..(Len(rx[c]) + 1 - k)
      <3>1. Len(rx[c]) \in Nat /\ DOMAIN rx[c] = 1..Len(rx[c])
        BY <1>1
      <3>2. DOMAIN rx'[c] = 1..Len(rx'[c])
        BY <1>1
      <3> QED
        BY <1>3, <3>1, <3>2
    <2>1. /\ i \in 1..(Len(rx[c]) - k) /\ i + k \in DOMAIN rx[c]
          /\ rx'[c][i] = rx[c][i + k]
      <3>1. i \in 1..(Len(rx[c]) - k) /\ i + k \in 1..Len(rx[c])
        BY <1>3, <2>0
      <3> QED
        BY <1>3, <2>0, <3>1
    <2>2. CASE j = Len(rx'[c])
      BY <1>3, <2>1, <2>2
    <2>3. CASE j # Len(rx'[c])
      <3>1. /\ j \in 1..(Len(rx[c]) - k) /\ j + k \in DOMAIN rx[c]
            /\ rx'[c][j] = rx[c][j + k] /\ i + k < j + k
        <4>1. j # Len(rx[c]) + 1 - k
          BY <1>3, <2>3
        <4>2. j \in 1..(Len(rx[c]) - k) /\ j + k \in 1..Len(rx[c])
          BY <2>0, <4>1
        <4>3. i + k < j + k
          BY <2>0
        <4> QED
          BY <1>3, <2>0, <4>2, <4>3
      <3> QED
        BY <2>1, <3>1 DEF SubscribeInv, BuffersInOrder
    <2> QED
      BY <2>2, <2>3
  <1> QED
    BY <1>2, <1>3, BroadcastBuffer

\* The pool broadcasts a notification that belongs to no call.
LEMMA InvOwnerlessBroadcast ==
    ASSUME TypeOK, SubscribeInv, NEW m \in Notifications, Broadcast(m),
           m.sid = None, m.call = None, m.n = 0, m.kind \notin RelayKinds,
           UNCHANGED <<upid, chunks, emitted>>
    PROVE  BuffersOwned' /\ BuffersInOrder'
  <1>1. BuffersOwned'
    <2> SUFFICES ASSUME NEW c \in Calls, NEW i \in DOMAIN rx'[c]
                 PROVE  MessageOwned(rx[c][i])'
      BY DEF BuffersOwned
    <2>1. rx'[c][i] = m \/ \E j \in DOMAIN rx[c] : rx'[c][i] = rx[c][j]
      BY BroadcastElements
    <2> QED
      BY <2>1 DEF SubscribeInv, BuffersOwned, MessageOwned
  <1>2. \A c \in Calls : \A i \in DOMAIN chunks'[c] : chunks'[c][i].n <= Len(emitted'[c])
    BY DEF SubscribeInv, BuffersInOrder
  <1>3. ASSUME NEW c \in Calls, NEW i \in DOMAIN chunks'[c], NEW j \in DOMAIN rx'[c],
               rx'[c][j].call = c
        PROVE  chunks'[c][i].n < rx'[c][j].n
    <2>1. rx'[c][j] # m
      BY <1>3, ConstantsAssumption
    <2>2. \E a \in DOMAIN rx[c] : rx'[c][j] = rx[c][a]
      BY <2>1, BroadcastElements
    <2> QED
      BY <1>3, <2>2 DEF SubscribeInv, BuffersInOrder
  <1>4. ASSUME NEW c \in Calls, NEW i \in DOMAIN rx'[c], NEW j \in DOMAIN rx'[c],
               i < j, rx'[c][i].call = c, rx'[c][j].call = c
        PROVE  rx'[c][i].n < rx'[c][j].n
    <2>1. m.call # c
      BY ConstantsAssumption
    <2> QED
      BY <1>4, <2>1, BroadcastInOrder
  <1> QED
    BY <1>1, <1>2, <1>3, <1>4 DEF BuffersInOrder

\* The relay sends a message for the call that owns the id.
LEMMA InvEmit ==
    ASSUME TypeOK, SubscribeInv, NEW id \in Ids, NEW k \in RelayKinds, Emit(id, k)
    PROVE  SubscribeInv'
  <1> DEFINE o == owner[id]
             m == [kind |-> k, sid |-> id, call |-> o, n |-> Len(emitted[o]) + 1]
  <1>1. o \in Calls /\ m \in Notifications
    BY EmitMessage
  <1>2. /\ Broadcast(m)
        /\ pool = "up"
        /\ emitted' = [emitted EXCEPT ![o] = Append(@, k)]
        /\ owner' = IF k = "CLOSED" THEN [owner EXCEPT ![id] = None] ELSE owner
        /\ UNCHANGED <<pc, upid, sink, chunks, pool, foreign, werr>>
    BY DEF Emit
  <1>3. /\ upid[o] = id
        /\ m.call = o /\ m.sid = id /\ m.n = Len(emitted[o]) + 1 /\ m.kind = k
        /\ id # None
    BY <1>1, ConstantsAssumption DEF SubscribeInv, NoOrphanSubscription
  <1>4. /\ \A d \in Calls : Len(emitted[d]) \in Nat /\ Len(emitted'[d]) \in Nat
        /\ \A d \in Calls : Len(emitted[d]) <= Len(emitted'[d])
        /\ Len(emitted'[o]) = Len(emitted[o]) + 1
        /\ emitted'[o][Len(emitted[o]) + 1] = k
        /\ \A d \in Calls : \A i \in 1..Len(emitted[d]) : emitted'[d][i] = emitted[d][i]
    BY <1>1, <1>2 DEF TypeOK
  <1>5. IdsUnique' /\ Isolation' /\ InOrder' /\ ClosedIsLast' /\ ClosedMeansDone'
    BY <1>2 DEF SubscribeInv, IdsUnique, Isolation, InOrder, ClosedIsLast, ClosedMeansDone
  <1>6. NoOrphanSubscription' /\ RelayOrderly'
    <2>1. NoOrphanSubscription'
      BY <1>2 DEF SubscribeInv, NoOrphanSubscription, TypeOK
    <2>2. ASSUME NEW c \in Calls, pc'[c] \in {"idle", "registered"}
          PROVE  emitted'[c] = <<>>
      <3>1. c # o
        BY <1>1, <1>2, <2>2, ConstantsAssumption DEF SubscribeInv, NoOrphanSubscription
      <3> QED
        BY <1>2, <2>2, <3>1 DEF SubscribeInv, RelayOrderly, TypeOK
    <2>3. ASSUME NEW e \in Ids, owner'[e] # None, NEW i \in DOMAIN emitted'[owner'[e]]
          PROVE  emitted'[owner'[e]][i] # "CLOSED"
      <3>1. owner'[e] = owner[e] /\ owner[e] \in Calls /\ (e = id => k # "CLOSED")
        BY <1>2, <2>3 DEF TypeOK
      <3>2. CASE owner[e] # o
        <4>1. emitted'[owner[e]] = emitted[owner[e]]
          BY <1>2, <3>1, <3>2 DEF TypeOK
        <4> QED
          BY <2>3, <3>1, <4>1 DEF SubscribeInv, RelayOrderly
      <3>3. CASE owner[e] = o
        <4>1. e = id
          BY <1>3, <2>3, <3>1, <3>3 DEF SubscribeInv, NoOrphanSubscription
        <4>2. i \in 1..Len(emitted[o]) \/ i = Len(emitted[o]) + 1
          BY <1>1, <1>2, <1>4, <2>3, <3>1, <3>3 DEF TypeOK
        <4>3. \A j \in 1..Len(emitted[o]) : emitted[o][j] # "CLOSED"
          BY <1>1, <2>3, <3>1, <4>1 DEF SubscribeInv, RelayOrderly, TypeOK
        <4> QED
          BY <1>1, <1>4, <3>1, <3>3, <4>1, <4>2, <4>3
      <3> QED
        BY <3>2, <3>3
    <2> QED
      BY <2>1, <2>2, <2>3 DEF RelayOrderly
  <1>7. BuffersOwned'
    <2> SUFFICES ASSUME NEW c \in Calls, NEW i \in DOMAIN rx'[c]
                 PROVE  MessageOwned(rx[c][i])'
      BY DEF BuffersOwned
    <2>1. CASE rx'[c][i] = m
      <3>1. m.n \in 1..Len(emitted'[o]) /\ m.kind = emitted'[o][m.n]
        BY <1>1, <1>3, <1>4
      <3> QED
        BY <1>1, <1>2, <1>3, <2>1, <3>1 DEF MessageOwned
    <2>2. ASSUME NEW j \in DOMAIN rx[c], rx'[c][i] = rx[c][j]
          PROVE  MessageOwned(rx[c][i])'
      <3>1. MessageOwned(rx[c][j])
        BY DEF SubscribeInv, BuffersOwned
      <3>2. rx[c][j].call \in Calls /\ rx[c][j].n \in 1..Len(emitted[rx[c][j].call]) =>
                /\ rx[c][j].n \in 1..Len(emitted'[rx[c][j].call])
                /\ emitted'[rx[c][j].call][rx[c][j].n] = emitted[rx[c][j].call][rx[c][j].n]
        BY <1>4
      <3> QED
        BY <1>2, <2>2, <3>1, <3>2 DEF MessageOwned
    <2> QED
      BY <1>1, <1>2, <2>1, <2>2, BroadcastElements
  <1>8. BuffersInOrder'
    <2>1. \A c \in Calls : \A i \in DOMAIN chunks'[c] : chunks'[c][i].n <= Len(emitted'[c])
      <3> SUFFICES ASSUME NEW c \in Calls, NEW i \in DOMAIN chunks[c]
                   PROVE  chunks[c][i].n <= Len(emitted'[c])
        BY <1>2
      <3>1. chunks[c][i] \in Chunks /\ chunks[c][i].n <= Len(emitted[c])
        BY DEF SubscribeInv, BuffersInOrder, TypeOK
      <3>2. chunks[c][i].n \in Nat
        BY <3>1 DEF Chunks
      <3> QED
        BY <1>4, <3>1, <3>2
    <2>2. ASSUME NEW c \in Calls, NEW i \in DOMAIN chunks'[c], NEW j \in DOMAIN rx'[c],
                 rx'[c][j].call = c
          PROVE  chunks'[c][i].n < rx'[c][j].n
      <3>1. CASE rx'[c][j] = m
        <4>1. c = o /\ chunks[c][i] \in Chunks /\ chunks[c][i].n <= Len(emitted[o])
          BY <1>2, <1>3, <2>2, <3>1 DEF SubscribeInv, BuffersInOrder, TypeOK
        <4>2. chunks[c][i].n \in Nat
          BY <4>1 DEF Chunks
        <4> QED
          BY <1>1, <1>2, <1>3, <1>4, <3>1, <4>1, <4>2
      <3>2. CASE \E a \in DOMAIN rx[c] : rx'[c][j] = rx[c][a]
        BY <1>2, <2>2, <3>2 DEF SubscribeInv, BuffersInOrder
      <3> QED
        BY <1>1, <1>2, <3>1, <3>2, BroadcastElements
    <2>3. ASSUME NEW c \in Calls, NEW i \in DOMAIN rx'[c], NEW j \in DOMAIN rx'[c],
                 i < j, rx'[c][i].call = c, rx'[c][j].call = c
          PROVE  rx'[c][i].n < rx'[c][j].n
      <3>1. m.call = c => \A a \in DOMAIN rx[c] : rx[c][a].call = c => rx[c][a].n < m.n
        <4> SUFFICES ASSUME c = o, NEW a \in DOMAIN rx[c], rx[c][a].call = c
                     PROVE  rx[c][a].n < m.n
          BY <1>3
        <4>1. MessageOwned(rx[c][a])
          BY DEF SubscribeInv, BuffersOwned
        <4>2. rx[c][a].n \in 1..Len(emitted[o])
          BY <4>1, ConstantsAssumption DEF MessageOwned
        <4> QED
          BY <1>1, <1>3, <1>4, <4>2
      <3> QED
        BY <1>1, <1>2, <2>3, <3>1, BroadcastInOrder
    <2> QED
      BY <2>1, <2>2, <2>3 DEF BuffersInOrder
  <1>9. ShutdownPending'
    BY <1>2 DEF SubscribeInv, ShutdownPending, LastIsTerminal
  <1>10. ClientToldWhy'
    BY <1>2 DEF SubscribeInv, ClientToldWhy, LastIsTerminal
  <1> QED
    BY <1>5, <1>6, <1>7, <1>8, <1>9, <1>10 DEF SubscribeInv

\* Steps of the environment keep the inductive invariant.
LEMMA InvEnvironment ==
    ASSUME TypeOK, SubscribeInv, Environment
    PROVE  SubscribeInv'
  <1>1. CASE \E c \in Calls : Abort(c)
    <2>1. PICK c \in Calls : Abort(c)
      BY <1>1
    <2>2. /\ sink' = [sink EXCEPT ![c] = "aborted"]
          /\ UNCHANGED <<pc, upid, rx, lag, chunks, owner, emitted, pool, foreign, lost, werr>>
      BY <2>1 DEF Abort
    <2>3. \A d \in Calls : sink'[d] # "aborted" => sink'[d] = sink[d]
      BY <2>2 DEF TypeOK
    <2>4. /\ IdsUnique' /\ NoOrphanSubscription' /\ BuffersOwned' /\ RelayOrderly'
          /\ Isolation' /\ BuffersInOrder' /\ InOrder' /\ ClosedIsLast'
      BY <2>2 DEF SubscribeInv, IdsUnique, NoOrphanSubscription, BuffersOwned, MessageOwned,
                  RelayOrderly, Isolation, BuffersInOrder, InOrder, ClosedIsLast
    <2>5. ClosedMeansDone' /\ ShutdownPending' /\ ClientToldWhy'
      BY <2>2, <2>3 DEF SubscribeInv, ClosedMeansDone, ShutdownPending, ClientToldWhy,
                        LastIsTerminal
    <2> QED
      BY <2>4, <2>5 DEF SubscribeInv
  <1>2. CASE \E id \in Ids, k \in RelayKinds : Emit(id, k)
    BY <1>2, InvEmit
  <1>3. CASE ForeignTraffic
    <2>1. /\ Broadcast(OtherNotification) /\ pool = "up"
          /\ UNCHANGED <<pc, upid, sink, chunks, owner, emitted, pool, werr>>
      BY <1>3 DEF ForeignTraffic
    <2>2. BuffersOwned' /\ BuffersInOrder'
      BY <2>1, NotificationTypes, InvOwnerlessBroadcast DEF OtherNotification, RelayKinds
    <2>3. /\ IdsUnique' /\ NoOrphanSubscription' /\ Isolation' /\ InOrder' /\ ClosedIsLast'
          /\ ClosedMeansDone' /\ RelayOrderly'
      BY <2>1 DEF SubscribeInv, IdsUnique, NoOrphanSubscription, Isolation, InOrder,
                  ClosedIsLast, ClosedMeansDone, RelayOrderly
    <2>4. ShutdownPending' /\ ClientToldWhy'
      BY <2>1 DEF SubscribeInv, ShutdownPending, ClientToldWhy, LastIsTerminal
    <2> QED
      BY <2>2, <2>3, <2>4 DEF SubscribeInv
  <1>4. CASE PoolShutdown
    <2>1. /\ Broadcast(ShutdownNotification)
          /\ owner' = [i \in Ids |-> None]
          /\ UNCHANGED <<pc, upid, sink, chunks, emitted, foreign, werr>>
      BY <1>4 DEF PoolShutdown
    <2>2. BuffersOwned' /\ BuffersInOrder'
      BY <2>1, NotificationTypes, InvOwnerlessBroadcast DEF ShutdownNotification, RelayKinds
    <2>3. /\ IdsUnique' /\ NoOrphanSubscription' /\ Isolation' /\ InOrder' /\ ClosedIsLast'
          /\ ClosedMeansDone' /\ RelayOrderly'
      BY <2>1 DEF SubscribeInv, IdsUnique, NoOrphanSubscription, Isolation, InOrder,
                  ClosedIsLast, ClosedMeansDone, RelayOrderly
    \* Every call in its loop has a receiver, so it gets the notice.
    <2>4. ASSUME NEW c \in Calls, pc[c] \in {"subscribed", "streaming", "wrote"}
          PROVE  \E i \in DOMAIN rx'[c] : rx'[c][i].kind = "SHUTDOWN"
      <3>1. c \in Receivers
        BY <2>4 DEF Receivers
      <3>2. rx'[c] \in Seq(Notifications) /\ rx[c] \in Seq(Notifications)
        BY <2>1, BroadcastType, NotificationTypes DEF TypeOK
      <3>3. PICK k \in {0, 1} :
                /\ k <= Len(rx[c])
                /\ Len(rx'[c]) = Len(rx[c]) + 1 - k
                /\ rx'[c][Len(rx'[c])] = ShutdownNotification
        BY <2>1, <3>1, BroadcastBuffer, NotificationTypes
      <3>4. Len(rx'[c]) \in DOMAIN rx'[c]
        BY <3>2, <3>3
      <3> QED
        BY <3>3, <3>4 DEF ShutdownNotification
    <2>5. ShutdownPending'
      BY <2>1, <2>4 DEF SubscribeInv, ShutdownPending, LastIsTerminal
    <2>6. ClientToldWhy'
      BY <2>1 DEF SubscribeInv, ClientToldWhy, LastIsTerminal
    <2> QED
      BY <2>2, <2>3, <2>5, <2>6 DEF SubscribeInv
  <1> QED
    BY <1>1, <1>2, <1>3, <1>4 DEF Environment

\* The inductive invariant holds in every reachable state.
THEOREM Invariance == Spec => []SubscribeInv
  <1>1. TypeOK /\ SubscribeInv /\ [Next]_vars => SubscribeInv'
    <2> SUFFICES ASSUME TypeOK, SubscribeInv, [Next]_vars PROVE SubscribeInv'
      OBVIOUS
    <2>1. ASSUME NEW c \in Calls,
                 Reject(c) \/ (\E id \in Ids : Invoke(c, id)) \/ TaskStep(c)
          PROVE  SubscribeInv'
      BY <2>1, InvQuietTask, InvOpenClose, InvRecvOther, InvRecvOurs DEF TaskStep
    <2>2. CASE Environment
      BY <2>2, InvEnvironment
    <2>3. CASE UNCHANGED vars
      BY <2>3 DEF vars, SubscribeInv, IdsUnique, NoOrphanSubscription, BuffersOwned,
                  MessageOwned, RelayOrderly, Isolation, BuffersInOrder, InOrder, ClosedIsLast,
                  ClosedMeansDone, ShutdownPending, ClientToldWhy, LastIsTerminal
    <2> QED
      BY <2>1, <2>2, <2>3 DEF Next
  <1> QED
    BY <1>1, InvInit, TypeCorrect, PTL DEF Spec

\* proxy.rs:244-250.  Whatever ids the clients pick, no client ever sees a
\* message that the relay sent for another call's filters.
THEOREM IsolationTheorem == Spec => []Isolation
  <1>1. SubscribeInv => Isolation
    BY DEF SubscribeInv
  <1> QED
    BY <1>1, Invariance, PTL

\* proxy.rs:292-294.  No exit from the loop leaves an upstream subscription
\* without a task that will unwind it.
THEOREM NoOrphanTheorem == Spec => []NoOrphanSubscription
  <1>1. SubscribeInv => NoOrphanSubscription
    BY DEF SubscribeInv
  <1> QED
    BY <1>1, Invariance, PTL

\* proxy.rs:266-290.  Chunks keep the relay's order, at any channel capacity.
THEOREM InOrderTheorem == Spec => []InOrder
  <1>1. SubscribeInv => InOrder
    BY DEF SubscribeInv
  <1> QED
    BY <1>1, Invariance, PTL

\* proxy.rs:273-276.  A CLOSED chunk is the last one of its stream.
THEOREM ClosedIsLastTheorem == Spec => []ClosedIsLast
  <1>1. SubscribeInv => ClosedIsLast
    BY DEF SubscribeInv
  <1> QED
    BY <1>1, Invariance, PTL

\* proxy.rs:98-103, 282.  A stream that outlay ends, with no write error and
\* no overflow, told its client CLOSED first.
THEOREM ClientToldWhyTheorem == Spec => []ClientToldWhy
  <1>1. SubscribeInv => ClientToldWhy
    BY DEF SubscribeInv
  <1> QED
    BY <1>1, Invariance, PTL

-----------------------------------------------------------------------------
(* Completeness: nothing is missed without an overflow.                    *)

\* A broadcast on a receiver that does not overflow keeps what it held and
\* adds the new notification.
LEMMA BroadcastKeeps ==
    ASSUME TypeOK, NEW m \in Notifications, Broadcast(m), NEW c \in Calls, ~lost'[c],
           c \in Receivers
    PROVE  /\ ~lost[c]
           /\ \A d, n : Holds(rx[c], d, n) => Holds(rx'[c], d, n)
           /\ Holds(rx'[c], m.call, m.n)
  <1>1. ~lost[c] /\ ~Overflows(c) /\ rx[c] \in Seq(Notifications)
    BY DEF Broadcast, TypeOK
  <1>2. rx'[c] = Append(rx[c], m)
    BY <1>1 DEF Broadcast
  <1>3. /\ \A i \in DOMAIN rx[c] : i \in DOMAIN rx'[c] /\ rx'[c][i] = rx[c][i]
        /\ Len(rx[c]) + 1 \in DOMAIN rx'[c] /\ rx'[c][Len(rx[c]) + 1] = m
    BY <1>1, <1>2
  <1> QED
    BY <1>1, <1>3 DEF Holds

\* Reading a notification moves a message of ours into the chunks, or the
\* task leaves its loop.
LEMMA GapRecv ==
    ASSUME TypeOK, SubscribeInv, NoSilentGap, NEW c \in Calls, RecvOther(c) \/ RecvOurs(c)
    PROVE  NoSilentGap'
  <1> DEFINE m == Head(rx[c])
  <1>1. /\ Ready(c) /\ rx' = [rx EXCEPT ![c] = Tail(rx[c])]
        /\ UNCHANGED <<upid, emitted, lost>>
        /\ \A d \in Calls \ {c} : pc'[d] = pc[d] /\ chunks'[d] = chunks[d]
    BY DEF RecvOther, RecvOurs, TypeOK
  <1>2. /\ 1 \in DOMAIN rx[c] /\ m = rx[c][1] /\ m \in Notifications
        /\ \A d \in Calls \ {c} : rx'[d] = rx[d]
        /\ \A i \in DOMAIN rx[c] :
                i # 1 => i - 1 \in DOMAIN rx'[c] /\ rx'[c][i - 1] = rx[c][i]
    BY <1>1, TailBuffer
  <1>3. pc[c] = "streaming" /\ upid[c] \in Ids
    BY <1>1 DEF Ready, SubscribeInv, IdsUnique
  <1>4. \A n : Holds(rx[c], c, n) => Holds(rx'[c], c, n) \/ (m.call = c /\ m.n = n)
    BY <1>2 DEF Holds
  <1> SUFFICES ASSUME NEW d \in Calls, pc'[d] \in {"subscribed", "streaming", "wrote"},
                      ~lost'[d], NEW n \in 1..Len(emitted'[d])
               PROVE  Holds(chunks'[d], d, n) \/ Holds(rx'[d], d, n)
    BY DEF NoSilentGap
  <1>5. CASE d # c
    BY <1>1, <1>2, <1>5 DEF NoSilentGap
  <1>6. CASE d = c /\ RecvOther(c)
    <2>1. m.call # c
      <3>1. MessageOwned(m)
        BY <1>2 DEF SubscribeInv, BuffersOwned
      <3>2. Forward(m, upid[c]) = "none"
        BY <1>6 DEF RecvOther
      <3>3. m.sid # upid[c] \/ m.kind \notin RelayKinds
        BY <3>2 DEF Forward, RelayKinds
      <3> QED
        BY <3>1, <3>3, ConstantsAssumption DEF MessageOwned
    <2>2. chunks' = chunks
      BY <1>6 DEF RecvOther
    <2> QED
      BY <1>1, <1>3, <1>4, <1>6, <2>1, <2>2 DEF NoSilentGap
  <1>7. CASE d = c /\ RecvOurs(c)
    <2>1. chunks' = [chunks EXCEPT ![c] = Append(@, ChunkOf(m, c))]
      BY <1>7 DEF RecvOurs, TypeOK
    <2>2. chunks[c] \in Seq(Chunks) /\ chunks'[c] = Append(chunks[c], ChunkOf(m, c))
      BY <2>1 DEF TypeOK
    <2>3. /\ \A i \in DOMAIN chunks[c] :
                i \in DOMAIN chunks'[c] /\ chunks'[c][i] = chunks[c][i]
          /\ Len(chunks[c]) + 1 \in DOMAIN chunks'[c]
          /\ chunks'[c][Len(chunks[c]) + 1] = ChunkOf(m, c)
      BY <2>2
    <2>4. ChunkOf(m, c).call = m.call /\ ChunkOf(m, c).n = m.n
      BY DEF ChunkOf
    <2>5. Holds(chunks[c], c, n) \/ Holds(rx[c], c, n)
      BY <1>1, <1>3, <1>7 DEF NoSilentGap
    <2>6. Holds(chunks[c], c, n) => Holds(chunks'[c], c, n)
      BY <2>3 DEF Holds
    <2>7. m.call = c /\ m.n = n => Holds(chunks'[c], c, n)
      BY <2>3, <2>4 DEF Holds
    <2> QED
      BY <1>4, <1>7, <2>5, <2>6, <2>7
  <1> QED
    BY <1>5, <1>6, <1>7

\* proxy.rs:252-254.  As long as its receiver never overflowed, a stream has
\* missed nothing: what the relay sent was written or is waiting.
THEOREM NoSilentGapTheorem == Spec => []NoSilentGap
  <1>1. Init => NoSilentGap
    BY DEF Init, NoSilentGap
  <1>2. TypeOK /\ SubscribeInv /\ NoSilentGap /\ [Next]_vars => NoSilentGap'
    <2> SUFFICES ASSUME TypeOK, SubscribeInv, NoSilentGap, [Next]_vars
                 PROVE  NoSilentGap'
      OBVIOUS
    <2>1. ASSUME NEW c \in Calls,
                 Reject(c) \/ (\E id \in Ids : Invoke(c, id)) \/ TaskStep(c)
          PROVE  NoSilentGap'
      <3>1. CASE RecvOther(c) \/ RecvOurs(c)
        BY <3>1, GapRecv
      <3>2. CASE SubscribeOk(c)
        <4>1. /\ UNCHANGED <<chunks, emitted, lost, rx>>
              /\ emitted[c] = <<>>
              /\ \A d \in Calls \ {c} : pc'[d] = pc[d]
          BY <3>2 DEF SubscribeOk, TypeOK, SubscribeInv, RelayOrderly
        <4>2. 1..Len(emitted'[c]) = {}
          BY <4>1
        <4> QED
          BY <4>1, <4>2 DEF NoSilentGap, Holds
      <3>3. CASE ~(RecvOther(c) \/ RecvOurs(c) \/ SubscribeOk(c))
        <4>1. /\ UNCHANGED <<chunks, emitted, lost>>
              /\ \A d \in Calls : pc'[d] \in {"subscribed", "streaming", "wrote"} =>
                    pc[d] \in {"subscribed", "streaming", "wrote"} /\ rx'[d] = rx[d]
          BY <2>1, <3>3 DEF TaskStep, Reject, Invoke, SubscribeErr, StartSink, RecvLagged,
                            AfterWrite, PollInactive, Unsubscribe, CloseSink, TypeOK
        <4> QED
          BY <4>1 DEF NoSilentGap, Holds
      <3> QED
        BY <3>1, <3>2, <3>3
    <2>2. ASSUME NEW m \in Notifications, Broadcast(m), pc' = pc, chunks' = chunks,
                 \A c \in Calls : \A n \in 1..Len(emitted'[c]) :
                    n \in 1..Len(emitted[c]) \/ (m.call = c /\ m.n = n)
          PROVE  NoSilentGap'
      <3> SUFFICES ASSUME NEW c \in Calls, pc[c] \in {"subscribed", "streaming", "wrote"},
                          ~lost'[c], NEW n \in 1..Len(emitted'[c])
                   PROVE  Holds(chunks'[c], c, n) \/ Holds(rx'[c], c, n)
        BY <2>2 DEF NoSilentGap
      <3>1. c \in Receivers
        BY DEF Receivers
      <3>2. /\ ~lost[c]
            /\ \A d, k : Holds(rx[c], d, k) => Holds(rx'[c], d, k)
            /\ Holds(rx'[c], m.call, m.n)
        BY <2>2, <3>1, BroadcastKeeps
      <3>3. n \in 1..Len(emitted[c]) => Holds(chunks[c], c, n) \/ Holds(rx[c], c, n)
        BY <3>2 DEF NoSilentGap
      <3> QED
        BY <2>2, <3>2, <3>3
    <2>3. CASE \E id \in Ids, k \in RelayKinds : Emit(id, k)
      <3>1. PICK id \in Ids, k \in RelayKinds : Emit(id, k)
        BY <2>3
      <3> DEFINE o == owner[id]
                 m == [kind |-> k, sid |-> id, call |-> o, n |-> Len(emitted[o]) + 1]
      <3>2. o \in Calls /\ m \in Notifications
        BY <3>1, EmitMessage
      <3>3. /\ Broadcast(m) /\ pc' = pc /\ chunks' = chunks
            /\ emitted' = [emitted EXCEPT ![o] = Append(@, k)]
        BY <3>1 DEF Emit
      <3>4. ASSUME NEW c \in Calls, NEW n \in 1..Len(emitted'[c])
            PROVE  n \in 1..Len(emitted[c]) \/ (m.call = c /\ m.n = n)
        BY <3>2, <3>3 DEF TypeOK
      <3> QED
        BY <2>2, <3>2, <3>3, <3>4
    <2>4. CASE ForeignTraffic \/ PoolShutdown
      BY <2>2, <2>4, NotificationTypes DEF ForeignTraffic, PoolShutdown
    <2>5. CASE (\E c \in Calls : Abort(c)) \/ UNCHANGED vars
      BY <2>5 DEF Abort, vars, NoSilentGap, Holds
    <2> QED
      BY <2>1, <2>3, <2>4, <2>5 DEF Next, Environment
  <1> QED
    BY <1>1, <1>2, TypeCorrect, Invariance, PTL DEF Spec

-----------------------------------------------------------------------------
(* Refinement of PrivateStreams.                                           *)

\* A forwarded notification is the call's own message, unaltered, or the
\* pool's shutdown.
LEMMA OursIsOwn ==
    ASSUME TypeOK, SubscribeInv, NEW c \in Calls, Ready(c),
           Forward(Head(rx[c]), upid[c]) # "none"
    PROVE  LET m == Head(rx[c])
           IN \/ /\ m.kind = "SHUTDOWN" /\ m.call = None /\ m.n = 0
                 /\ Forward(m, upid[c]) = "stop"
              \/ /\ m.call = c /\ m.n \in DOMAIN emitted[c] /\ m.kind = emitted[c][m.n]
                 /\ Forward(m, upid[c]) = IF m.kind = "CLOSED" THEN "stop" ELSE "continue"
  <1> DEFINE m == Head(rx[c])
  <1>1. m \in Notifications /\ MessageOwned(m) /\ upid[c] \in Ids /\ upid[c] # None
    <2>1. rx[c] \in Seq(Notifications) /\ rx[c] # <<>>
      BY DEF Ready, TypeOK
    <2>2. 1 \in DOMAIN rx[c] /\ m = rx[c][1] /\ m \in Notifications
      BY <2>1, TailFacts
    <2>3. MessageOwned(m)
      BY <2>2 DEF SubscribeInv, BuffersOwned
    <2> QED
      BY <2>2, <2>3, ConstantsAssumption DEF Ready, SubscribeInv, IdsUnique
  <1>2. /\ Forward(m, upid[c]) \in {"stop", "continue"}
        /\ Forward(m, upid[c]) = "continue" =>
                m.kind \in {"EVENT", "EOSE"} /\ m.sid = upid[c]
        /\ Forward(m, upid[c]) = "stop" =>
                m.kind = "SHUTDOWN" \/ (m.kind = "CLOSED" /\ m.sid = upid[c])
    BY <1>1, ForwardRange
  <1> HIDE DEF m
  <1>3. CASE m.kind = "SHUTDOWN"
    <2>1. m.sid = None
      BY <1>1, <1>3 DEF MessageOwned, RelayKinds
    <2>2. m.call = None /\ m.n = 0
      BY <1>1, <2>1 DEF MessageOwned
    <2> QED
      BY <1>2, <1>3, <2>2 DEF m
  <1>4. CASE m.kind # "SHUTDOWN"
    <2>1. m.sid = upid[c] /\ m.sid # None
      BY <1>1, <1>2, <1>4
    <2>2. /\ m.call \in Calls /\ upid[m.call] = upid[c]
          /\ m.n \in 1..Len(emitted[m.call]) /\ m.kind = emitted[m.call][m.n]
      BY <1>1, <2>1 DEF MessageOwned
    <2>3. m.call = c
      BY <2>1, <2>2 DEF SubscribeInv, IdsUnique
    <2>4. DOMAIN emitted[c] = 1..Len(emitted[c])
      BY DEF TypeOK
    <2> QED
      BY <1>2, <1>4, <2>2, <2>3, <2>4 DEF m
  <1> QED
    BY <1>3, <1>4

\* A write is a delivery, outlay's own CLOSED, or the silent end.
LEMMA RefineRecvOurs ==
    ASSUME TypeOK, SubscribeInv, NEW c \in Calls, RecvOurs(c)
    PROVE  Streams!Next
  <1> DEFINE m == Head(rx[c])
             f == Forward(m, upid[c])
  <1>1. Ready(c) /\ f # "none" /\ pc[c] = "streaming" /\ emitted' = emitted
    BY DEF RecvOurs, Ready
  <1>2. PICK ok \in BOOLEAN :
          /\ chunks' = IF ok THEN [chunks EXCEPT ![c] = Append(@, ChunkOf(m, c))] ELSE chunks
          /\ pc' = [pc EXCEPT ![c] = IF ok /\ f = "continue" THEN "wrote" ELSE "unwinding"]
    BY DEF RecvOurs
  <1>3. /\ StreamState[c] = "open"
        /\ StreamState' = [StreamState EXCEPT ![c] =
                              IF ok /\ f = "continue" THEN "open" ELSE "over"]
    BY <1>1, <1>2 DEF StreamState, TypeOK
  <1>4. CASE ~ok
    BY <1>1, <1>2, <1>3, <1>4 DEF Streams!Next, Streams!End
  <1>5. CASE ok /\ m.kind = "SHUTDOWN" /\ m.call = None /\ m.n = 0 /\ f = "stop"
    <2>1. ChunkOf(m, c) = [kind |-> "CLOSED", sub |-> ClientSub[c], call |-> None, n |-> 0]
      BY <1>5 DEF ChunkOf
    <2> QED
      BY <1>1, <1>2, <1>3, <1>5, <2>1 DEF Streams!Next, Streams!TellClosed
  <1>6. CASE /\ ok /\ m.call = c /\ m.n \in DOMAIN emitted[c] /\ m.kind = emitted[c][m.n]
             /\ f = IF m.kind = "CLOSED" THEN "stop" ELSE "continue"
    <2>1. m.kind # "SHUTDOWN"
      <3>1. emitted[c] \in Seq(RelayKinds)
        BY DEF TypeOK
      <3>2. emitted[c][m.n] \in RelayKinds
        BY <1>6, <3>1
      <3> QED
        BY <1>6, <3>2 DEF RelayKinds
    <2>2. ChunkOf(m, c) = [kind |-> emitted[c][m.n], sub |-> ClientSub[c], call |-> c, n |-> m.n]
      BY <1>6, <2>1 DEF ChunkOf
    <2>3. \A i \in DOMAIN chunks[c] : chunks[c][i].n < m.n
      <3>1. 1 \in DOMAIN rx[c] /\ m = rx[c][1]
        BY <1>1 DEF Ready, TypeOK
      <3> QED
        BY <1>6, <3>1 DEF SubscribeInv, BuffersInOrder
    <2>4. StreamState' = [StreamState EXCEPT ![c] =
                            IF emitted[c][m.n] = "CLOSED" THEN "over" ELSE "open"]
      BY <1>3, <1>6
    <2>5. chunks' = [chunks EXCEPT ![c] = Append(@,
              [kind |-> emitted[c][m.n], sub |-> ClientSub[c], call |-> c, n |-> m.n])]
      BY <1>2, <1>6, <2>2
    <2>6. Streams!Deliver(c, m.n)
      BY <1>1, <1>3, <2>3, <2>4, <2>5 DEF Streams!Deliver
    <2> QED
      BY <1>6, <2>6 DEF Streams!Next
  <1> QED
    BY <1>1, <1>4, <1>5, <1>6, OursIsOwn

\* Every other step of a task ends the stream or leaves it alone.
LEMMA RefineTask ==
    ASSUME TypeOK, SubscribeInv, NEW c \in Calls,
           Reject(c) \/ (\E id \in Ids : Invoke(c, id)) \/ TaskStep(c)
    PROVE  [Streams!Next]_(Streams!streamVars)
  <1> USE DEF Streams!streamVars
  <1>1. CASE RecvOurs(c)
    BY <1>1, RefineRecvOurs
  <1>2. CASE ~RecvOurs(c)
    <2>1. /\ UNCHANGED <<emitted, chunks>>
          /\ \E p \in PCs :
               /\ pc' = [pc EXCEPT ![c] = p]
               /\ pc[c] \in {"unwinding", "closing", "done", "failed"} =>
                     p \in {"unwinding", "closing", "done", "failed"}
      BY <1>2 DEF TaskStep, Reject, Invoke, SubscribeOk, SubscribeErr, StartSink, RecvLagged,
                  RecvOther, AfterWrite, PollInactive, Unsubscribe, CloseSink, Ready, PCs, TypeOK
    <2>2. PICK p \in PCs :
               /\ pc' = [pc EXCEPT ![c] = p]
               /\ pc[c] \in {"unwinding", "closing", "done", "failed"} =>
                     p \in {"unwinding", "closing", "done", "failed"}
      BY <2>1
    <2>3. CASE StreamState[c] = "over" \/ p \notin {"unwinding", "closing", "done", "failed"}
      <3>1. StreamState' = StreamState
        BY <2>2, <2>3 DEF StreamState, TypeOK
      <3> QED
        BY <2>1, <3>1
    <2>4. CASE StreamState[c] = "open" /\ p \in {"unwinding", "closing", "done", "failed"}
      <3>1. StreamState' = [StreamState EXCEPT ![c] = "over"]
        BY <2>2, <2>4 DEF StreamState, TypeOK
      <3> QED
        BY <2>1, <2>4, <3>1 DEF Streams!Next, Streams!End
    <2>5. StreamState[c] \in {"over", "open"}
      BY DEF StreamState
    <2> QED
      BY <2>3, <2>4, <2>5
  <1> QED
    BY <1>1, <1>2

\* The environment sends, or does nothing a client could see.
LEMMA RefineEnvironment ==
    ASSUME TypeOK, SubscribeInv, Environment
    PROVE  [Streams!Next]_(Streams!streamVars)
  <1> USE DEF Streams!streamVars
  <1>1. ASSUME NEW id \in Ids, NEW k \in RelayKinds, Emit(id, k)
        PROVE  [Streams!Next]_(Streams!streamVars)
    <2> DEFINE o == owner[id]
    <2>1. /\ o \in Calls /\ o # None
          /\ emitted' = [emitted EXCEPT ![o] = Append(@, k)]
          /\ k = "EOSE" => \A i \in DOMAIN emitted[o] : emitted[o][i] # "EOSE"
          /\ UNCHANGED <<chunks, pc>>
      BY <1>1 DEF Emit, TypeOK
    <2>2. \A i \in DOMAIN emitted[o] : emitted[o][i] # "CLOSED"
      BY <2>1 DEF SubscribeInv, RelayOrderly
    <2>3. StreamState' = StreamState
      BY <2>1 DEF StreamState
    <2>4. Streams!Send(o, k)
      BY <2>1, <2>2, <2>3 DEF Streams!Send
    <2> QED
      BY <2>1, <2>4 DEF Streams!Next, RelayKinds
  <1>2. CASE (\E c \in Calls : Abort(c)) \/ ForeignTraffic \/ PoolShutdown
    BY <1>2 DEF Abort, ForeignTraffic, PoolShutdown, StreamState
  <1> QED
    BY <1>1, <1>2 DEF Environment

\* proxy.rs:232-299.  The subscribe tool, with its shared pool, fresh ids and
\* lossy buffers, gives every client what an upstream connection of its own
\* behind a lossy link would: it implements PrivateStreams.
THEOREM Refinement == Spec => StreamsSpec
  <1>1. Init => Streams!Init
    BY DEF Init, Streams!Init, StreamState
  <1>2. TypeOK /\ SubscribeInv /\ [Next]_vars => [Streams!Next]_(Streams!streamVars)
    <2> SUFFICES ASSUME TypeOK, SubscribeInv, [Next]_vars
                 PROVE  [Streams!Next]_(Streams!streamVars)
      OBVIOUS
    <2>1. CASE Next
      BY <2>1, RefineTask, RefineEnvironment DEF Next
    <2>2. CASE UNCHANGED vars
      BY <2>2 DEF vars, StreamState, Streams!streamVars
    <2> QED
      BY <2>1, <2>2
  <1> QED
    BY <1>1, <1>2, TypeCorrect, Invariance, PTL DEF Spec, StreamsSpec, Streams!Spec

-----------------------------------------------------------------------------
(* What the refinement is good for.                                        *)

View == INSTANCE PrivateStreams_proofs
          WITH sent <- emitted, got <- chunks, state <- StreamState

\* proxy.rs:232-299.  Every client has what the relay sent for its call, in the
\* order in which it was sent, with at most one EOSE, and with nothing after a
\* CLOSED: PrivateStreams promises that, and the tool implements it.
THEOREM ClientViewTheorem == Spec => []View!StreamsView
  <1>1. Streams!Init => View!Init
    BY DEF Streams!Init, View!Init
  <1>2. [Streams!Next]_(Streams!streamVars) => [View!Next]_(View!streamVars)
    BY DEF Streams!Next, Streams!Send, Streams!Deliver, Streams!TellClosed, Streams!End,
           Streams!streamVars, View!Next, View!Send, View!Deliver, View!TellClosed,
           View!End, View!streamVars
  <1>3. StreamsSpec => View!Spec
    BY <1>1, <1>2, PTL DEF StreamsSpec, Streams!Spec, View!Spec
  <1>4. View!Spec => []View!StreamsView
    BY View!StreamsViewTheorem
  <1> QED
    BY <1>3, <1>4, Refinement, PTL
=============================================================================
