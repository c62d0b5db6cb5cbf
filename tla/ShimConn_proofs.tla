--------------------------- MODULE ShimConn_proofs ---------------------------
(***************************************************************************)
(* TLAPS proofs about one connection of the shim, for any subscription     *)
(* ids, channel capacity and number of requests, publishes and chunks.     *)
(***************************************************************************)
EXTENDS ShimConn, FiniteSetTheorems, TLAPS

-----------------------------------------------------------------------------
(* The inductive invariant.                                                *)

\* The writer has a frame exactly while it sends it, and does nothing before
\* the main loop runs.
WriterFits ==
    /\ held = None <=> writer # "holding"
    /\ main = "start" => writer = "idle"

\* A task has a frame in hand where it sends one, its own.
HandFits ==
    \A t \in Tasks :
        /\ task[t] = "sending" => \E n \in 1..MaxChunks : hand[t] = Chunk(t, n)
        /\ task[t] = "closing" => hand[t] = ClosedFrame(t)
        /\ task[t] \notin {"sending", "closing"} => hand[t] = None

\* Tasks are spawned in order; each has a sub_id.
Spawned ==
    \A t \in Tasks :
        /\ task[t] # "unused" <=> t <= reqs
        /\ t <= reqs => sub[t] \in SubIds

\* What is on the way of t is in order and not yet with the client.
InOrder(t) ==
    /\ got[t] <= sent[t]
    /\ \A k \in Int, n \in 1..MaxChunks : At(t, k, n) => got[t] < n /\ n <= sent[t]
    /\ \A k, l \in Int, m, n \in 1..MaxChunks :
          At(t, k, m) /\ At(t, l, n) => (k < l <=> m < n)

\* Nothing that the client lacks is missing from the way of t.
AllThere(t) ==
    \A n \in 1..MaxChunks :
        got[t] < n /\ n <= sent[t] => \E k \in Int : At(t, k, n)

\* Places from which a task still forwards everything.
Live == {"unused", "calling", "requested", "streaming", "sending"}

\* As long as the client is there: the order for every task, also one that has
\* ended while its chunks are queued, and completeness for a live one.
WayInv(t) ==
    socket = "open" => InOrder(t) /\ (task[t] \in Live => AllThere(t))

ConnInv ==
    /\ TypeOK
    /\ WriterFits /\ HandFits /\ Spawned /\ EveryTaskCancellable
    /\ \A t \in Tasks : WayInv(t)

-----------------------------------------------------------------------------
(* The operators.                                                          *)

\* Frames are told apart by their kind; None is no frame.
LEMMA FrameTypes ==
    /\ \A t \in Tasks, n \in 1..MaxChunks : Chunk(t, n) \in Frames
    /\ \A t \in Tasks : ClosedFrame(t) \in Frames
    /\ \A p \in Pubs : OkFrame(p) \in Frames
    /\ NoticeFrame \in Frames
  BY DEF Frames, Chunk, ClosedFrame, OkFrame, NoticeFrame

LEMMA FramesDiffer ==
    ASSUME NEW t, NEW n
    PROVE  /\ \A u, m : Chunk(t, n) = Chunk(u, m) <=> t = u /\ n = m
           /\ \A u : ClosedFrame(u) # Chunk(t, n)
           /\ \A p : OkFrame(p) # Chunk(t, n)
           /\ NoticeFrame # Chunk(t, n)
  BY DEF Chunk, ClosedFrame, OkFrame, NoticeFrame

\* The bound on all streams bounds each one.
LEMMA RoomToSend ==
    ASSUME TypeOK, NEW t \in Tasks, Cardinality(AllSent) < MaxChunks
    PROVE  sent[t] < MaxChunks
  <1>1. sent[t] \in 0..MaxChunks /\ MaxChunks \in Nat /\ MaxReqs \in Nat
    BY ConnAssumption DEF TypeOK
  <1> SUFFICES ASSUME sent[t] = MaxChunks PROVE FALSE
    BY <1>1
  <1> DEFINE N == 1..MaxChunks
             f == [n \in N |-> <<t, n>>]
  <1>2. IsFiniteSet(N) /\ Cardinality(N) = MaxChunks
    BY <1>1, FS_Interval
  <1>3. IsFiniteSet(Tasks)
    BY <1>1, FS_Interval DEF Tasks
  <1>4. IsFiniteSet(Tasks \X N)
    BY <1>2, <1>3, FS_Product
  <1>5. AllSent \subseteq Tasks \X N
    BY DEF AllSent
  <1>6. IsFiniteSet(AllSent)
    BY <1>4, <1>5, FS_Subset
  <1>7. \A n \in N : f[n] \in AllSent
    BY <1>1 DEF AllSent
  <1>8. f \in Injection(N, AllSent)
    BY <1>7 DEF Injection, IsInjective
  <1>9. Cardinality(N) <= Cardinality(AllSent)
    BY <1>6, <1>8, FS_Injection
  <1>10. Cardinality(AllSent) \in Nat
    BY <1>6, FS_CardinalityType
  <1> QED
    BY <1>1, <1>2, <1>9, <1>10

\* A frame fits in a channel with room.
LEMMA AppendFits ==
    ASSUME TypeOK, CanSend, NEW f \in Frames
    PROVE  Append(chan, f) \in Seq(Frames) /\ Len(Append(chan, f)) <= OutboundBuf
  <1>1. chan \in Seq(Frames) /\ Len(chan) < OutboundBuf /\ OutboundBuf \in Nat
    BY ConnAssumption DEF TypeOK, CanSend
  <1>2. Append(chan, f) \in Seq(Frames) /\ Len(Append(chan, f)) = Len(chan) + 1
        /\ Len(chan) \in Nat
    BY <1>1
  <1> QED
    BY <1>1, <1>2

-----------------------------------------------------------------------------
(* Types.                                                                  *)

Values == (1..MaxChunks) \cup {StreamEnd, StreamErr}

LEMMA MainType ==
    ASSUME ConnInv, MainStep
    PROVE  TypeOK'
  <1> USE DEF connVars, wireVars, taskVars, serverVars
  <1>1. TypeOK
    BY DEF ConnInv
  <1>2. CASE Refuse \/ Accept \/ Join
    BY <1>1, <1>2 DEF Refuse, Accept, Join, TypeOK
  <1>3. CASE SendNotice
    <2>1. chan' \in Seq(Frames) /\ Len(chan') <= OutboundBuf
      BY <1>1, <1>3, AppendFits, FrameTypes DEF SendNotice, TypeOK
    <2> QED
      BY <1>1, <1>3, <2>1 DEF SendNotice, TypeOK
  <1>4. CASE Cleanup
    BY <1>1, <1>4 DEF Cleanup, NotifiedAll, TypeOK
  <1> QED
    BY <1>2, <1>3, <1>4 DEF MainStep

LEMMA ClientType ==
    ASSUME ConnInv, ClientFrame
    PROVE  TypeOK'
  <1> USE DEF connVars, wireVars, taskVars, serverVars
  <1>1. TypeOK /\ MaxReqs \in Nat /\ MaxOthers \in Nat
    BY ConnAssumption DEF ConnInv
  <1>2. ASSUME NEW s \in SubIds, ReadReq(s) PROVE TypeOK'
    <2>1. reqs + 1 \in Tasks /\ reqs' \in 0..MaxReqs
      BY <1>1, <1>2 DEF ReadReq, TypeOK, Tasks
    <2>2. permit' \in [Tasks -> BOOLEAN]
      BY <1>1, <1>2 DEF ReadReq, Notified, TypeOK
    <2>3. task' \in [Tasks -> TaskPCs] /\ sub' \in [Tasks -> SubIds \cup {None}]
          /\ subs' \in [SubIds -> Tasks \cup {None}]
      BY <1>1, <1>2, <2>1 DEF ReadReq, TypeOK, TaskPCs
    <2> QED
      BY <1>1, <1>2, <2>1, <2>2, <2>3 DEF ReadReq, TypeOK
  <1>3. ASSUME NEW s \in SubIds, ReadClose(s) PROVE TypeOK'
    BY <1>1, <1>3 DEF ReadClose, Notified, TypeOK
  <1>4. CASE ReadEvent
    <2>1. pubs' \in Nat /\ pubs' + notices <= MaxOthers
      BY <1>1, <1>4 DEF ReadEvent, TypeOK
    <2>2. pub' \in [Pubs -> {"unused", "calling", "sending", "ended"}]
      BY <1>1, <1>4 DEF ReadEvent, TypeOK
    <2> QED
      BY <1>1, <1>4, <2>1, <2>2 DEF ReadEvent, TypeOK
  <1>5. CASE ReadOther
    <2>1. notices' \in Nat /\ pubs + notices' <= MaxOthers
      BY <1>1, <1>5 DEF ReadOther, TypeOK
    <2> QED
      BY <1>1, <1>5, <2>1 DEF ReadOther, TypeOK
  <1> QED
    BY <1>2, <1>3, <1>4, <1>5 DEF ClientFrame

LEMMA WriterType ==
    ASSUME ConnInv, WriterStep
    PROVE  TypeOK'
  <1> USE DEF connVars, wireVars, taskVars, serverVars
  <1>1. TypeOK
    BY DEF ConnInv
  <1>2. CASE WriterTake
    <2>1. chan \in Seq(Frames) /\ chan # <<>> /\ Len(chan) <= OutboundBuf /\ OutboundBuf \in Nat
      BY <1>1, <1>2, ConnAssumption DEF WriterTake, TypeOK
    <2>2. Head(chan) \in Frames /\ Tail(chan) \in Seq(Frames) /\ Len(Tail(chan)) = Len(chan) - 1
          /\ Len(chan) \in Nat
      BY <2>1
    <2>3. Len(Tail(chan)) <= OutboundBuf
      BY <2>1, <2>2
    <2> QED
      BY <1>1, <1>2, <2>2, <2>3 DEF WriterTake, TypeOK
  <1>3. CASE WriterSent
    <2>1. got' \in [Tasks -> 0..MaxChunks]
      <3>1. CASE socket = "open" /\ held.kind = "chunk"
        <4>1. held \in Frames
          BY <1>1, <1>3 DEF WriterSent, ConnInv, WriterFits, TypeOK
        <4>2. PICK t \in Tasks, n \in 1..MaxChunks : held = Chunk(t, n)
          BY <3>1, <4>1 DEF Frames, Chunk
        <4>3. Len(chan) \in Nat /\ got[t] \in Nat /\ MaxChunks \in Nat
          BY <1>1, ConnAssumption DEF TypeOK
        <4>4. At(t, -(Len(chan) + 1), n) /\ -(Len(chan) + 1) \in Int
          BY <4>2, <4>3 DEF At
        <4>5. got[t] < n
          BY <3>1, <4>4 DEF ConnInv, WayInv, InOrder
        <4>6. got[t] + 1 \in 0..MaxChunks
          BY <4>3, <4>5
        <4>7. held.of = t
          BY <4>2 DEF Chunk
        <4> QED
          BY <1>1, <1>3, <3>1, <4>6, <4>7 DEF WriterSent, TypeOK
      <3>2. CASE ~(socket = "open" /\ held.kind = "chunk")
        BY <1>1, <1>3, <3>2 DEF WriterSent, TypeOK
      <3> QED
        BY <3>1, <3>2
    <2>2. okd' \subseteq Pubs
      <3>1. held \in Frames
        BY <1>1, <1>3 DEF WriterSent, ConnInv, WriterFits, TypeOK
      <3>2. held.kind = "OK" => held.of \in Pubs
        BY <3>1 DEF Frames
      <3> QED
        BY <1>1, <1>3, <3>2 DEF WriterSent, TypeOK
    <2> QED
      BY <1>1, <1>3, <2>1, <2>2 DEF WriterSent, TypeOK
  <1>4. CASE WriterBreak
    BY <1>1, <1>4 DEF WriterBreak, TypeOK
  <1>5. CASE WriterEnd
    <2>1. chan' \in Seq(Frames) /\ Len(chan') <= OutboundBuf
      BY <1>5, ConnAssumption DEF WriterEnd
    <2> QED
      BY <1>1, <1>5, <2>1 DEF WriterEnd, TypeOK
  <1> QED
    BY <1>2, <1>3, <1>4, <1>5 DEF WriterStep

LEMMA TaskType ==
    ASSUME ConnInv, NEW t \in Tasks, TaskStep(t)
    PROVE  TypeOK'
  <1> USE DEF connVars, wireVars, taskVars, serverVars
  <1>1. TypeOK
    BY DEF ConnInv
  <1>2. inbox[t] \in Seq(Values) /\ <<>> \in Seq(Values)
    BY <1>1 DEF TypeOK, Values
  <1>3. CASE SetupRequest(t)
    BY <1>1, <1>3 DEF SetupRequest, TypeOK, TaskPCs
  <1>4. CASE SetupOk(t)
    BY <1>1, <1>4 DEF SetupOk, TypeOK, TaskPCs
  <1>5. CASE SetupErr(t)
    BY <1>1, <1>2, <1>5, FrameTypes DEF SetupErr, TypeOK, TaskPCs, Values
  <1>6. CASE SetupCancelled(t)
    BY <1>1, <1>2, <1>6 DEF SetupCancelled, TypeOK, TaskPCs, Values
  <1>7. CASE TakeChunk(t)
    <2>1. Tail(inbox[t]) \in Seq(Values)
      BY <1>2, <1>7 DEF TakeChunk
    <2>2. Chunk(t, Head(inbox[t])) \in Frames
      BY <1>7, FrameTypes DEF TakeChunk
    <2> QED
      BY <1>1, <1>7, <2>1, <2>2 DEF TakeChunk, TypeOK, TaskPCs, Values
  <1>8. CASE TakeEnd(t)
    <2>1. inbox' \in [Tasks -> Seq(Values)]
      BY <1>1, <1>2, <1>8 DEF TakeEnd, TypeOK, Values
    <2>2. hand' \in [Tasks -> Frames \cup {None}] /\ task' \in [Tasks -> TaskPCs]
      BY <1>1, <1>8, FrameTypes DEF TakeEnd, TypeOK, TaskPCs
    <2> QED
      BY <1>1, <1>8, <2>1, <2>2 DEF TakeEnd, TypeOK, Values
  <1>9. CASE SendChunk(t)
    <2>1. hand[t] \in Frames
      BY <1>9, FrameTypes DEF SendChunk, ConnInv, HandFits
    <2>2. chan' \in Seq(Frames) /\ Len(chan') <= OutboundBuf
      BY <1>1, <1>9, <2>1, AppendFits DEF SendChunk, TypeOK
    <2>3. inbox' \in [Tasks -> Seq(Values)]
      BY <1>1, <1>2, <1>9 DEF SendChunk, TypeOK, Values
    <2>4. hand' \in [Tasks -> Frames \cup {None}] /\ task' \in [Tasks -> TaskPCs]
      BY <1>1, <1>9 DEF SendChunk, TypeOK, TaskPCs
    <2> QED
      BY <1>1, <1>9, <2>2, <2>3, <2>4 DEF SendChunk, TypeOK, Values
  <1>10. CASE SendClosed(t)
    <2>1. hand[t] \in Frames
      BY <1>10, FrameTypes DEF SendClosed, ConnInv, HandFits
    <2>2. chan' \in Seq(Frames) /\ Len(chan') <= OutboundBuf
      BY <1>1, <1>10, <2>1, AppendFits DEF SendClosed, TypeOK
    <2> QED
      BY <1>1, <1>10, <2>2 DEF SendClosed, TypeOK, TaskPCs
  <1>11. CASE StreamCancelled(t)
    BY <1>1, <1>2, <1>11 DEF StreamCancelled, TypeOK, TaskPCs, Values
  <1>12. CASE CancelReturns(t)
    BY <1>1, <1>12 DEF CancelReturns, TypeOK, TaskPCs
  <1> QED
    BY <1>3, <1>4, <1>5, <1>6, <1>7, <1>8, <1>9, <1>10, <1>11, <1>12
       DEF TaskStep, TaskRuns, TaskAnswered

LEMMA PublishType ==
    ASSUME ConnInv, NEW p \in Pubs, PublishStep(p)
    PROVE  TypeOK'
  <1> USE DEF connVars, wireVars, taskVars, serverVars
  <1>1. TypeOK
    BY DEF ConnInv
  <1>2. CASE PublishReply(p)
    BY <1>1, <1>2 DEF PublishReply, TypeOK
  <1>3. CASE SendOk(p)
    <2>1. chan' \in Seq(Frames) /\ Len(chan') <= OutboundBuf
      BY <1>1, <1>3, AppendFits, FrameTypes DEF SendOk, TypeOK
    <2> QED
      BY <1>1, <1>3, <2>1 DEF SendOk, TypeOK
  <1> QED
    BY <1>2, <1>3 DEF PublishStep

LEMMA EnvironmentType ==
    ASSUME ConnInv, Environment
    PROVE  TypeOK'
  <1> USE DEF connVars, wireVars, taskVars, serverVars
  <1>1. TypeOK
    BY DEF ConnInv
  <1>2. CASE Disconnect
    BY <1>1, <1>2 DEF Disconnect, TypeOK
  <1>3. ASSUME NEW t \in Tasks, ServerChunk(t) PROVE TypeOK'
    <2>1. sent[t] < MaxChunks /\ sent[t] \in 0..MaxChunks /\ MaxChunks \in Nat
      BY <1>1, <1>3, RoomToSend, ConnAssumption DEF ServerChunk, TypeOK
    <2>2. sent[t] + 1 \in 1..MaxChunks
      BY <2>1
    <2>3. inbox[t] \in Seq(Values)
      BY <1>1 DEF TypeOK, Values
    <2>4. Append(inbox[t], sent[t] + 1) \in Seq(Values)
      BY <2>2, <2>3 DEF Values
    <2>5. inbox' \in [Tasks -> Seq(Values)]
      BY <1>1, <1>3, <2>4 DEF ServerChunk, TypeOK, Values
    <2>6. sent' \in [Tasks -> 0..MaxChunks]
      BY <1>1, <1>3, <2>2 DEF ServerChunk, TypeOK
    <2> QED
      BY <1>1, <1>3, <2>5, <2>6 DEF ServerChunk, TypeOK, Values
  <1>4. ASSUME NEW t \in Tasks, ServerEnd(t) PROVE TypeOK'
    <2>1. inbox[t] \in Seq(Values)
      BY <1>1 DEF TypeOK, Values
    <2>2. \A x \in {StreamEnd, StreamErr} : Append(inbox[t], x) \in Seq(Values)
      BY <2>1 DEF Values
    <2>3. inbox' \in [Tasks -> Seq(Values)]
      BY <1>1, <1>4, <2>2 DEF ServerEnd, TypeOK, Values
    <2> QED
      BY <1>1, <1>4, <2>3 DEF ServerEnd, TypeOK, Values
  <1> QED
    BY <1>2, <1>3, <1>4 DEF Environment

LEMMA TypeKept == ConnInv /\ [Next]_vars => TypeOK'
  <1>1. ASSUME ConnInv, UNCHANGED vars PROVE TypeOK'
    BY <1>1 DEF ConnInv, vars, TypeOK
  <1> QED
    BY <1>1, MainType, ClientType, WriterType, TaskType, PublishType, EnvironmentType DEF Next

-----------------------------------------------------------------------------
(* The writer, the hands, the entries of subs.                             *)

LEMMA WriterKept ==
    ASSUME ConnInv, [Next]_vars
    PROVE  WriterFits'
  <1> USE DEF connVars, wireVars, taskVars, serverVars
  <1>1. CASE WriterStep
    <2>1. CASE WriterTake
      <3>1. chan \in Seq(Frames) /\ chan # <<>>
        BY <2>1 DEF WriterTake, ConnInv, TypeOK
      <3>2. Head(chan) # None
        BY <3>1, ConnAssumption
      <3> QED
        BY <2>1, <3>2 DEF WriterTake, WriterFits
    <2>2. CASE WriterSent \/ WriterBreak \/ WriterEnd
      BY <2>2 DEF WriterSent, WriterBreak, WriterEnd, ConnInv, WriterFits
    <2> QED
      BY <1>1, <2>1, <2>2 DEF WriterStep
  <1>2. CASE MainStep
    BY <1>2 DEF MainStep, Refuse, Accept, SendNotice, Cleanup, Join, ConnInv, WriterFits
  <1>3. CASE ClientFrame
    BY <1>3 DEF ClientFrame, ReadReq, ReadClose, ReadEvent, ReadOther, ConnInv, WriterFits
  <1>4. ASSUME NEW t \in Tasks, TaskStep(t) PROVE WriterFits'
    BY <1>4 DEF TaskStep, TaskRuns, TaskAnswered, SetupRequest, SetupOk, SetupErr,
                SetupCancelled, TakeChunk, TakeEnd,
                SendChunk, SendClosed, StreamCancelled, CancelReturns, ConnInv, WriterFits
  <1>5. ASSUME NEW p \in Pubs, PublishStep(p) PROVE WriterFits'
    BY <1>5 DEF PublishStep, PublishReply, SendOk, ConnInv, WriterFits
  <1>6. CASE Environment
    BY <1>6 DEF Environment, Disconnect, ServerChunk, ServerEnd, ConnInv, WriterFits
  <1>7. CASE UNCHANGED vars
    BY <1>7 DEF vars, ConnInv, WriterFits
  <1> QED
    BY <1>1, <1>2, <1>3, <1>4, <1>5, <1>6, <1>7 DEF Next

\* What a step that is none of the tasks' leaves alone.
LEMMA TasksUntouched ==
    ASSUME ConnInv,
           \/ MainStep \/ WriterStep \/ Environment \/ UNCHANGED vars
           \/ \E s \in SubIds : ReadClose(s)
           \/ ReadEvent \/ ReadOther
           \/ \E p \in Pubs : PublishStep(p)
    PROVE  UNCHANGED <<task, hand, sub, reqs>>
  <1> USE DEF connVars, wireVars, taskVars, serverVars
  <1>1. CASE MainStep
    BY <1>1 DEF MainStep, Refuse, Accept, SendNotice, Cleanup, Join
  <1>2. CASE WriterStep
    BY <1>2 DEF WriterStep, WriterTake, WriterSent, WriterBreak, WriterEnd
  <1>3. CASE Environment
    BY <1>3 DEF Environment, Disconnect, ServerChunk, ServerEnd
  <1>4. CASE UNCHANGED vars
    BY <1>4 DEF vars
  <1>5. CASE (\E s \in SubIds : ReadClose(s)) \/ ReadEvent \/ ReadOther
    BY <1>5 DEF ReadClose, ReadEvent, ReadOther
  <1>6. CASE \E p \in Pubs : PublishStep(p)
    BY <1>6 DEF PublishStep, PublishReply, SendOk
  <1> QED
    BY <1>1, <1>2, <1>3, <1>4, <1>5, <1>6

\* A task's own step changes its own place and hand only.
LEMMA TaskSteps ==
    ASSUME ConnInv, NEW t \in Tasks, TaskStep(t)
    PROVE  /\ UNCHANGED <<sub, permit, subs, reqs, main, socket, got, sent, held>>
           /\ \A u \in Tasks \ {t} : task'[u] = task[u] /\ hand'[u] = hand[u]
                                       /\ inbox'[u] = inbox[u]
           /\ task[t] # "unused" /\ task'[t] # "unused"
           /\ task[t] \notin Gone
  <1> USE DEF connVars, wireVars, taskVars, serverVars, Gone
  <1>1. TypeOK
    BY DEF ConnInv
  <1>2. CASE SetupRequest(t) \/ SetupOk(t)
    BY <1>1, <1>2 DEF SetupRequest, SetupOk, TypeOK
  <1>3. CASE SetupErr(t) \/ SetupCancelled(t)
    BY <1>1, <1>3 DEF SetupErr, SetupCancelled, TypeOK
  <1>4. CASE TakeChunk(t)
    BY <1>1, <1>4 DEF TakeChunk, TypeOK
  <1>5. CASE TakeEnd(t)
    BY <1>1, <1>5 DEF TakeEnd, TypeOK
  <1>6. CASE SendChunk(t)
    BY <1>1, <1>6 DEF SendChunk, TypeOK
  <1>7. CASE SendClosed(t) \/ StreamCancelled(t)
    BY <1>1, <1>7 DEF SendClosed, StreamCancelled, TypeOK
  <1>8. CASE CancelReturns(t)
    BY <1>1, <1>8 DEF CancelReturns, TypeOK
  <1> QED
    BY <1>2, <1>3, <1>4, <1>5, <1>6, <1>7, <1>8 DEF TaskStep, TaskRuns, TaskAnswered

LEMMA HandKept ==
    ASSUME ConnInv, [Next]_vars
    PROVE  HandFits'
  <1> USE DEF connVars, wireVars, taskVars, serverVars
  <1>1. TypeOK /\ HandFits
    BY DEF ConnInv
  <1>2. ASSUME NEW t \in Tasks, TaskStep(t) PROVE HandFits'
    <2>1. \A u \in Tasks \ {t} : task'[u] = task[u] /\ hand'[u] = hand[u]
      BY <1>2, TaskSteps
    <2>2. \/ task'[t] = "sending" /\ \E n \in 1..MaxChunks : hand'[t] = Chunk(t, n)
          \/ task'[t] = "closing" /\ hand'[t] = ClosedFrame(t)
          \/ task'[t] \notin {"sending", "closing"} /\ hand'[t] = None
      <3>1. CASE TakeChunk(t)
        BY <1>1, <3>1 DEF TakeChunk, TypeOK
      <3>2. CASE SetupErr(t)
        BY <1>1, <3>2 DEF SetupErr, TypeOK
      <3>3. CASE TakeEnd(t)
        <4>1. hand[t] = None
          BY <1>1, <3>3 DEF TakeEnd, HandFits
        <4> QED
          BY <1>1, <3>3, <4>1 DEF TakeEnd, TypeOK
      <3>4. CASE SendChunk(t) \/ SendClosed(t)
        BY <1>1, <3>4 DEF SendChunk, SendClosed, TypeOK
      <3>5. CASE SetupRequest(t) \/ SetupOk(t) \/ SetupCancelled(t) \/ StreamCancelled(t)
                 \/ CancelReturns(t)
        <4>1. hand[t] = None /\ hand' = hand
          BY <1>1, <3>5 DEF SetupRequest, SetupOk, SetupCancelled, StreamCancelled, CancelReturns,
                               HandFits
        <4>2. task'[t] \notin {"sending", "closing"}
          BY <1>1, <3>5 DEF SetupRequest, SetupOk, SetupCancelled, StreamCancelled, CancelReturns,
                               TypeOK
        <4> QED
          BY <4>1, <4>2
      <3> QED
        BY <1>2, <3>1, <3>2, <3>3, <3>4, <3>5 DEF TaskStep, TaskRuns, TaskAnswered
    <2> QED
      BY <1>1, <2>1, <2>2 DEF HandFits
  <1>3. ASSUME NEW s \in SubIds, ReadReq(s) PROVE HandFits'
    <2>1. task[reqs + 1] = "unused" \/ reqs + 1 \notin Tasks
      BY <1>1 DEF ConnInv, Spawned, TypeOK, TaskPCs
    <2> QED
      BY <1>1, <1>3, <2>1 DEF ReadReq, HandFits, TypeOK
  <1>4. CASE UNCHANGED <<task, hand, sub, reqs>>
    BY <1>1, <1>4 DEF HandFits
  <1> QED
    BY <1>2, <1>3, <1>4, TasksUntouched DEF Next, ClientFrame

LEMMA SpawnedKept ==
    ASSUME ConnInv, [Next]_vars
    PROVE  Spawned'
  <1>1. TypeOK /\ Spawned
    BY DEF ConnInv
  <1>2. ASSUME NEW t \in Tasks, TaskStep(t) PROVE Spawned'
    BY <1>1, <1>2, TaskSteps DEF Spawned
  <1>3. ASSUME NEW s \in SubIds, ReadReq(s) PROVE Spawned'
    <2> SUFFICES ASSUME NEW u \in Tasks
                 PROVE  /\ task'[u] # "unused" <=> u <= reqs'
                        /\ u <= reqs' => sub'[u] \in SubIds
      BY DEF Spawned
    <2>1. reqs \in Nat /\ u \in Nat /\ reqs' = reqs + 1
      BY <1>1, <1>3, ConnAssumption DEF ReadReq, TypeOK, Tasks
    <2>2. CASE u = reqs + 1
      BY <1>1, <1>3, <2>1, <2>2 DEF ReadReq, TypeOK
    <2>3. CASE u # reqs + 1
      <3>1. task'[u] = task[u] /\ sub'[u] = sub[u]
        BY <1>1, <1>3, <2>3 DEF ReadReq, TypeOK
      <3>2. u <= reqs' <=> u <= reqs
        BY <2>1, <2>3
      <3> QED
        BY <1>1, <3>1, <3>2 DEF Spawned
    <2> QED
      BY <2>2, <2>3
  <1>4. CASE UNCHANGED <<task, hand, sub, reqs>>
    BY <1>1, <1>4 DEF Spawned
  <1> QED
    BY <1>2, <1>3, <1>4, TasksUntouched DEF Next, ClientFrame

LEMMA CancellableKept ==
    ASSUME ConnInv, [Next]_vars
    PROVE  EveryTaskCancellable'
  <1> USE DEF connVars, wireVars, taskVars, serverVars
  <1>1. TypeOK /\ Spawned /\ EveryTaskCancellable /\ reqs \in Nat
    BY DEF ConnInv, TypeOK
  <1> SUFFICES ASSUME NEW u \in Tasks, task'[u] \notin Gone \cup {"unused"}, ~permit'[u]
               PROVE  main' \in {"loop", "notice"} /\ subs'[sub'[u]] = u
    BY DEF EveryTaskCancellable
  <1>2. ASSUME UNCHANGED <<sub, permit, subs>>, task[u] \notin Gone \cup {"unused"},
               main \in {"loop", "notice"} => main' \in {"loop", "notice"}
        PROVE  main' \in {"loop", "notice"} /\ subs'[sub'[u]] = u
    BY <1>1, <1>2 DEF EveryTaskCancellable
  <1>3. ASSUME NEW t \in Tasks, TaskStep(t)
        PROVE  main' \in {"loop", "notice"} /\ subs'[sub'[u]] = u
    <2>1. task[u] \notin Gone \cup {"unused"}
      BY <1>3, TaskSteps
    <2> QED
      BY <1>2, <1>3, <2>1, TaskSteps
  <1>4. ASSUME task[u] \notin Gone \cup {"unused"} PROVE sub[u] \in SubIds
    BY <1>1, <1>4 DEF Spawned
  <1>5. ASSUME NEW s \in SubIds, ReadReq(s)
        PROVE  main' \in {"loop", "notice"} /\ subs'[sub'[u]] = u
    <2>1. main' = "loop" /\ permit' = Notified(s) /\ subs' = [subs EXCEPT ![s] = reqs + 1]
          /\ task' = [task EXCEPT ![reqs + 1] = "calling"]
          /\ sub' = [sub EXCEPT ![reqs + 1] = s]
      BY <1>5 DEF ReadReq
    <2>2. CASE u = reqs + 1
      BY <1>1, <2>1, <2>2 DEF TypeOK
    <2>3. CASE u # reqs + 1
      <3>1. task[u] \notin Gone \cup {"unused"} /\ sub'[u] = sub[u]
        BY <1>1, <2>1, <2>3 DEF TypeOK
      <3>2. ~permit[u] /\ subs[s] # u
        BY <2>1 DEF Notified
      <3>3. subs[sub[u]] = u /\ sub[u] \in SubIds
        BY <1>1, <1>4, <3>1, <3>2 DEF EveryTaskCancellable
      <3> QED
        BY <1>1, <2>1, <3>1, <3>2, <3>3 DEF TypeOK
    <2> QED
      BY <2>2, <2>3
  <1>6. ASSUME NEW s \in SubIds, ReadClose(s)
        PROVE  main' \in {"loop", "notice"} /\ subs'[sub'[u]] = u
    <2>1. main' = "loop" /\ permit' = Notified(s) /\ subs' = [subs EXCEPT ![s] = None]
          /\ task' = task /\ sub' = sub
      BY <1>6 DEF ReadClose
    <2>2. ~permit[u] /\ subs[s] # u
      BY <2>1 DEF Notified
    <2>3. subs[sub[u]] = u /\ sub[u] \in SubIds
      BY <1>1, <1>4, <2>1, <2>2 DEF EveryTaskCancellable
    <2> QED
      BY <1>1, <2>1, <2>2, <2>3 DEF TypeOK
  <1>7. CASE Cleanup
    <2>1. task' = task /\ permit' = NotifiedAll
      BY <1>7 DEF Cleanup
    <2>2. ~permit[u] /\ \A s \in SubIds : subs[s] # u
      BY <2>1 DEF NotifiedAll
    <2> QED
      BY <1>1, <1>4, <2>1, <2>2 DEF EveryTaskCancellable
  <1>8. CASE Refuse \/ Accept \/ SendNotice \/ Join
    BY <1>1, <1>2, <1>8 DEF Refuse, Accept, SendNotice, Join, EveryTaskCancellable
  <1>9. CASE ReadEvent \/ ReadOther
    BY <1>2, <1>9 DEF ReadEvent, ReadOther
  <1>10. CASE WriterStep
    BY <1>2, <1>10 DEF WriterStep, WriterTake, WriterSent, WriterBreak, WriterEnd
  <1>11. ASSUME NEW p \in Pubs, PublishStep(p)
         PROVE  main' \in {"loop", "notice"} /\ subs'[sub'[u]] = u
    BY <1>2, <1>11 DEF PublishStep, PublishReply, SendOk
  <1>12. CASE Environment
    BY <1>2, <1>12 DEF Environment, Disconnect, ServerChunk, ServerEnd
  <1>13. CASE UNCHANGED vars
    BY <1>2, <1>13 DEF vars
  <1> QED
    BY <1>3, <1>5, <1>6, <1>7, <1>8, <1>9, <1>10, <1>11, <1>12, <1>13
       DEF Next, MainStep, ClientFrame

-----------------------------------------------------------------------------
(* The way of a task's chunks.                                             *)

\* Lengths, and the places that can be taken.
LEMMA Lengths ==
    ASSUME TypeOK, NEW t \in Tasks
    PROVE  /\ Len(chan) \in Nat /\ Len(inbox[t]) \in Nat
           /\ got[t] \in Nat /\ sent[t] \in Nat /\ MaxChunks \in Nat
           /\ \A n \in 1..MaxChunks : Chunk(t, n) # None
  BY ConnAssumption, FrameTypes DEF TypeOK

LEMMA AtRange ==
    ASSUME TypeOK, NEW t \in Tasks, NEW k \in Int, NEW n \in 1..MaxChunks, At(t, k, n)
    PROVE  k >= -(Len(chan) + 1) /\ k <= Len(inbox[t])
  BY Lengths DEF At

\* A step after which the chunks of t are at places that f takes back to where
\* they were, in the same order.
LEMMA WayMoved ==
    ASSUME ConnInv, NEW t \in Tasks, NEW f \in [Int -> Int],
           got'[t] = got[t], sent'[t] = sent[t], socket' = "open" => socket = "open",
           task'[t] \in Live => task[t] \in Live,
           \A k \in Int, n \in 1..MaxChunks : At(t, k, n)' => At(t, f[k], n),
           \A k, l \in Int, m, n \in 1..MaxChunks :
              At(t, k, m)' /\ At(t, l, n)' => (k < l <=> f[k] < f[l]),
           task'[t] \in Live =>
              \A k \in Int, n \in 1..MaxChunks : At(t, k, n) => \E l \in Int : At(t, l, n)'
    PROVE  WayInv(t)'
  <1> SUFFICES ASSUME socket' = "open"
               PROVE  InOrder(t)' /\ (task'[t] \in Live => AllThere(t)')
    BY DEF WayInv
  <1>1. InOrder(t) /\ (task[t] \in Live => AllThere(t))
    BY DEF ConnInv, WayInv
  <1>2. \A k \in Int : f[k] \in Int
    OBVIOUS
  <1>3. InOrder(t)'
    <2>1. ASSUME NEW k \in Int, NEW n \in 1..MaxChunks, At(t, k, n)'
          PROVE  got'[t] < n /\ n <= sent'[t]
      BY <1>1, <1>2, <2>1 DEF InOrder
    <2>2. ASSUME NEW k \in Int, NEW l \in Int, NEW m \in 1..MaxChunks, NEW n \in 1..MaxChunks,
                 At(t, k, m)', At(t, l, n)'
          PROVE  k < l <=> m < n
      <3>1. At(t, f[k], m) /\ At(t, f[l], n) /\ f[k] \in Int /\ f[l] \in Int
        BY <1>2, <2>2
      <3>2. f[k] < f[l] <=> m < n
        BY <1>1, <3>1 DEF InOrder
      <3> QED
        BY <2>2, <3>2
    <2> QED
      BY <1>1, <2>1, <2>2 DEF InOrder
  <1>4. ASSUME task'[t] \in Live PROVE AllThere(t)'
    <2>1. AllThere(t)
      BY <1>1, <1>4
    <2> SUFFICES ASSUME NEW n \in 1..MaxChunks, got'[t] < n, n <= sent'[t]
                 PROVE  \E l \in Int : At(t, l, n)'
      BY DEF AllThere
    <2>2. \E k \in Int : At(t, k, n)
      BY <2>1 DEF AllThere
    <2> QED
      BY <1>4, <2>2
  <1> QED
    BY <1>3, <1>4

\* A step that leaves them where they are.
LEMMA WayKept ==
    ASSUME ConnInv, NEW t \in Tasks,
           got'[t] = got[t], sent'[t] = sent[t], socket' = "open" => socket = "open",
           task'[t] \in Live => task[t] \in Live,
           \A k \in Int, n \in 1..MaxChunks : At(t, k, n)' <=> At(t, k, n)
    PROVE  WayInv(t)'
  <1> DEFINE f == [k \in Int |-> k]
  <1>1. f \in [Int -> Int] /\ \A k \in Int : f[k] = k
    OBVIOUS
  <1> HIDE DEF f
  <1>2. \A k \in Int, n \in 1..MaxChunks : At(t, k, n)' => At(t, f[k], n)
    BY <1>1
  <1>3. \A k, l \in Int, m, n \in 1..MaxChunks :
           At(t, k, m)' /\ At(t, l, n)' => (k < l <=> f[k] < f[l])
    BY <1>1
  <1> QED
    BY <1>1, <1>2, <1>3, WayMoved

\* A step that touches none of the places of t.
LEMMA WayStill ==
    ASSUME ConnInv, NEW t \in Tasks,
           got'[t] = got[t], sent'[t] = sent[t], socket' = "open" => socket = "open",
           task'[t] \in Live => task[t] \in Live,
           chan' = chan, held' = held, inbox'[t] = inbox[t], hand'[t] = hand[t]
    PROVE  WayInv(t)'
  <1>1. \A k \in Int, n \in 1..MaxChunks : At(t, k, n)' <=> At(t, k, n)
    BY DEF At
  <1> QED
    BY <1>1, WayKept

\* A task gives up what it has not queued.
LEMMA WayDropped ==
    ASSUME ConnInv, NEW t \in Tasks,
           got'[t] = got[t], sent'[t] = sent[t], socket' = socket, task'[t] \notin Live,
           chan' = chan, held' = held, inbox'[t] = <<>>,
           \A n \in 1..MaxChunks : hand'[t] # Chunk(t, n)
    PROVE  WayInv(t)'
  <1> DEFINE f == [k \in Int |-> k]
  <1>1. f \in [Int -> Int] /\ \A k \in Int : f[k] = k
    OBVIOUS
  <1> HIDE DEF f
  <1>2. \A k \in Int, n \in 1..MaxChunks : At(t, k, n)' => At(t, f[k], n)
    BY <1>1 DEF At
  <1>3. \A k, l \in Int, m, n \in 1..MaxChunks :
           At(t, k, m)' /\ At(t, l, n)' => (k < l <=> f[k] < f[l])
    BY <1>1
  <1> QED
    BY <1>1, <1>2, <1>3, WayMoved

\* A frame is queued, from the hand of t or from elsewhere: what is in the
\* channel moves one place on.
LEMMA WayQueued ==
    ASSUME ConnInv, NEW t \in Tasks, NEW fr \in Frames,
           got'[t] = got[t], sent'[t] = sent[t], socket' = socket,
           task'[t] \in Live => task[t] \in Live,
           chan' = Append(chan, fr), held' = held, inbox'[t] = inbox[t],
           \/ fr = hand[t] /\ hand'[t] = None
           \/ hand'[t] = hand[t] /\ \A n \in 1..MaxChunks : fr # Chunk(t, n)
    PROVE  WayInv(t)'
  <1> DEFINE L == Len(chan)
             f == [k \in Int |-> IF k < 0 THEN k + 1 ELSE k]
  <1>1. TypeOK /\ chan \in Seq(Frames)
    BY DEF ConnInv, TypeOK
  <1>2. L \in Nat /\ \A n \in 1..MaxChunks : Chunk(t, n) # None
    BY <1>1, Lengths
  <1>3. Len(chan') = L + 1 /\ chan'[L + 1] = fr /\ \A i \in 1..L : chan'[i] = chan[i]
    BY <1>1
  <1>4. f \in [Int -> Int] /\ \A k \in Int : f[k] = IF k < 0 THEN k + 1 ELSE k
    OBVIOUS
  <1> HIDE DEF L, f
  <1>5. ASSUME NEW k \in Int, NEW n \in 1..MaxChunks, k > 0
        PROVE  At(t, k, n)' <=> At(t, k, n)
    BY <1>2, <1>3, <1>5 DEF At, L
  <1>6. ASSUME NEW n \in 1..MaxChunks
        PROVE  /\ At(t, 0, n)' <=> hand'[t] = Chunk(t, n)
               /\ At(t, 0, n) <=> hand[t] = Chunk(t, n)
    BY <1>2, <1>3 DEF At, L
  <1>7. ASSUME NEW n \in 1..MaxChunks
        PROVE  At(t, -1, n)' <=> fr = Chunk(t, n)
    BY <1>2, <1>3 DEF At, L
  <1>8. ASSUME NEW k \in Int, NEW n \in 1..MaxChunks, k < -1
        PROVE  At(t, k, n)' <=> At(t, k + 1, n)
    <2>1. -k \in 1..(L + 1) <=> -(k + 1) \in 1..L
      BY <1>2, <1>8
    <2>2. -k = (L + 1) + 1 <=> -(k + 1) = L + 1
      BY <1>2
    <2>3. ASSUME -k \in 1..(L + 1) PROVE chan'[(L + 1) + 1 + k] = chan[L + 1 + (k + 1)]
      <3>1. L + 1 + (k + 1) \in 1..L /\ (L + 1) + 1 + k = L + 1 + (k + 1)
        BY <1>2, <1>8, <2>3
      <3> QED
        BY <1>3, <3>1
    <2>4. At(t, k, n)' <=>
             \/ -k \in 1..(L + 1) /\ chan'[(L + 1) + 1 + k] = Chunk(t, n)
             \/ -k = (L + 1) + 1 /\ held = Chunk(t, n)
      BY <1>3, <1>8 DEF At
    <2>5. At(t, k + 1, n) <=>
             \/ -(k + 1) \in 1..L /\ chan[L + 1 + (k + 1)] = Chunk(t, n)
             \/ -(k + 1) = L + 1 /\ held = Chunk(t, n)
      BY <1>8 DEF At, L
    <2> QED
      BY <2>1, <2>2, <2>3, <2>4, <2>5
  <1>9. \A n \in 1..MaxChunks : At(t, -1, n)' => At(t, 0, n)
    BY <1>6, <1>7
  <1>10. \A m, n \in 1..MaxChunks : ~(At(t, -1, m)' /\ At(t, 0, n)')
    BY <1>2, <1>6, <1>7
  <1>11. ASSUME NEW k \in Int, NEW n \in 1..MaxChunks, At(t, k, n)'
         PROVE  At(t, f[k], n)
    <2>1. CASE k > 0
      <3>1. f[k] = k
        BY <1>4, <2>1
      <3>2. At(t, k, n)
        BY <1>5, <1>11, <2>1
      <3> QED
        BY <3>1, <3>2
    <2>2. CASE k = 0
      BY <1>2, <1>4, <1>6, <1>11, <2>2
    <2>3. CASE k = -1
      BY <1>4, <1>9, <1>11, <2>3
    <2>4. CASE k < -1
      BY <1>4, <1>8, <1>11, <2>4
    <2> QED
      BY <2>1, <2>2, <2>3, <2>4
  <1>12. \A k, l \in Int, m, n \in 1..MaxChunks :
            At(t, k, m)' /\ At(t, l, n)' => (k < l <=> f[k] < f[l])
    BY <1>4, <1>10
  <1>13. ASSUME NEW k \in Int, NEW n \in 1..MaxChunks, At(t, k, n)
         PROVE  \E l \in Int : At(t, l, n)'
    <2>1. CASE k > 0
      BY <1>5, <1>13, <2>1
    <2>2. CASE k = 0
      BY <1>6, <1>7, <1>13, <2>2
    <2>3. CASE k < 0
      <3>1. k - 1 \in Int /\ k - 1 < -1 /\ (k - 1) + 1 = k
        BY <2>3
      <3>2. At(t, k - 1, n)'
        BY <1>8, <1>13, <3>1
      <3> QED
        BY <3>1, <3>2
    <2> QED
      BY <2>1, <2>2, <2>3
  <1> QED
    BY <1>4, <1>11, <1>12, <1>13, WayMoved

\* A task takes its next chunk in hand.
LEMMA WayTaken ==
    ASSUME ConnInv, NEW t \in Tasks, TakeChunk(t)
    PROVE  WayInv(t)'
  <1> DEFINE f == [k \in Int |-> IF k < 0 THEN k ELSE k + 1]
  <1>1. TypeOK /\ hand[t] = None /\ task[t] = "streaming" /\ inbox[t] # <<>>
        /\ hand'[t] = Chunk(t, Head(inbox[t])) /\ inbox'[t] = Tail(inbox[t])
        /\ task'[t] = "sending"
    BY DEF TakeChunk, ConnInv, HandFits, TypeOK
  <1>2. UNCHANGED <<got, sent, socket, chan, held>>
    BY DEF TakeChunk, connVars, wireVars
  <1>3. inbox[t] \in Seq(Values) /\ \A n \in 1..MaxChunks : Chunk(t, n) # None
    BY <1>1, Lengths DEF TypeOK, Values
  <1>4. /\ Len(inbox[t]) \in Nat /\ Len(inbox[t]) >= 1 /\ Head(inbox[t]) = inbox[t][1]
        /\ Len(Tail(inbox[t])) = Len(inbox[t]) - 1
        /\ \A i \in 1..(Len(inbox[t]) - 1) : Tail(inbox[t])[i] = inbox[t][i + 1]
    BY <1>1, <1>3
  <1>5. Len(chan) \in Nat
    BY <1>1, Lengths
  <1>6. f \in [Int -> Int] /\ \A k \in Int : f[k] = IF k < 0 THEN k ELSE k + 1
    OBVIOUS
  <1> HIDE DEF f
  <1>7. ASSUME NEW k \in Int, NEW n \in 1..MaxChunks, k < 0
        PROVE  At(t, k, n)' <=> At(t, k, n)
    BY <1>2, <1>4, <1>5, <1>7 DEF At
  <1>8. ASSUME NEW n \in 1..MaxChunks
        PROVE  At(t, 0, n)' <=> At(t, 1, n)
    <2>1. At(t, 0, n)' <=> hand'[t] = Chunk(t, n)
      BY <1>2, <1>5 DEF At
    <2>2. At(t, 1, n) <=> inbox[t][1] = n
      BY <1>4, <1>5 DEF At
    <2>3. hand'[t] = Chunk(t, n) <=> inbox[t][1] = n
      BY <1>1, <1>4, FramesDiffer
    <2> QED
      BY <2>1, <2>2, <2>3
  <1>9. ASSUME NEW k \in Int, NEW n \in 1..MaxChunks, k > 0
        PROVE  At(t, k, n)' <=> At(t, k + 1, n)
    <2>1. At(t, k, n)' <=> k \in 1..(Len(inbox[t]) - 1) /\ Tail(inbox[t])[k] = n
      BY <1>1, <1>2, <1>4, <1>5, <1>9 DEF At
    <2>2. At(t, k + 1, n) <=> k + 1 \in 1..Len(inbox[t]) /\ inbox[t][k + 1] = n
      BY <1>4, <1>5, <1>9 DEF At
    <2>3. k \in 1..(Len(inbox[t]) - 1) <=> k + 1 \in 1..Len(inbox[t])
      BY <1>4, <1>9
    <2> QED
      BY <1>4, <2>1, <2>2, <2>3
  <1>10. ASSUME NEW n \in 1..MaxChunks PROVE ~At(t, 0, n)
    BY <1>1, <1>3, <1>5 DEF At
  <1>11. ASSUME NEW k \in Int, NEW n \in 1..MaxChunks, At(t, k, n)'
         PROVE  At(t, f[k], n)
    <2>1. CASE k < 0
      <3>1. f[k] = k /\ At(t, k, n)
        BY <1>6, <1>7, <1>11, <2>1
      <3> QED
        BY <3>1
    <2>2. CASE k = 0
      <3>1. f[k] = 1 /\ At(t, 1, n)
        BY <1>6, <1>8, <1>11, <2>2
      <3> QED
        BY <3>1
    <2>3. CASE k > 0
      <3>1. f[k] = k + 1 /\ At(t, k + 1, n)
        BY <1>6, <1>9, <1>11, <2>3
      <3> QED
        BY <3>1
    <2> QED
      BY <2>1, <2>2, <2>3
  <1>12. \A k, l \in Int : k < l <=> f[k] < f[l]
    BY <1>6
  <1>13. ASSUME NEW k \in Int, NEW n \in 1..MaxChunks, At(t, k, n)
         PROVE  \E l \in Int : At(t, l, n)'
    <2>1. CASE k < 0
      BY <1>7, <1>13, <2>1
    <2>2. CASE k = 1
      BY <1>8, <1>13, <2>2
    <2>3. CASE k > 1
      <3>1. k - 1 \in Int /\ k - 1 > 0 /\ (k - 1) + 1 = k
        BY <2>3
      <3>2. At(t, k - 1, n)'
        BY <1>9, <1>13, <3>1
      <3> QED
        BY <3>1, <3>2
    <2>4. k # 0
      BY <1>10, <1>13
    <2> QED
      BY <2>1, <2>2, <2>3, <2>4
  <1> QED
    BY <1>1, <1>2, <1>6, <1>11, <1>12, <1>13, WayMoved DEF Live

\* The writer takes the first frame of the channel: every place stays.
LEMMA WriterTakeWay ==
    ASSUME ConnInv, WriterTake, NEW t \in Tasks
    PROVE  WayInv(t)'
  <1> DEFINE L == Len(chan)
  <1>1. TypeOK /\ held = None /\ chan \in Seq(Frames) /\ chan # <<>>
        /\ chan' = Tail(chan) /\ held' = Head(chan)
    BY DEF WriterTake, ConnInv, WriterFits, TypeOK
  <1>2. UNCHANGED <<got, sent, socket, task, inbox, hand>>
    BY DEF WriterTake, connVars, taskVars, serverVars
  <1>3. /\ L \in Nat /\ L >= 1 /\ held' = chan[1] /\ Len(chan') = L - 1
        /\ \A i \in 1..(L - 1) : chan'[i] = chan[i + 1]
    BY <1>1
  <1>4. \A n \in 1..MaxChunks : held # Chunk(t, n)
    BY <1>1, Lengths
  <1> HIDE DEF L
  <1>5. ASSUME NEW k \in Int, NEW n \in 1..MaxChunks
        PROVE  At(t, k, n)' <=> At(t, k, n)
    <2>1. CASE k >= 0
      BY <1>2, <1>3, <2>1 DEF At, L
    <2>2. CASE k < 0
      <3>1. At(t, k, n)' <=>
               \/ -k \in 1..(L - 1) /\ chan'[(L - 1) + 1 + k] = Chunk(t, n)
               \/ -k = (L - 1) + 1 /\ chan[1] = Chunk(t, n)
        BY <1>2, <1>3, <2>2 DEF At
      <3>2. At(t, k, n) <=> -k \in 1..L /\ chan[L + 1 + k] = Chunk(t, n)
        BY <1>4, <2>2 DEF At, L
      <3>3. ASSUME -k \in 1..(L - 1)
            PROVE  -k \in 1..L /\ chan'[(L - 1) + 1 + k] = chan[L + 1 + k]
        <4>1. L + k \in 1..(L - 1) /\ (L - 1) + 1 + k = L + k /\ (L + k) + 1 = L + 1 + k
          BY <1>3, <2>2, <3>3
        <4> QED
          BY <1>3, <3>3, <4>1
      <3>4. -k = (L - 1) + 1 => -k \in 1..L /\ L + 1 + k = 1
        BY <1>3
      <3>5. -k \in 1..L => -k \in 1..(L - 1) \/ -k = (L - 1) + 1
        BY <1>3
      <3> QED
        BY <3>1, <3>2, <3>3, <3>4, <3>5
    <2> QED
      BY <2>1, <2>2
  <1> QED
    BY <1>2, <1>5, WayKept

\* The writer's frame reaches the client, or is lost with the client.
LEMMA WriterSentWay ==
    ASSUME ConnInv, WriterSent, NEW t \in Tasks
    PROVE  WayInv(t)'
  <1> SUFFICES ASSUME socket = "open"
               PROVE  InOrder(t)' /\ (task'[t] \in Live => AllThere(t)')
    BY DEF WriterSent, WayInv
  <1>1. TypeOK /\ held \in Frames /\ held' = None
    BY DEF WriterSent, ConnInv, WriterFits, TypeOK
  <1>2. UNCHANGED <<sent, socket, task, inbox, hand, chan>>
    BY DEF WriterSent, connVars, taskVars, serverVars
  <1>3. Len(chan) \in Nat /\ got[t] \in Nat /\ sent[t] \in Nat
        /\ \A n \in 1..MaxChunks : Chunk(t, n) # None
    BY <1>1, Lengths
  <1> DEFINE w == -(Len(chan) + 1)
  <1>4. w \in Int
    BY <1>3
  <1>5. ASSUME NEW k \in Int, NEW n \in 1..MaxChunks
        PROVE  At(t, k, n)' <=> At(t, k, n) /\ k # w
    BY <1>1, <1>2, <1>3 DEF At
  <1>6. InOrder(t) /\ (task[t] \in Live => AllThere(t))
    BY DEF ConnInv, WayInv
  <1>7. ASSUME NEW n \in 1..MaxChunks
        PROVE  At(t, w, n) <=> held = Chunk(t, n)
    BY <1>3 DEF At
  <1>8. CASE \E c \in 1..MaxChunks : held = Chunk(t, c)
    <2>1. PICK c \in 1..MaxChunks : held = Chunk(t, c)
      BY <1>8
    <2>2. got'[t] = got[t] + 1
      BY <1>1, <2>1 DEF WriterSent, Chunk, TypeOK
    <2>3. At(t, w, c) /\ got[t] < c /\ c <= sent[t]
      BY <1>4, <1>6, <1>7, <2>1 DEF InOrder
    <2>4. ASSUME NEW k \in Int, NEW n \in 1..MaxChunks, At(t, k, n)' PROVE c < n
      <3>1. At(t, k, n) /\ k # w
        BY <1>5, <2>4
      <3>2. k >= w
        BY <1>1, <3>1, AtRange
      <3>3. w < k
        BY <1>4, <3>1, <3>2
      <3> QED
        BY <1>4, <1>6, <2>3, <3>1, <3>3 DEF InOrder
    <2>5. InOrder(t)'
      <3>1. \A k \in Int, n \in 1..MaxChunks : At(t, k, n)' => got'[t] < n /\ n <= sent'[t]
        <4> SUFFICES ASSUME NEW k \in Int, NEW n \in 1..MaxChunks, At(t, k, n)'
                     PROVE  got'[t] < n /\ n <= sent'[t]
          OBVIOUS
        <4>1. c < n
          BY <2>4
        <4>2. n <= sent[t]
          BY <1>5, <1>6 DEF InOrder
        <4> QED
          BY <1>2, <1>3, <2>2, <2>3, <4>1, <4>2
      <3>2. \A k, l \in Int, m, n \in 1..MaxChunks :
               At(t, k, m)' /\ At(t, l, n)' => (k < l <=> m < n)
        BY <1>5, <1>6 DEF InOrder
      <3>3. got'[t] <= sent'[t]
        BY <1>2, <1>3, <2>2, <2>3
      <3> QED
        BY <3>1, <3>2, <3>3 DEF InOrder
    <2>6. ASSUME task'[t] \in Live PROVE AllThere(t)'
      <3>1. AllThere(t)
        BY <1>2, <1>6, <2>6
      <3>2. c = got[t] + 1
        <4>1. got[t] + 1 \in 1..MaxChunks /\ got[t] + 1 <= sent[t]
          <5>1. c \in Nat /\ c <= MaxChunks /\ MaxChunks \in Nat
            BY ConnAssumption
          <5> QED
            BY <1>3, <2>3, <5>1
        <4>2. PICK k \in Int : At(t, k, got[t] + 1)
          BY <1>3, <3>1, <4>1 DEF AllThere
        <4>3. k >= w
          BY <1>1, <4>1, <4>2, AtRange
        <4>4. k < w <=> got[t] + 1 < c
          BY <1>4, <1>6, <2>3, <4>1, <4>2 DEF InOrder
        <4>5. ~(got[t] + 1 < c)
          BY <1>4, <4>3, <4>4
        <4> QED
          BY <1>3, <2>3, <4>5
      <3> SUFFICES ASSUME NEW n \in 1..MaxChunks, got'[t] < n, n <= sent'[t]
                   PROVE  \E k \in Int : At(t, k, n)'
        BY DEF AllThere
      <3>3. got[t] < n /\ n <= sent[t] /\ n # c
        BY <1>2, <1>3, <2>2, <3>2
      <3>4. PICK k \in Int : At(t, k, n)
        BY <3>1, <3>3 DEF AllThere
      <3>5. k # w
        BY <1>7, <2>1, <3>3, <3>4, FramesDiffer
      <3> QED
        BY <1>5, <3>4, <3>5
    <2> QED
      BY <2>5, <2>6
  <1>9. CASE \A c \in 1..MaxChunks : held # Chunk(t, c)
    <2>1. got'[t] = got[t]
      <3>1. held.kind = "chunk" => held.of # t
        BY <1>1, <1>9 DEF Frames, Chunk
      <3>2. held.kind = "chunk" => held.of \in Tasks
        BY <1>1 DEF Frames
      <3> QED
        BY <1>1, <3>1, <3>2 DEF WriterSent, TypeOK
    <2>2. \A k \in Int, n \in 1..MaxChunks : At(t, k, n)' <=> At(t, k, n)
      BY <1>5, <1>7, <1>9
    <2>3. WayInv(t)'
      BY <1>2, <2>1, <2>2, WayKept
    <2> QED
      BY <1>2, <2>3 DEF WayInv
  <1> QED
    BY <1>8, <1>9

\* A new chunk is the last on its way.
LEMMA ServerWay ==
    ASSUME ConnInv, NEW u \in Tasks, ServerChunk(u) \/ ServerEnd(u), NEW t \in Tasks
    PROVE  WayInv(t)'
  <1>1. TypeOK /\ UNCHANGED <<got, socket, task, hand, chan, held>>
    BY DEF ConnInv, ServerChunk, ServerEnd, connVars, wireVars, taskVars
  <1>2. CASE t # u
    <2>1. inbox'[t] = inbox[t] /\ sent'[t] = sent[t]
      BY <1>1, <1>2 DEF ServerChunk, ServerEnd, TypeOK
    <2> QED
      BY <1>1, <2>1, WayStill
  <1>3. inbox[t] \in Seq(Values) /\ Len(inbox[t]) \in Nat /\ Len(chan) \in Nat
        /\ got[t] \in Nat /\ sent[t] \in Nat /\ MaxChunks \in Nat
    BY <1>1, Lengths DEF TypeOK, Values
  <1> DEFINE L == Len(inbox[t])
  <1>4. CASE t = u /\ ServerEnd(u)
    <2>1. PICK x \in {StreamEnd, StreamErr} : inbox'[t] = Append(inbox[t], x)
      BY <1>1, <1>4 DEF ServerEnd, TypeOK
    <2>2. x \in Values /\ \A n \in 1..MaxChunks : x # n
      BY ConnAssumption DEF Values, StreamEnd, StreamErr
    <2>3. Len(inbox'[t]) = L + 1 /\ inbox'[t][L + 1] = x
          /\ \A i \in 1..L : inbox'[t][i] = inbox[t][i]
      BY <1>3, <2>1, <2>2
    <2>4. \A k \in Int, n \in 1..MaxChunks :
             k \in 1..Len(inbox'[t]) /\ inbox'[t][k] = n <=> k \in 1..L /\ inbox[t][k] = n
      BY <1>3, <2>2, <2>3
    <2>5. \A k \in Int, n \in 1..MaxChunks : At(t, k, n)' <=> At(t, k, n)
      BY <1>1, <2>4 DEF At
    <2>6. sent' = sent
      BY <1>4 DEF ServerEnd
    <2> QED
      BY <1>1, <2>5, <2>6, WayKept
  <1>5. CASE t = u /\ ServerChunk(u)
    <2> DEFINE x == sent[t] + 1
    <2>1. inbox'[t] = Append(inbox[t], x) /\ sent'[t] = x
      BY <1>1, <1>5 DEF ServerChunk, TypeOK
    <2>2. sent[t] < MaxChunks
      BY <1>1, <1>5, RoomToSend DEF ServerChunk
    <2>3. x \in 1..MaxChunks /\ x \in Values
      BY <1>3, <2>2 DEF Values
    <2> HIDE DEF x
    <2>4. Len(inbox'[t]) = L + 1 /\ inbox'[t][L + 1] = x
          /\ \A i \in 1..L : inbox'[t][i] = inbox[t][i]
      BY <1>3, <2>1, <2>3
    <2>5. \A k \in Int, n \in 1..MaxChunks :
             k \in 1..Len(inbox'[t]) /\ inbox'[t][k] = n
                <=> (k \in 1..L /\ inbox[t][k] = n) \/ (k = L + 1 /\ n = x)
      BY <1>3, <2>4
    <2>6. \A k \in Int, n \in 1..MaxChunks :
             At(t, k, n)' <=> At(t, k, n) \/ (k = L + 1 /\ n = x)
      BY <1>1, <2>5 DEF At
    <2> SUFFICES ASSUME socket' = "open"
                 PROVE  InOrder(t)' /\ (task'[t] \in Live => AllThere(t)')
      BY DEF WayInv
    <2>7. InOrder(t) /\ (task[t] \in Live => AllThere(t))
      BY <1>1 DEF ConnInv, WayInv
    <2>8. \A k \in Int, n \in 1..MaxChunks :
             At(t, k, n) => k < L + 1 /\ n < x /\ got[t] < n
      <3> SUFFICES ASSUME NEW k \in Int, NEW n \in 1..MaxChunks, At(t, k, n)
                   PROVE  k < L + 1 /\ n < x /\ got[t] < n
        OBVIOUS
      <3>1. k <= L
        BY <1>1, AtRange
      <3>2. got[t] < n /\ n <= sent[t]
        BY <2>7 DEF InOrder
      <3> QED
        BY <1>3, <3>1, <3>2 DEF x
    <2>9. got[t] < x
      <3>1. got[t] <= sent[t]
        BY <2>7 DEF InOrder
      <3> QED
        BY <1>3, <3>1 DEF x
    <2>10. InOrder(t)'
      <3>1. \A k \in Int, n \in 1..MaxChunks : At(t, k, n)' => got'[t] < n /\ n <= sent'[t]
        <4> SUFFICES ASSUME NEW k \in Int, NEW n \in 1..MaxChunks, At(t, k, n)'
                     PROVE  got[t] < n /\ n <= x
          BY <1>1, <2>1
        <4>1. CASE At(t, k, n)
          BY <2>3, <2>8, <4>1
        <4>2. CASE n = x
          BY <2>3, <2>9, <4>2
        <4> QED
          BY <2>6, <4>1, <4>2
      <3>2. ASSUME NEW k \in Int, NEW l \in Int, NEW m \in 1..MaxChunks, NEW n \in 1..MaxChunks,
                   At(t, k, m)', At(t, l, n)'
            PROVE  k < l <=> m < n
        <4>1. CASE At(t, k, m) /\ At(t, l, n)
          BY <2>7, <4>1 DEF InOrder
        <4>2. CASE At(t, k, m) /\ l = L + 1 /\ n = x
          BY <2>8, <4>2
        <4>3. CASE k = L + 1 /\ m = x /\ At(t, l, n)
          <5>1. l < L + 1 /\ n < x /\ L + 1 \in Int /\ x \in Int
            BY <1>3, <2>3, <2>8, <4>3
          <5> QED
            BY <4>3, <5>1
        <4>4. CASE k = L + 1 /\ m = x /\ l = L + 1 /\ n = x
          BY <1>3, <2>3, <4>4
        <4> QED
          BY <2>6, <3>2, <4>1, <4>2, <4>3, <4>4
      <3>3. got'[t] <= sent'[t]
        BY <1>1, <1>3, <2>1, <2>3, <2>9
      <3> QED
        BY <3>1, <3>2, <3>3 DEF InOrder
    <2>11. ASSUME task'[t] \in Live PROVE AllThere(t)'
      <3>1. AllThere(t)
        BY <1>1, <2>7, <2>11
      <3> SUFFICES ASSUME NEW n \in 1..MaxChunks, got'[t] < n, n <= sent'[t]
                   PROVE  \E k \in Int : At(t, k, n)'
        BY DEF AllThere
      <3>2. CASE n = x
        <4>1. L + 1 \in Int
          BY <1>3
        <4> QED
          BY <2>6, <3>2, <4>1
      <3>3. CASE n # x
        <4>1. got[t] < n /\ n <= sent[t]
          BY <1>1, <1>3, <2>1, <3>3 DEF x
        <4> QED
          BY <2>6, <3>1, <4>1 DEF AllThere
      <3> QED
        BY <3>2, <3>3
    <2> QED
      BY <2>10, <2>11
  <1> QED
    BY <1>2, <1>4, <1>5

-----------------------------------------------------------------------------
(* Every step keeps every way.                                             *)

LEMMA MainWay ==
    ASSUME ConnInv, MainStep, NEW t \in Tasks
    PROVE  WayInv(t)'
  <1> USE DEF connVars, wireVars, taskVars, serverVars
  <1>1. CASE Refuse
    BY <1>1 DEF Refuse, WayInv
  <1>2. CASE Accept \/ Cleanup \/ Join
    BY <1>2, WayStill DEF Accept, Cleanup, Join
  <1>3. CASE SendNotice
    <2>1. CASE chan' = chan
      BY <1>3, <2>1, WayStill DEF SendNotice
    <2>2. CASE chan' = Append(chan, NoticeFrame)
      BY <1>3, <2>2, FrameTypes, FramesDiffer, WayQueued DEF SendNotice
    <2> QED
      BY <1>3, <2>1, <2>2 DEF SendNotice
  <1> QED
    BY <1>1, <1>2, <1>3 DEF MainStep

LEMMA ClientWay ==
    ASSUME ConnInv, ClientFrame, NEW t \in Tasks
    PROVE  WayInv(t)'
  <1> USE DEF connVars, wireVars, taskVars, serverVars
  <1>1. ASSUME NEW s \in SubIds, ReadReq(s) PROVE WayInv(t)'
    <2>1. task[reqs + 1] = "unused" \/ reqs + 1 \notin Tasks
      BY DEF ConnInv, Spawned, TypeOK, TaskPCs
    <2>2. task'[t] \in Live => task[t] \in Live
      BY <1>1, <2>1 DEF ReadReq, ConnInv, TypeOK, Live
    <2> QED
      BY <1>1, <2>2, WayStill DEF ReadReq
  <1>2. CASE (\E s \in SubIds : ReadClose(s)) \/ ReadEvent \/ ReadOther
    BY <1>2, WayStill DEF ReadClose, ReadEvent, ReadOther
  <1> QED
    BY <1>1, <1>2 DEF ClientFrame

LEMMA WriterWay ==
    ASSUME ConnInv, WriterStep, NEW t \in Tasks
    PROVE  WayInv(t)'
  <1> USE DEF connVars, wireVars, taskVars, serverVars
  <1>1. CASE WriterBreak
    <2>1. CASE socket = "closed"
      BY <1>1, <2>1 DEF WriterBreak, WayInv
    <2>2. CASE writer = "idle"
      <3>1. held' = held
        BY <1>1, <2>2 DEF WriterBreak, ConnInv, WriterFits
      <3> QED
        BY <1>1, <3>1, WayStill DEF WriterBreak
    <2> QED
      BY <1>1, <2>1, <2>2 DEF WriterBreak
  <1>2. CASE WriterEnd
    BY <1>2 DEF WriterEnd, WayInv
  <1> QED
    BY <1>1, <1>2, WriterTakeWay, WriterSentWay DEF WriterStep

LEMMA TaskWay ==
    ASSUME ConnInv, NEW u \in Tasks, TaskStep(u), NEW t \in Tasks
    PROVE  WayInv(t)'
  <1> USE DEF connVars, wireVars, taskVars, serverVars
  <1>1. TypeOK /\ HandFits
    BY DEF ConnInv
  <1>2. /\ UNCHANGED <<got, sent, socket, held>>
        /\ t # u => task'[t] = task[t] /\ hand'[t] = hand[t] /\ inbox'[t] = inbox[t]
    BY TaskSteps
  <1>3. CASE SetupRequest(u) \/ SetupOk(u) \/ CancelReturns(u)
    <2>1. UNCHANGED <<chan, hand, inbox>>
      BY <1>3 DEF SetupRequest, SetupOk, CancelReturns
    <2>2. task'[t] \in Live => task[t] \in Live
      BY <1>1, <1>3 DEF SetupRequest, SetupOk, CancelReturns, TypeOK, Live
    <2> QED
      BY <1>2, <2>1, <2>2, WayStill
  <1>4. CASE SetupErr(u) \/ SetupCancelled(u) \/ TakeEnd(u) \/ StreamCancelled(u)
    <2>1. chan' = chan
      BY <1>4 DEF SetupErr, SetupCancelled, TakeEnd, StreamCancelled
    <2>2. CASE t # u
      BY <1>2, <2>1, <2>2, WayStill
    <2>3. CASE t = u
      <3>1. inbox'[t] = <<>> /\ task'[t] \notin Live
        BY <1>1, <1>4, <2>3
           DEF SetupErr, SetupCancelled, TakeEnd, StreamCancelled, TypeOK, Live
      <3>2. hand[t] = None
        BY <1>1, <1>4, <2>3 DEF SetupErr, SetupCancelled, TakeEnd, StreamCancelled, HandFits
      <3>3. hand'[t] = None \/ hand'[t] = ClosedFrame(t)
        BY <1>1, <1>4, <2>3, <3>2
           DEF SetupErr, SetupCancelled, TakeEnd, StreamCancelled, TypeOK
      <3>4. \A n \in 1..MaxChunks : hand'[t] # Chunk(t, n)
        BY <1>1, <3>3, Lengths, FramesDiffer
      <3> QED
        BY <1>2, <2>1, <3>1, <3>4, WayDropped
    <2> QED
      BY <2>2, <2>3
  <1>5. CASE TakeChunk(u)
    <2>1. CASE t # u
      <3>1. chan' = chan
        BY <1>5 DEF TakeChunk
      <3> QED
        BY <1>2, <2>1, <3>1, WayStill
    <2> QED
      BY <1>5, <2>1, WayTaken
  <1>6. CASE SendChunk(u)
    <2>1. PICK c \in 1..MaxChunks : hand[u] = Chunk(u, c)
      BY <1>1, <1>6 DEF SendChunk, HandFits
    <2>2. hand[u] \in Frames /\ hand'[u] = None
      BY <1>1, <1>6, <2>1, FrameTypes DEF SendChunk, TypeOK
    <2>3. CASE CanSend /\ chan' = Append(chan, hand[u]) /\ inbox' = inbox
               /\ task' = [task EXCEPT ![u] = "streaming"]
      <3>1. t # u => \A n \in 1..MaxChunks : hand[u] # Chunk(t, n)
        BY <2>1, FramesDiffer
      <3>2. task'[t] \in Live => task[t] \in Live
        BY <1>1, <1>6, <2>3 DEF SendChunk, TypeOK, Live
      <3> QED
        BY <1>2, <2>2, <2>3, <3>1, <3>2, WayQueued
    <2>4. CASE chan' = chan /\ task' = [task EXCEPT ![u] = "ended"]
               /\ inbox' = [inbox EXCEPT ![u] = <<>>]
      <3>1. CASE t # u
        BY <1>2, <2>4, <3>1, WayStill
      <3>2. CASE t = u
        <4>1. inbox'[t] = <<>> /\ task'[t] \notin Live
          BY <1>1, <2>4, <3>2 DEF TypeOK, Live
        <4>2. \A n \in 1..MaxChunks : hand'[t] # Chunk(t, n)
          BY <1>1, <2>2, <3>2, Lengths
        <4> QED
          BY <1>2, <2>4, <4>1, <4>2, WayDropped
      <3> QED
        BY <3>1, <3>2
    <2> QED
      BY <1>6, <2>3, <2>4 DEF SendChunk
  <1>7. CASE SendClosed(u)
    <2>1. hand[u] = ClosedFrame(u) /\ hand[u] \in Frames /\ hand'[u] = None /\ inbox' = inbox
      BY <1>1, <1>7, FrameTypes DEF SendClosed, HandFits, TypeOK
    <2>2. \A n \in 1..MaxChunks : hand[u] # Chunk(t, n)
      BY <2>1, FramesDiffer
    <2>3. task'[t] \in Live => task[t] \in Live
      BY <1>1, <1>7 DEF SendClosed, TypeOK, Live
    <2>4. CASE chan' = Append(chan, hand[u])
      BY <1>2, <2>1, <2>2, <2>3, <2>4, WayQueued
    <2>5. CASE chan' = chan
      <3>1. CASE t # u
        BY <1>2, <2>5, <3>1, WayStill
      <3>2. CASE t = u
        <4>1. \A k \in Int, n \in 1..MaxChunks : At(t, k, n)' <=> At(t, k, n)
          <5>1. \A n \in 1..MaxChunks : hand'[t] # Chunk(t, n)
            BY <1>1, <2>1, <3>2, Lengths
          <5> QED
            BY <1>2, <2>1, <2>2, <2>5, <3>2, <5>1 DEF At
        <4> QED
          BY <1>2, <2>3, <4>1, WayKept
      <3> QED
        BY <3>1, <3>2
    <2> QED
      BY <1>7, <2>4, <2>5 DEF SendClosed
  <1> QED
    BY <1>3, <1>4, <1>5, <1>6, <1>7 DEF TaskStep, TaskRuns, TaskAnswered

LEMMA PublishWay ==
    ASSUME ConnInv, NEW p \in Pubs, PublishStep(p), NEW t \in Tasks
    PROVE  WayInv(t)'
  <1> USE DEF connVars, wireVars, taskVars, serverVars
  <1>1. CASE PublishReply(p)
    BY <1>1, WayStill DEF PublishReply
  <1>2. CASE SendOk(p)
    <2>1. CASE chan' = chan
      BY <1>2, <2>1, WayStill DEF SendOk
    <2>2. CASE chan' = Append(chan, OkFrame(p))
      BY <1>2, <2>2, FrameTypes, FramesDiffer, WayQueued DEF SendOk
    <2> QED
      BY <1>2, <2>1, <2>2 DEF SendOk
  <1> QED
    BY <1>1, <1>2 DEF PublishStep

LEMMA WayInvKept ==
    ASSUME ConnInv, [Next]_vars, NEW t \in Tasks
    PROVE  WayInv(t)'
  <1>1. CASE Environment
    <2>1. CASE Disconnect
      BY <2>1 DEF Disconnect, WayInv
    <2> QED
      BY <1>1, <2>1, ServerWay DEF Environment
  <1>2. CASE UNCHANGED vars
    BY <1>2, WayStill DEF vars
  <1> QED
    BY <1>1, <1>2, MainWay, ClientWay, WriterWay, TaskWay, PublishWay DEF Next

-----------------------------------------------------------------------------
(* The theorems.                                                           *)

LEMMA InitInv == Init => ConnInv
  <1> SUFFICES ASSUME Init PROVE ConnInv
    OBVIOUS
  <1>1. TypeOK
    BY ConnAssumption DEF Init, TypeOK, TaskPCs
  <1>2. WriterFits /\ HandFits /\ EveryTaskCancellable
    BY DEF Init, WriterFits, HandFits, EveryTaskCancellable
  <1>3. Spawned
    BY DEF Init, Spawned, Tasks
  <1>4. ASSUME NEW t \in Tasks PROVE WayInv(t)
    <2>1. \A k \in Int, n \in 1..MaxChunks : ~At(t, k, n)
      <3>1. \A n \in 1..MaxChunks : Chunk(t, n) # None
        BY <1>1, Lengths
      <3> QED
        BY <3>1 DEF Init, At
    <2>2. got[t] = 0 /\ sent[t] = 0
      BY DEF Init
    <2> QED
      BY <2>1, <2>2 DEF WayInv, InOrder, AllThere
  <1> QED
    BY <1>1, <1>2, <1>3, <1>4 DEF ConnInv

LEMMA NextInv == ConnInv /\ [Next]_vars => ConnInv'
  BY TypeKept, WriterKept, HandKept, SpawnedKept, CancellableKept, WayInvKept DEF ConnInv

\* The inductive invariant holds throughout.
THEOREM ConnInvariant == Spec => []ConnInv
  BY InitInv, NextInv, PTL DEF Spec

\* Every variable keeps its type: the channel never holds more than OUTBOUND_BUF.
THEOREM TypeCorrect == Spec => []TypeOK
  BY ConnInvariant, PTL DEF ConnInv

\* Every running subscribe task that was not told to stop can be told.
THEOREM TasksCancellable == Spec => []EveryTaskCancellable
  BY ConnInvariant, PTL DEF ConnInv

\* Backpressure delays the chunks of a stream and never loses, repeats or
\* reorders them.
THEOREM ChunksArrive == Spec => []NoChunkLost
  <1>1. ConnInv => NoChunkLost
    <2> SUFFICES ASSUME ConnInv, NEW t \in Tasks,
                        task[t] \in {"streaming", "sending"}, socket = "open"
                 PROVE  /\ \A n \in 1..MaxChunks :
                              n \in (got[t] + 1)..sent[t] <=> \E k \in Way(t) : At(t, k, n)
                        /\ \A k, l \in Way(t), m, n \in 1..MaxChunks :
                              At(t, k, m) /\ At(t, l, n) => (k < l <=> m < n)
      BY DEF NoChunkLost
    <2>1. TypeOK /\ InOrder(t) /\ AllThere(t)
      BY DEF ConnInv, WayInv, Live
    <2>2. Len(chan) \in Nat /\ Len(inbox[t]) \in Nat /\ got[t] \in Nat /\ sent[t] \in Nat
          /\ MaxChunks \in Nat
      BY <2>1, Lengths
    <2>3. Way(t) \subseteq Int
      BY <2>2 DEF Way
    <2>4. \A k \in Int, n \in 1..MaxChunks : At(t, k, n) => k \in Way(t)
      BY <2>1, <2>2, AtRange DEF Way
    <2>5. \A n \in 1..MaxChunks : n \in (got[t] + 1)..sent[t] <=> got[t] < n /\ n <= sent[t]
      BY <2>2
    <2>6. ASSUME NEW n \in 1..MaxChunks
          PROVE  n \in (got[t] + 1)..sent[t] <=> \E k \in Way(t) : At(t, k, n)
      BY <2>1, <2>3, <2>4, <2>5 DEF InOrder, AllThere
    <2>7. \A k, l \in Way(t), m, n \in 1..MaxChunks :
             At(t, k, m) /\ At(t, l, n) => (k < l <=> m < n)
      BY <2>1, <2>3 DEF InOrder
    <2> QED
      BY <2>6, <2>7
  <1> QED
    BY <1>1, ConnInvariant, PTL
=============================================================================
