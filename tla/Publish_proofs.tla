--------------------------- MODULE Publish_proofs ---------------------------
(* TLAPS proofs about publishing, for any number of attempts and events.   *)
EXTENDS Publish, TLAPS

\* What the relay stores are events: the type invariant needs PublishInv.
LEMMA TypeStep ==
    ASSUME TypeOK, PublishInv, [Next]_vars
    PROVE  TypeOK'
  <1> USE DEF TypeOK, Results
  <1>1. CASE UNCHANGED vars
    BY <1>1 DEF vars
  <1>2. ASSUME NEW a \in Attempts, NEW e \in Events \cup Garbage, Call(a, e)
        PROVE  TypeOK'
    BY <1>2 DEF Call
  <1>3. ASSUME NEW a \in Attempts, CallFails(a) PROVE TypeOK'
    BY <1>3 DEF CallFails
  <1>4. ASSUME NEW a \in Attempts, Answer(a) PROVE TypeOK'
    <2>1. payload[a] \in Events \cup Garbage
      BY <1>4 DEF Answer, PublishInv
    <2>2. IdOf(payload[a]) \in Events \cup {None}
      BY <2>1, PublishAssumption DEF IdOf
    <2> QED
      BY <1>4, <2>2 DEF Answer, OkFrames, Accepted
  <1>5. ASSUME NEW a \in Attempts, OutlayStep(a) PROVE TypeOK'
    BY <1>5 DEF OutlayStep, HandlerRejects, HandlerForwards, ProxyAcked, ProxyErr,
                ProxyTimeout, Return
  <1>6. ASSUME NEW a \in Attempts, RelayReceives(a) PROVE TypeOK'
    BY <1>6 DEF RelayReceives
  <1>7. ASSUME NEW a \in Attempts, RelayAccepts(a) PROVE TypeOK'
    <2>1. payload[a] \in Events
      BY <1>7 DEF RelayAccepts, PublishInv
    <2> QED
      BY <1>7, <2>1 DEF RelayAccepts
  <1>8. ASSUME NEW a \in Attempts, RelayRefuses(a) PROVE TypeOK'
    BY <1>8 DEF RelayRefuses
  <1> QED
    BY <1>1, <1>2, <1>3, <1>4, <1>5, <1>6, <1>7, <1>8 DEF Next

\* PublishInv is preserved by every step.
LEMMA InvStep ==
    ASSUME TypeOK, PublishInv, [Next]_vars
    PROVE  PublishInv'
  <1> USE PublishAssumption DEF TypeOK, PublishInv, Results
  <1>1. CASE UNCHANGED vars
    BY <1>1 DEF vars
  <1>2. ASSUME NEW a \in Attempts, NEW e \in Events \cup Garbage, Call(a, e)
        PROVE  PublishInv'
    BY <1>2 DEF Call
  <1>3. ASSUME NEW a \in Attempts, CallFails(a) PROVE PublishInv'
    BY <1>3 DEF CallFails
  <1>4. ASSUME NEW a \in Attempts, Answer(a) PROVE PublishInv'
    BY <1>4 DEF Answer, OkFrames, Accepted
  <1>5. ASSUME NEW a \in Attempts, HandlerRejects(a) PROVE PublishInv'
    BY <1>5 DEF HandlerRejects, Return
  <1>6. ASSUME NEW a \in Attempts, HandlerForwards(a) PROVE PublishInv'
    BY <1>6 DEF HandlerForwards
  <1>7. ASSUME NEW a \in Attempts, ProxyAcked(a) PROVE PublishInv'
    BY <1>7 DEF ProxyAcked, Return
  <1>8. ASSUME NEW a \in Attempts, ProxyErr(a) \/ ProxyTimeout(a) PROVE PublishInv'
    BY <1>8 DEF ProxyErr, ProxyTimeout, Return
  <1>9. ASSUME NEW a \in Attempts, RelayReceives(a) PROVE PublishInv'
    BY <1>9 DEF RelayReceives
  <1>10. ASSUME NEW a \in Attempts, RelayAccepts(a) PROVE PublishInv'
    BY <1>10 DEF RelayAccepts
  <1>11. ASSUME NEW a \in Attempts, RelayRefuses(a) PROVE PublishInv'
    BY <1>11 DEF RelayRefuses
  <1> QED
    BY <1>1, <1>2, <1>3, <1>4, <1>5, <1>6, <1>7, <1>8, <1>9, <1>10, <1>11
    DEF Next, OutlayStep

\* Every reachable state of the publish path is well typed and satisfies the
\* inductive invariant (conn.rs:189-208, handler.rs:114-122, proxy.rs:304-334).
THEOREM Invariance == Spec => [](TypeOK /\ PublishInv)
  <1>1. Init => TypeOK
    BY DEF Init, TypeOK
  <1>2. Init => PublishInv
    BY PublishAssumption DEF Init, PublishInv, Results
  <1>3. TypeOK /\ PublishInv /\ [Next]_vars => (TypeOK /\ PublishInv)'
    BY TypeStep, InvStep
  <1> QED
    BY <1>1, <1>2, <1>3, PTL DEF Spec

\* proxy.rs:317, conn.rs:199-204.  A client that is told `true` was told of an
\* event the relay has accepted, whatever timed out or failed on the way.
THEOREM TrueMeansStoredTheorem == Spec => []TrueMeansStored
  <1>1. TypeOK /\ PublishInv => TrueMeansStored
    <2> SUFFICES ASSUME TypeOK, PublishInv, NEW a \in Attempts, ok[a] # None, ok[a].flag
                 PROVE  ok[a].id \in stored
      BY DEF TrueMeansStored
    <2>1. relay[a] = "acked" /\ ok[a].id = IdOf(payload[a])
      BY DEF PublishInv
    <2>2. payload[a] \in Events /\ payload[a] \in stored
      BY <2>1 DEF PublishInv
    <2> QED
      BY <2>1, <2>2 DEF IdOf
  <1> QED
    BY <1>1, Invariance, PTL
=============================================================================
