------------------------ MODULE PrivateStreams_proofs ------------------------
(***************************************************************************)
(* TLAPS proofs about the streams the subscribe tool promises: what a      *)
(* client may rely on that knows no more than PrivateStreams, for any      *)
(* calls and any traffic.                                                  *)
(***************************************************************************)
EXTENDS PrivateStreams, TLAPS

-----------------------------------------------------------------------------
(* The view of a client, and the inductive invariant.                      *)

Kinds == {"EVENT", "EOSE", "CLOSED"}

\* What the client of c has is what the relay sent for c, in the order in which
\* it was sent, with at most one EOSE, and with nothing after a CLOSED, which
\* alone may be outlay's own.
ClientView(c) ==
    /\ \A i \in 1..Len(got[c]) :
          \/ got[c][i].n \in 1..Len(sent[c]) /\ got[c][i].kind = sent[c][got[c][i].n]
          \/ got[c][i].n = 0 /\ got[c][i].kind = "CLOSED"
    /\ \A i, j \in 1..Len(got[c]) : i < j =>
          /\ got[c][i].kind # "CLOSED"
          /\ got[c][i].n < got[c][j].n \/ got[c][j].n = 0
          /\ ~(got[c][i].kind = "EOSE" /\ got[c][j].kind = "EOSE")

StreamsView == \A c \in Calls : ClientView(c)

Notes == [kind : Kinds, sub : {ClientSub[c] : c \in Calls}, call : Calls \cup {None}, n : Nat]

StreamTypes ==
    /\ sent \in [Calls -> Seq(Kinds)]
    /\ got \in [Calls -> Seq(Notes)]
    /\ state \in [Calls -> {"open", "over"}]

\* The relay's side of c, and the end of its stream.
RelayKeeps(c) ==
    /\ \A i, j \in 1..Len(sent[c]) : i < j =>
          sent[c][i] # "CLOSED" /\ ~(sent[c][i] = "EOSE" /\ sent[c][j] = "EOSE")
    /\ state[c] = "open" => \A i \in 1..Len(got[c]) : got[c][i].kind # "CLOSED"

StreamInv == StreamTypes /\ \A c \in Calls : RelayKeeps(c) /\ ClientView(c)

-----------------------------------------------------------------------------
(* The steps.                                                              *)

\* A message that the relay sends.
LEMMA SendInv ==
  ASSUME StreamInv, NEW c \in Calls, NEW k \in Kinds, Send(c, k)
  PROVE  StreamInv'
  <1>1. /\ sent[c] \in Seq(Kinds) /\ sent' = [sent EXCEPT ![c] = Append(sent[c], k)]
        /\ got' = got /\ state' = state
    BY DEF Send, StreamInv, StreamTypes
  <1>2. StreamTypes'
    BY <1>1 DEF StreamInv, StreamTypes
  <1>3. ASSUME NEW d \in Calls PROVE RelayKeeps(d)' /\ ClientView(d)'
    <2>1. CASE d # c
      BY <1>1, <2>1 DEF StreamInv, StreamTypes, RelayKeeps, ClientView
    <2>2. CASE d = c
      <3>1. /\ Len(sent'[c]) = Len(sent[c]) + 1 /\ Len(sent[c]) \in Nat
            /\ \A i \in 1..Len(sent[c]) : sent'[c][i] = sent[c][i]
            /\ sent'[c][Len(sent[c]) + 1] = k
        BY <1>1 DEF StreamInv, StreamTypes
      <3>2. \A i \in 1..Len(sent[c]) : sent[c][i] # "CLOSED" /\ (k = "EOSE" => sent[c][i] # k)
        BY <1>1 DEF Send
      <3>3. RelayKeeps(c)'
        BY <1>1, <3>1, <3>2 DEF StreamInv, RelayKeeps
      <3>4. ASSUME NEW i \in 1..Len(got[c])
            PROVE  \/ got[c][i].n \in 1..Len(sent'[c]) /\ got[c][i].kind = sent'[c][got[c][i].n]
                   \/ got[c][i].n = 0 /\ got[c][i].kind = "CLOSED"
        <4>1. \/ got[c][i].n \in 1..Len(sent[c]) /\ got[c][i].kind = sent[c][got[c][i].n]
              \/ got[c][i].n = 0 /\ got[c][i].kind = "CLOSED"
          BY DEF StreamInv, ClientView
        <4> DEFINE n == got[c][i].n
        <4>2. n \in 1..Len(sent[c]) => n \in 1..Len(sent'[c]) /\ sent'[c][n] = sent[c][n]
          BY <3>1
        <4> QED
          BY <4>1, <4>2
      <3>5. ClientView(c)'
        BY <1>1, <3>4 DEF StreamInv, ClientView
      <3> QED
        BY <2>2, <3>3, <3>5
    <2> QED
      BY <2>1, <2>2
  <1> QED
    BY <1>2, <1>3 DEF StreamInv

\* What is added to what the client has: a message later than all it has, or
\* outlay's own CLOSED.
LEMMA AppendInv ==
  ASSUME StreamInv, NEW c \in Calls, NEW m \in Notes, state[c] = "open",
         \/ /\ m.n \in 1..Len(sent[c]) /\ m.kind = sent[c][m.n]
            /\ \A i \in 1..Len(got[c]) : got[c][i].n < m.n
         \/ m.n = 0 /\ m.kind = "CLOSED",
         got' = [got EXCEPT ![c] = Append(got[c], m)], sent' = sent,
         state' = [state EXCEPT ![c] = IF m.kind = "CLOSED" THEN "over" ELSE "open"]
  PROVE  StreamInv'
  <1>1. got[c] \in Seq(Notes)
    BY DEF StreamInv, StreamTypes
  <1>2. StreamTypes'
    BY <1>1 DEF StreamInv, StreamTypes
  <1>3. ASSUME NEW d \in Calls PROVE RelayKeeps(d)' /\ ClientView(d)'
    <2>1. CASE d # c
      BY <2>1 DEF StreamInv, StreamTypes, RelayKeeps, ClientView
    <2>2. CASE d = c
      <3> DEFINE l == Len(got[c])
      <3>1. /\ Len(got'[c]) = l + 1 /\ l \in Nat
            /\ \A i \in 1..l : got'[c][i] = got[c][i]
            /\ got'[c][l + 1] = m
            /\ state'[c] = IF m.kind = "CLOSED" THEN "over" ELSE "open"
        BY <1>1 DEF StreamInv, StreamTypes
      <3> HIDE DEF l
      <3>2. \A i \in 1..l : got[c][i].kind # "CLOSED"
        BY DEF StreamInv, RelayKeeps, l
      <3>3. RelayKeeps(c)'
        BY <3>1, <3>2 DEF StreamInv, RelayKeeps
      <3>4. \A i \in 1..Len(got'[c]) :
               \/ got'[c][i].n \in 1..Len(sent'[c]) /\ got'[c][i].kind = sent'[c][got'[c][i].n]
               \/ got'[c][i].n = 0 /\ got'[c][i].kind = "CLOSED"
        BY <3>1 DEF StreamInv, ClientView, l
      <3>5. ASSUME NEW i \in 1..l
            PROVE  /\ got[c][i].n < m.n \/ m.n = 0
                   /\ ~(got[c][i].kind = "EOSE" /\ m.kind = "EOSE")
        <4>1. CASE m.n = 0 /\ m.kind = "CLOSED"
          BY <4>1
        <4>2. CASE /\ m.n \in 1..Len(sent[c]) /\ m.kind = sent[c][m.n]
                   /\ got[c][i].n < m.n
          <5>1. got[c][i].n \in 1..Len(sent[c]) /\ got[c][i].kind = sent[c][got[c][i].n]
            BY <3>2 DEF StreamInv, ClientView, l
          <5> QED
            BY <4>2, <5>1 DEF StreamInv, RelayKeeps
        <4> QED
          BY <4>1, <4>2 DEF l
      <3>6. ASSUME NEW i \in 1..Len(got'[c]), NEW j \in 1..Len(got'[c]), i < j
            PROVE  /\ got'[c][i].kind # "CLOSED"
                   /\ got'[c][i].n < got'[c][j].n \/ got'[c][j].n = 0
                   /\ ~(got'[c][i].kind = "EOSE" /\ got'[c][j].kind = "EOSE")
        <4>1. i \in 1..l /\ (j \in 1..l \/ j = l + 1)
          BY <3>1, <3>6
        <4>2. CASE j \in 1..l
          BY <3>1, <3>6, <4>1, <4>2 DEF StreamInv, ClientView, l
        <4>3. CASE j = l + 1
          BY <3>1, <3>2, <3>5, <4>1, <4>3
        <4> QED
          BY <4>1, <4>2, <4>3
      <3>7. ClientView(c)'
        BY <3>4, <3>6 DEF ClientView
      <3> QED
        BY <2>2, <3>3, <3>7
    <2> QED
      BY <2>1, <2>2
  <1> QED
    BY <1>2, <1>3 DEF StreamInv

\* The streams keep a client's view of them: order, one EOSE, CLOSED last.
THEOREM StreamsViewTheorem == Spec => []StreamsView
  <1>1. Init => StreamInv
    BY DEF Init, StreamInv, StreamTypes, RelayKeeps, ClientView
  <1>2. StreamInv /\ [Next]_streamVars => StreamInv'
    <2> SUFFICES ASSUME StreamInv, [Next]_streamVars
                 PROVE  StreamInv'
      OBVIOUS
    <2>1. ASSUME NEW c \in Calls, NEW k \in {"EVENT", "EOSE", "CLOSED"}, Send(c, k)
          PROVE  StreamInv'
      BY <2>1, SendInv DEF Kinds
    <2>2. ASSUME NEW c \in Calls, NEW n \in DOMAIN sent[c], Deliver(c, n)
          PROVE  StreamInv'
      <3> DEFINE m == [kind |-> sent[c][n], sub |-> ClientSub[c], call |-> c, n |-> n]
      <3>1. /\ sent[c] \in Seq(Kinds) /\ got[c] \in Seq(Notes)
            /\ n \in 1..Len(sent[c]) /\ n \in Nat
        BY DEF StreamInv, StreamTypes
      <3>2. m \in Notes /\ m.n = n /\ m.kind = sent[c][n]
        BY <3>1 DEF Notes
      <3>3. \A i \in 1..Len(got[c]) : got[c][i].n < n
        BY <2>2, <3>1 DEF Deliver
      <3>4. /\ state[c] = "open" /\ sent' = sent
            /\ got' = [got EXCEPT ![c] = Append(got[c], m)]
            /\ state' = [state EXCEPT ![c] = IF m.kind = "CLOSED" THEN "over" ELSE "open"]
        BY <2>2 DEF Deliver
      <3> HIDE DEF m
      <3> QED
        BY <3>1, <3>2, <3>3, <3>4, AppendInv
    <2>3. ASSUME NEW c \in Calls, TellClosed(c)
          PROVE  StreamInv'
      <3> DEFINE m == [kind |-> "CLOSED", sub |-> ClientSub[c], call |-> None, n |-> 0]
      <3>1. m \in Notes /\ m.n = 0 /\ m.kind = "CLOSED"
        BY DEF Notes, Kinds
      <3>2. /\ state[c] = "open" /\ sent' = sent
            /\ got' = [got EXCEPT ![c] = Append(got[c], m)]
            /\ state' = [state EXCEPT ![c] = IF m.kind = "CLOSED" THEN "over" ELSE "open"]
        BY <2>3 DEF TellClosed
      <3> HIDE DEF m
      <3> QED
        BY <3>1, <3>2, AppendInv
    <2>4. ASSUME NEW c \in Calls, End(c)
          PROVE  StreamInv'
      <3>1. sent' = sent /\ got' = got /\ state' = [state EXCEPT ![c] = "over"]
        BY <2>4 DEF End
      <3>2. StreamTypes'
        BY <3>1 DEF StreamInv, StreamTypes
      <3>3. \A d \in Calls : state'[d] = "open" => state[d] = "open"
        BY <3>1 DEF StreamInv, StreamTypes
      <3>4. \A d \in Calls : RelayKeeps(d)' /\ ClientView(d)'
        BY <3>1, <3>3 DEF StreamInv, RelayKeeps, ClientView
      <3> QED
        BY <3>2, <3>4 DEF StreamInv
    <2>5. CASE UNCHANGED streamVars
      BY <2>5 DEF streamVars, StreamInv, StreamTypes, RelayKeeps, ClientView
    <2> QED
      BY <2>1, <2>2, <2>3, <2>4, <2>5 DEF Next
  <1>3. StreamInv => StreamsView
    BY DEF StreamInv, StreamsView
  <1> QED
    BY <1>1, <1>2, <1>3, PTL DEF Spec
=============================================================================
