--------------------------- MODULE PrivateStreams ---------------------------
(***************************************************************************)
(* What the subscribe tool promises its clients, without saying how: every *)
(* call reads as if it had an upstream connection of its own, over a link  *)
(* that may lose messages but neither reorders, repeats nor alters them.   *)
(* There is no pool, no shared socket, no upstream id and no buffer here.  *)
(***************************************************************************)
EXTENDS Naturals, Sequences

CONSTANTS
    Calls,      \* subscribe tool calls
    ClientSub,  \* the subscription id each client picked
    None        \* the sender of what outlay says by itself

VARIABLES
    sent,  \* kinds of the messages the relay sent for each call
    got,   \* what each client received
    state  \* each call's stream: "open", or "over" once outlay has ended it

streamVars == <<sent, got, state>>

Init ==
    /\ sent = [c \in Calls |-> <<>>]
    /\ got = [c \in Calls |-> <<>>]
    /\ state = [c \in Calls |-> "open"]

\* The relay sends a message: at most one EOSE, nothing after a CLOSED.
Send(c, k) ==
    /\ \A i \in DOMAIN sent[c] : sent[c][i] # "CLOSED" /\ (k = "EOSE" => sent[c][i] # k)
    /\ sent' = [sent EXCEPT ![c] = Append(@, k)]
    /\ UNCHANGED <<got, state>>

\* Message n of the relay reaches its client, under the client's own id.  It
\* is later than all the client has; a CLOSED ends the stream.
Deliver(c, n) ==
    /\ state[c] = "open"
    /\ \A i \in DOMAIN got[c] : got[c][i].n < n
    /\ got' = [got EXCEPT ![c] =
                 Append(@, [kind |-> sent[c][n], sub |-> ClientSub[c], call |-> c, n |-> n])]
    /\ state' = [state EXCEPT ![c] = IF sent[c][n] = "CLOSED" THEN "over" ELSE "open"]
    /\ UNCHANGED sent

\* outlay itself tells the client CLOSED, as the last thing it says.
TellClosed(c) ==
    /\ state[c] = "open"
    /\ got' = [got EXCEPT ![c] =
                 Append(@, [kind |-> "CLOSED", sub |-> ClientSub[c], call |-> None, n |-> 0])]
    /\ state' = [state EXCEPT ![c] = "over"]
    /\ UNCHANGED sent

\* The stream ends without a word: the client left, or could not be reached.
End(c) ==
    /\ state[c] = "open"
    /\ state' = [state EXCEPT ![c] = "over"]
    /\ UNCHANGED <<sent, got>>

Next ==
    \E c \in Calls :
        \/ \E k \in {"EVENT", "EOSE", "CLOSED"} : Send(c, k)
        \/ \E n \in DOMAIN sent[c] : Deliver(c, n)
        \/ TellClosed(c)
        \/ End(c)

Spec == Init /\ [][Next]_streamVars
=============================================================================
