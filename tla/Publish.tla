------------------------------- MODULE Publish -------------------------------
(***************************************************************************)
(* The path of a published event, end to end: publish_once in              *)
(* crates/outlay-shim/src/conn.rs, the publish_event tool in               *)
(* crates/outlay/src/handler.rs, Proxy::publish_event in                   *)
(* crates/outlay/src/proxy.rs, and the upstream relay (external).          *)
(*                                                                         *)
(* An attempt is one EVENT frame of the client.  Several attempts may      *)
(* carry the same event: a client that was told "false" may try again.     *)
(* The relay decides about an event, and its answer travels back, on its   *)
(* own time: the proxy stops waiting after PUBLISH_TIMEOUT.                *)
(***************************************************************************)
EXTENDS Naturals, FiniteSets

CONSTANTS
    Attempts,   \* EVENT frames
    Events,     \* events with a good signature
    Garbage,    \* payloads that do not parse as an event
    IdIn,       \* the id that each of those carries all the same, if any
    None

\* The tool call's outcome: a structured { ok, event_id, message } result, a
\* tool error (a timeout's is told apart here), or a failure of the call.
Results == {"okTrue", "okFalse", "toolError", "timeoutError", "callError"}

ASSUME PublishAssumption ==
    /\ Events \cap Garbage = {}
    /\ IdIn \in [Garbage -> Events \cup {None}]
    /\ None \notin Events \cup Garbage
    /\ None \notin Results

VARIABLES
    shim,      \* publish_once: "idle", "calling", "answered"
    payload,   \* what the attempt carries
    proxy,     \* the tool call: "none", "waiting", "returned"
    relay,     \* the relay's view: "none", "received", "acked", "nacked"
    result,    \* what the tool call returned to the shim
    ok,        \* the OK frame the client got: its flag and its event id
    stored     \* events the relay has accepted

vars == <<shim, payload, proxy, relay, result, ok, stored>>

OkFrames == [flag : BOOLEAN, id : Events \cup {None}]

TypeOK ==
    /\ shim \in [Attempts -> {"idle", "calling", "answered"}]
    /\ payload \in [Attempts -> Events \cup Garbage \cup {None}]
    /\ proxy \in [Attempts -> {"none", "waiting", "returned"}]
    /\ relay \in [Attempts -> {"none", "received", "acked", "nacked"}]
    /\ result \in [Attempts -> Results \cup {None}]
    /\ ok \in [Attempts -> OkFrames \cup {None}]
    /\ stored \subseteq Events

Init ==
    /\ shim = [a \in Attempts |-> "idle"]
    /\ payload = [a \in Attempts |-> None]
    /\ proxy = [a \in Attempts |-> "none"]
    /\ relay = [a \in Attempts |-> "none"]
    /\ result = [a \in Attempts |-> None]
    /\ ok = [a \in Attempts |-> None]
    /\ stored = {}

-----------------------------------------------------------------------------
(* The shim.                                                               *)

\* publish_once calls the publish_event tool.
Call(a, e) ==
    /\ shim[a] = "idle"
    /\ shim' = [shim EXCEPT ![a] = "calling"]
    /\ payload' = [payload EXCEPT ![a] = e]
    /\ UNCHANGED <<proxy, relay, result, ok, stored>>

\* The call itself fails (transport dead, evicted, ...), before or after the
\* request reached outlay.
CallFails(a) ==
    /\ shim[a] = "calling" /\ result[a] = None
    /\ result' = [result EXCEPT ![a] = "callError"]
    /\ UNCHANGED <<shim, payload, proxy, relay, ok, stored>>

\* Wrong variant: a call that returned counts as success.
Accepted_anyResult(r) == r # "callError"

\* The flag of the OK frame: the result's `ok`, false for every error.
Accepted(r) == r = "okTrue"

\* Wrong variant: whatever the client sent is echoed as an id.
IdOf_echo(e) == e

\* The id in the OK frame, an event standing for its own: the string under
\* `id`, which a payload that is no event may carry too, or none.
IdOf(e) == IF e \in Events THEN e ELSE IdIn[e]

\* One OK frame per call.
Answer(a) ==
    /\ shim[a] = "calling" /\ result[a] # None
    /\ shim' = [shim EXCEPT ![a] = "answered"]
    /\ ok' = [ok EXCEPT ![a] = [flag |-> Accepted(result[a]), id |-> IdOf(payload[a])]]
    /\ UNCHANGED <<payload, proxy, relay, result, stored>>

-----------------------------------------------------------------------------
(* outlay.                                                                 *)

\* The tool's result reaches the shim, unless the call has failed meanwhile.
Return(a, r) ==
    /\ proxy' = [proxy EXCEPT ![a] = "returned"]
    /\ result' = [result EXCEPT ![a] = IF @ = None THEN r ELSE @]

\* The payload does not parse as an event: a tool error, nothing forwarded.
HandlerRejects(a) ==
    /\ shim[a] # "idle" /\ proxy[a] = "none"
    /\ payload[a] \in Garbage
    /\ Return(a, "toolError")
    /\ UNCHANGED <<shim, payload, relay, ok, stored>>

\* send_event is under way; the timeout starts.
HandlerForwards(a) ==
    /\ shim[a] # "idle" /\ proxy[a] = "none"
    /\ payload[a] \in Events
    /\ proxy' = [proxy EXCEPT ![a] = "waiting"]
    /\ UNCHANGED <<shim, payload, relay, result, ok, stored>>

\* send_event's output: accepted if the relay's OK arrived in `success`.
ProxyAcked(a) ==
    /\ proxy[a] = "waiting"
    /\ relay[a] \in {"acked", "nacked"}
    /\ Return(a, IF relay[a] = "acked" THEN "okTrue" ELSE "okFalse")
    /\ UNCHANGED <<shim, payload, relay, ok, stored>>

\* send_event fails: the pool could not send, or lost the relay.
ProxyErr(a) ==
    /\ proxy[a] = "waiting"
    /\ Return(a, "toolError")
    /\ UNCHANGED <<shim, payload, relay, ok, stored>>

\* Wrong variant: no timeout around send_event.
ProxyTimeout_never(a) == FALSE

\* PUBLISH_TIMEOUT passes before the OK is here (the relay may have sent it):
\* ProxyError::PublishTimeout, which the handler turns into a tool error.
ProxyTimeout(a) ==
    /\ proxy[a] = "waiting"
    /\ Return(a, "timeoutError")
    /\ UNCHANGED <<shim, payload, relay, ok, stored>>

-----------------------------------------------------------------------------
(* The upstream relay.                                                     *)

\* The event arrives, maybe after the proxy has stopped waiting for it.
RelayReceives(a) ==
    /\ proxy[a] # "none" /\ payload[a] \in Events
    /\ relay[a] = "none"
    /\ relay' = [relay EXCEPT ![a] = "received"]
    /\ UNCHANGED <<shim, payload, proxy, result, ok, stored>>

\* The relay accepts the event (again, if it is a duplicate) or refuses it.
RelayAccepts(a) ==
    /\ relay[a] = "received"
    /\ relay' = [relay EXCEPT ![a] = "acked"]
    /\ stored' = stored \cup {payload[a]}
    /\ UNCHANGED <<shim, payload, proxy, result, ok>>

RelayRefuses(a) ==
    /\ relay[a] = "received"
    /\ relay' = [relay EXCEPT ![a] = "nacked"]
    /\ UNCHANGED <<shim, payload, proxy, result, ok, stored>>

-----------------------------------------------------------------------------

OutlayStep(a) ==
    HandlerRejects(a) \/ HandlerForwards(a) \/ ProxyAcked(a) \/ ProxyErr(a) \/ ProxyTimeout(a)

Next ==
    \E a \in Attempts :
        \/ \E e \in Events \cup Garbage : Call(a, e)
        \/ CallFails(a) \/ Answer(a) \/ OutlayStep(a)
        \/ RelayReceives(a) \/ RelayAccepts(a) \/ RelayRefuses(a)

Spec == Init /\ [][Next]_vars

\* Tasks run and the timer fires; the relay may stay silent for ever, and
\* the pool need not notice.
FairSpec ==
    /\ Spec
    /\ \A a \in Attempts :
         /\ WF_vars(HandlerRejects(a) \/ HandlerForwards(a))
         /\ WF_vars(ProxyTimeout(a))
         /\ WF_vars(Answer(a))

-----------------------------------------------------------------------------
(* Properties.                                                             *)

\* proxy.rs:317, conn.rs:199-204.  A client that is told `true` can rely on
\* the relay having accepted that very event; with an error or a timeout
\* anywhere on the way it is told `false`.
TrueMeansStored ==
    \A a \in Attempts : ok[a] # None /\ ok[a].flag => ok[a].id \in stored

\* proxy.rs:313-316, conn.rs:188-208.  Every EVENT is answered although the
\* relay may never be heard of.
EveryAttemptAnswered == \A a \in Attempts : shim[a] = "calling" ~> shim[a] = "answered"

-----------------------------------------------------------------------------
(* The inductive strengthening of TrueMeansStored.                         *)

\* proxy.rs:304-334, conn.rs:189-208.  A true result was an acknowledged
\* event, an acknowledged event is stored, and a true OK had a true result.
PublishInv ==
    \A a \in Attempts :
        /\ shim[a] = "idle" \/ payload[a] # None
        /\ shim[a] = "idle" => proxy[a] = "none"
        /\ proxy[a] = "none" => relay[a] = "none" /\ result[a] # "okTrue"
        /\ relay[a] # "none" => payload[a] \in Events
        /\ relay[a] = "acked" => payload[a] \in stored
        /\ result[a] = "okTrue" => relay[a] = "acked"
        /\ ok[a] # None =>
              /\ shim[a] # "idle"
              /\ ok[a].id = IdOf(payload[a])
              /\ ok[a].flag => result[a] = "okTrue"
=============================================================================
