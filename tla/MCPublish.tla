------------------------------ MODULE MCPublish ------------------------------
(* Two attempts over two events and two payloads that are not events, one  *)
(* of which carries the id of an event: an event and its retry, an event   *)
(* and a malformed copy of it, or two different events.                    *)
EXTENDS Publish

CONSTANTS a1, a2, e1, e2, x1, x2

MCAttempts == {a1, a2}
MCEvents == {e1, e2}
MCGarbage == {x1, x2}
MCIdIn == [x \in Garbage |-> IF x = x2 THEN e1 ELSE None]
=============================================================================
