----------------------------- MODULE MCStartup -----------------------------
(* A host with a few processes.  Base is 1 and a shim listens on port 3,   *)
(* as 8086 and 8088 in the defaults of the two crates.                     *)
EXTENDS Startup

CONSTANTS o1, o2, o3, o4, s1, s2, e1, e2

MCPorts == 1..3

ServerDefaults == [proxy |-> None, relays |-> None, gift |-> None, announced |-> None,
                   backend |-> None, db |-> None, port |-> None, key |-> None]

ShimDefaults == [listen |-> None, relays |-> None, encryption |-> None, gift |-> None,
                 cap |-> None, relay |-> None, public |-> None]

\* A default outlay, a volatile one with a fixed port inside the range of the
\* scan, one with an external upstream, and one whose flag is not understood.
MCOutlays == {o1, o2, o3, o4}
MCServerEnv ==
    [o \in Outlays |->
        CASE o = o2 -> [ServerDefaults EXCEPT !.backend = "memory", !.port = 2]
          [] o = o3 -> [ServerDefaults EXCEPT !.proxy = "wss"]
          [] o = o4 -> [ServerDefaults EXCEPT !.announced = "TRUE"]
          [] OTHER  -> ServerDefaults]

\* A default shim, and one without a relay whose listen address is no good.
MCShims == {s1, s2}
MCShimEnv ==
    [s \in Shims |-> IF s = s1 THEN ShimDefaults
                     ELSE [ShimDefaults EXCEPT !.relay = "FALSE", !.listen = Unbindable]]

MCEvents == {e1, e2}
MCEphemeral == {e2}
=============================================================================
