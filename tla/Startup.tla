------------------------------- MODULE Startup -------------------------------
(***************************************************************************)
(* How the processes of one host come up and go down: main in              *)
(* crates/outlay/src/main.rs and crates/outlay-shim/src/main.rs, and       *)
(* BundledRelay with its port scan in crates/outlay-relay/src/lib.rs.      *)
(*                                                                         *)
(* A process is what Config makes of its environment.                      *)
(*                                                                         *)
(* Every process shares the loopback ports of the host with the others and *)
(* with unrelated programs, and nothing coordinates who binds what when.   *)
(* Port 0 in a configuration asks for a scan of Tries ports from Base up.  *)
(*                                                                         *)
(* A relay keeps events in its database: a file, which outlives processes, *)
(* the memory of the process, or nothing (MemorylessDatabase).             *)
(***************************************************************************)
EXTENDS Config, Integers, FiniteSets

CONSTANTS
    Outlays,    \* outlay processes
    Shims,      \* outlay-shim processes
    ServerEnv,  \* the environment of each outlay
    ShimEnv,    \* the environment of each shim
    Events,     \* events that clients publish
    Ephemeral,  \* those of an ephemeral kind
    Ports,      \* the u16 ports, 1..Max
    Base,       \* EPHEMERAL_BASE
    Tries,      \* EPHEMERAL_TRIES
    MaxOthers,  \* bound: ports held at once by unrelated programs
    MaxStarts   \* bound: starts of processes, first and later ones

Procs == Outlays \cup Shims

ServerConfig == [o \in Outlays |-> ReadServerConfig(ServerEnv[o])]

ShimConfig == [s \in Shims |-> ReadShimConfig(ShimEnv[s])]

\* Processes whose configuration or key is refused.
Refused == {o \in Outlays : ServerConfig[o] = None \/ ServerEnv[o].key = "bad"}
             \cup {s \in Shims : ShimConfig[s] = None}

\* Outlays with an external upstream, and those with a database file.
Proxying == {o \in Outlays \ Refused : ServerConfig[o].proxy # None}

Sqlite == {o \in Outlays \ (Refused \cup Proxying) : ServerConfig[o].backend = "Sqlite"}

RelayOff == {s \in Shims \ Refused : ~ShimConfig[s].relay}

Listen(s) == ShimConfig[s].listen

Dbs == {ServerConfig[o].db : o \in Sqlite}

\* The address an external upstream has in the model, and no address.
External == -1
NoAddr == 0

\* A listen address that no bind accepts: malformed, of another host, or of a
\* privileged port.
Unbindable == -2

ASSUME StartupAssumption ==
    /\ Outlays \cap Shims = {}
    /\ Ports \subseteq Nat \ {0}
    /\ \A o \in Outlays \ Refused : ServerConfig[o].port \in Ports \cup {0}
    /\ \A s \in Shims \ Refused : Listen(s) \in Ports \cup {Unbindable}
    /\ Ephemeral \subseteq Events
    /\ Tries \in Nat \ {0} /\ Base \in Nat \ {0}
    /\ Base..(Base + Tries - 1) \subseteq Ports
    /\ MaxOthers \in Nat /\ MaxStarts \in Nat

VARIABLES
    pc,         \* where each process stands
    starts,     \* how many starts there were
    offset,     \* its scan's offset
    bound,      \* the port of its relay, NoAddr if it has none
    upstream,   \* what an outlay's proxy dials, NoAddr before it does
    listening,  \* shims that hold their listen port
    others,     \* ports of unrelated programs
    disk,       \* the events in each database file
    memory,     \* the events in the memory of each outlay
    refused,    \* ports the process has found busy in its scan (history)
    acked       \* events that a relay of the process ever accepted (history)

store == <<disk, memory, acked>>

vars == <<pc, starts, offset, bound, upstream, listening, others, refused, store>>

PCs == {"off", "opening", "scanning", "connecting", "serving", "binding",
        "running", "relayFailed", "exited", "killed"}

\* Not started, ended by its own main, or by the kill of a starting process.
Down == {"off", "exited", "killed"}

TypeOK ==
    /\ pc \in [Procs -> PCs]
    /\ starts \in 0..MaxStarts
    /\ offset \in [Procs -> 0..(Tries - 1)]
    /\ bound \in [Procs -> Ports \cup {NoAddr}]
    /\ upstream \in [Outlays -> Ports \cup {NoAddr, External}]
    /\ listening \subseteq Shims
    /\ others \subseteq Ports
    /\ refused \in [Procs -> SUBSET Ports]
    /\ disk \in [Dbs -> SUBSET Events]
    /\ memory \in [Outlays -> SUBSET Events]
    /\ acked \in [Procs -> SUBSET Events]

Init ==
    /\ pc = [p \in Procs |-> "off"]
    /\ starts = 0
    /\ offset = [p \in Procs |-> 0]
    /\ bound = [p \in Procs |-> NoAddr]
    /\ upstream = [o \in Outlays |-> NoAddr]
    /\ listening = {}
    /\ others \in {S \in SUBSET Ports : Cardinality(S) <= MaxOthers}
    /\ refused = [p \in Procs |-> {}]
    /\ disk = [d \in Dbs |-> {}]
    /\ memory = [o \in Outlays |-> {}]
    /\ acked = [p \in Procs |-> {}]

-----------------------------------------------------------------------------

\* The operating system's view: a port has one holder.
Busy == others \cup {bound[p] : p \in Procs} \cup {Listen(s) : s \in listening}

\* (start, tries) of bind_with_port_scan.  A shim's relay always scans.
Fixed(p) == p \in Outlays /\ ServerConfig[p].port # 0

Start(p) == IF Fixed(p) THEN ServerConfig[p].port ELSE Base

TriesOf(p) == IF Fixed(p) THEN 1 ELSE Tries

Candidate(p) == Start(p) + offset[p]

\* A process that ends, for whatever reason, gives back its ports and memory.
Exit(p, why) ==
    /\ pc' = [pc EXCEPT ![p] = why]
    /\ bound' = [bound EXCEPT ![p] = NoAddr]
    /\ upstream' = [o \in Outlays |-> IF o = p THEN NoAddr ELSE upstream[o]]
    /\ listening' = listening \ {p}
    /\ memory' = [o \in Outlays |-> IF o = p THEN {} ELSE memory[o]]
    /\ UNCHANGED <<starts, offset, others, refused, disk, acked>>

-----------------------------------------------------------------------------
(* Both mains, up to the relay.                                            *)

\* Read the configuration and pick the mode: an outlay with an external
\* upstream and a shim without its relay skip the bundled relay.
Launch(p) ==
    /\ pc[p] \in Down /\ p \notin Refused
    /\ starts < MaxStarts
    /\ starts' = starts + 1
    /\ offset' = [offset EXCEPT ![p] = 0]
    /\ refused' = [refused EXCEPT ![p] = {}]
    /\ pc' = [pc EXCEPT ![p] = CASE p \in Proxying -> "connecting"
                                 [] p \in RelayOff -> "binding"
                                 [] p \in Sqlite   -> "opening"
                                 [] OTHER          -> "scanning"]
    /\ UNCHANGED <<bound, upstream, listening, others, store>>

\* `?` on a bad configuration or key ends main before it holds anything.
LaunchErr(p) ==
    /\ pc[p] \in Down /\ p \in Refused
    /\ starts < MaxStarts
    /\ starts' = starts + 1
    /\ pc' = [pc EXCEPT ![p] = "exited"]
    /\ UNCHANGED <<offset, bound, upstream, listening, others, refused, store>>

\* ensure_parent and the SQLite open, which may fail: `?` ends main.
OpenDb(o) ==
    /\ pc[o] = "opening"
    /\ pc' = [pc EXCEPT ![o] = "scanning"]
    /\ UNCHANGED <<starts, offset, bound, upstream, listening, others, refused, store>>

OpenErr(o) == pc[o] = "opening" /\ Exit(o, "exited")

\* A candidate that binds ends the scan.
BindOk(p) ==
    /\ pc[p] = "scanning"
    /\ Candidate(p) \notin Busy
    /\ bound' = [bound EXCEPT ![p] = Candidate(p)]
    /\ pc' = [pc EXCEPT ![p] = IF p \in Outlays THEN "connecting" ELSE "binding"]
    /\ UNCHANGED <<starts, offset, upstream, listening, others, refused, store>>

\* Wrong variant: the scan stops one candidate early.
BindBusy_stopsEarly(p) ==
    /\ pc[p] = "scanning"
    /\ Candidate(p) \in Busy
    /\ refused' = [refused EXCEPT ![p] = @ \cup {Candidate(p)}]
    /\ IF offset[p] + 2 < TriesOf(p)
       THEN offset' = [offset EXCEPT ![p] = @ + 1] /\ pc' = pc
       ELSE offset' = offset /\ pc' = [pc EXCEPT ![p] = "relayFailed"]
    /\ UNCHANGED <<starts, bound, upstream, listening, others, store>>

\* Wrong variant: the scan runs one candidate past the range.
BindBusy_oneMore(p) ==
    /\ pc[p] = "scanning"
    /\ Candidate(p) \in Busy
    /\ refused' = [refused EXCEPT ![p] = @ \cup {Candidate(p)}]
    /\ IF offset[p] < TriesOf(p)
       THEN offset' = [offset EXCEPT ![p] = @ + 1] /\ pc' = pc
       ELSE offset' = offset /\ pc' = [pc EXCEPT ![p] = "relayFailed"]
    /\ UNCHANGED <<starts, bound, upstream, listening, others, store>>

\* Wrong variant: the scan tries the same candidate again.
BindBusy_noAdvance(p) ==
    /\ pc[p] = "scanning"
    /\ Candidate(p) \in Busy
    /\ refused' = [refused EXCEPT ![p] = @ \cup {Candidate(p)}]
    /\ UNCHANGED <<pc, starts, offset, bound, upstream, listening, others, store>>

\* A busy candidate: the next one, or, after the last (a fixed port's only
\* one), an error.
BindBusy(p) ==
    /\ pc[p] = "scanning"
    /\ Candidate(p) \in Busy
    /\ refused' = [refused EXCEPT ![p] = @ \cup {Candidate(p)}]
    /\ IF offset[p] + 1 < TriesOf(p)
       THEN offset' = [offset EXCEPT ![p] = @ + 1] /\ pc' = pc
       ELSE offset' = offset /\ pc' = [pc EXCEPT ![p] = "relayFailed"]
    /\ UNCHANGED <<starts, bound, upstream, listening, others, store>>

-----------------------------------------------------------------------------
(* outlay: main, after the relay.                                          *)

\* `?` on the failed spawn ends main.
RelayRequired(o) == o \in Outlays /\ pc[o] = "relayFailed" /\ Exit(o, "exited")

\* Wrong variant: the configured port is advertised, as LocalRelay::url does.
UpstreamOf_configured(o) == IF o \in Proxying THEN External ELSE ServerConfig[o].port

\* The bundled relay's URL, else the configured one.
UpstreamOf(o) == IF o \in Proxying THEN External ELSE bound[o]

\* Proxy::new, which connects in the background.
Connect(o) ==
    /\ o \in Outlays /\ pc[o] = "connecting"
    /\ upstream' = [upstream EXCEPT ![o] = UpstreamOf(o)]
    /\ pc' = [pc EXCEPT ![o] = "serving"]
    /\ UNCHANGED <<starts, offset, bound, listening, others, refused, store>>

\* The ContextVM transport starts and serves.
Serve(o) ==
    /\ o \in Outlays /\ pc[o] = "serving"
    /\ pc' = [pc EXCEPT ![o] = "running"]
    /\ UNCHANGED <<starts, offset, bound, upstream, listening, others, refused, store>>

\* Proxy::new, the transport or serve fails: `?` ends main.
ConnectErr(o) ==
    o \in Outlays /\ pc[o] \in {"connecting", "serving"} /\ Exit(o, "exited")

-----------------------------------------------------------------------------
(* outlay-shim: main, after the relay.                                     *)

\* Wrong variant: a relay that cannot start ends the shim.
RelaySoftFail_exits(s) == s \in Shims /\ pc[s] = "relayFailed" /\ Exit(s, "exited")

\* A relay that cannot start is logged; the bridge goes on without it.
RelaySoftFail(s) ==
    /\ s \in Shims /\ pc[s] = "relayFailed"
    /\ pc' = [pc EXCEPT ![s] = "binding"]
    /\ UNCHANGED <<starts, offset, bound, upstream, listening, others, refused, store>>

\* TcpListener::bind on listen_addr.
ListenOk(s) ==
    /\ s \in Shims /\ pc[s] = "binding"
    /\ Listen(s) \notin Busy \cup {Unbindable}
    /\ listening' = listening \cup {s}
    /\ pc' = [pc EXCEPT ![s] = "running"]
    /\ UNCHANGED <<starts, offset, bound, upstream, others, refused, store>>

\* `?` on the failed bind, whatever its reason, ends main.
ListenErr(s) ==
    /\ s \in Shims /\ pc[s] = "binding"
    /\ Listen(s) \in Busy \cup {Unbindable}
    /\ Exit(s, "exited")

-----------------------------------------------------------------------------

\* A signal, or the end of outlay's service: main shuts its relay down and
\* returns.
Shutdown(p) == pc[p] = "running" /\ Exit(p, "exited")

\* The process is killed, starting or running.
Kill(p) == pc[p] \notin Down /\ Exit(p, "killed")

\* save_event, then the OK true.  No database keeps an event of an ephemeral
\* kind, and MemorylessDatabase, the shim's, keeps nothing.
SaveEvent(p, e) ==
    /\ pc[p] = "running" /\ bound[p] # NoAddr
    /\ acked' = [acked EXCEPT ![p] = @ \cup {e}]
    /\ disk' = [d \in Dbs |-> IF p \in Sqlite /\ d = ServerConfig[p].db
                              THEN disk[d] \cup ({e} \ Ephemeral) ELSE disk[d]]
    /\ memory' = [o \in Outlays |-> IF o = p /\ o \notin Sqlite
                                    THEN memory[o] \cup ({e} \ Ephemeral) ELSE memory[o]]
    /\ UNCHANGED <<pc, starts, offset, bound, upstream, listening, others, refused>>

\* What a REQ finds in the database of p's relay.
Query(p) == IF p \in Sqlite THEN disk[ServerConfig[p].db]
            ELSE IF p \in Outlays THEN memory[p] ELSE {}

\* Unrelated programs take and leave ports.
OtherBinds(q) ==
    /\ q \notin Busy /\ Cardinality(others) < MaxOthers
    /\ others' = others \cup {q}
    /\ UNCHANGED <<pc, starts, offset, bound, upstream, listening, refused, store>>

OtherFrees(q) ==
    /\ q \in others
    /\ others' = others \ {q}
    /\ UNCHANGED <<pc, starts, offset, bound, upstream, listening, refused, store>>

-----------------------------------------------------------------------------

Progress(p) ==
    \/ OpenDb(p) \/ OpenErr(p) \/ BindOk(p) \/ BindBusy(p)
    \/ RelayRequired(p) \/ Connect(p) \/ Serve(p) \/ ConnectErr(p)
    \/ RelaySoftFail(p) \/ ListenOk(p) \/ ListenErr(p)

Next ==
    \/ \E p \in Procs : \/ Launch(p) \/ LaunchErr(p) \/ Progress(p) \/ Shutdown(p) \/ Kill(p)
                        \/ \E e \in Events : SaveEvent(p, e)
    \/ \E q \in Ports : OtherBinds(q) \/ OtherFrees(q)

Spec == Init /\ [][Next]_vars

\* A started process runs.
FairSpec == Spec /\ \A p \in Procs : WF_vars(Progress(p))

-----------------------------------------------------------------------------
(* Properties.                                                             *)

\* outlay-relay/lib.rs:199-205, 226-229, outlay/main.rs:83-97.  A bundled outlay dials the port on which
\* its own relay listens, never port 0 and never a port that some other
\* process got hold of.
UpstreamIsOwnRelay ==
    \A o \in Outlays \ Proxying :
        upstream[o] # NoAddr \/ pc[o] \in {"serving", "running"} =>
            /\ upstream[o] = bound[o] /\ bound[o] \in Ports
            /\ bound[o] \notin others
            /\ \A p \in Procs \ {o} : bound[p] # bound[o]
            /\ \A s \in listening : Listen(s) # bound[o]

\* outlay-relay/lib.rs:221-246.  A relay gives up only after every candidate was busy when
\* it was tried, the last one of the range included.
GivesUpAfterAll ==
    \A p \in Procs :
        pc[p] = "relayFailed" => refused[p] = Start(p)..(Start(p) + TriesOf(p) - 1)

\* The ports that a shim cannot have because somebody else has them.
HeldElsewhere(s) ==
    others \cup {bound[p] : p \in Procs \ {s}} \cup {Listen(t) : t \in listening}

\* outlay-shim/main.rs:24-49, 59.  The bridge outlives its relay: a starting
\* shim gives up over a listen address that cannot be bound or that somebody
\* else holds, and never because its relay failed.  The relay is to blame in
\* one case only, when its scan found every port below the listen port busy
\* and so took the listen port itself.
BridgeOutlivesRelay ==
    [][\A s \in Shims :
          pc[s] \notin Down \cup {"running"} /\ pc'[s] = "exited" =>
              \/ Listen(s) = Unbindable
              \/ Listen(s) \in HeldElsewhere(s)
              \/ bound[s] = Listen(s) /\ Base..(Listen(s) - 1) \subseteq refused[s]]_vars

\* README.md:9-10, outlay/config.rs:93, outlay/main.rs:63-67.  Unless its
\* operator asked for the volatile backend, an outlay that runs its own relay
\* serves every event that relay ever acknowledged, the ephemeral ones apart,
\* whatever ended the processes in between and however its environment is
\* misspelled.
AckedIsServed ==
    \A o \in Outlays \ (Refused \cup Proxying) :
        pc[o] = "running" /\ ServerEnv[o].backend # "memory"
            => acked[o] \ Ephemeral \subseteq Query(o)

\* outlay/main.rs:39-132.  A start is decided: the process runs, ends, or is killed.
StartDecided == \A p \in Procs : pc[p] = "scanning" ~> pc[p] \in Down \cup {"running"}

=============================================================================
