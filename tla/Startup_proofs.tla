--------------------------- MODULE Startup_proofs ---------------------------
(***************************************************************************)
(* TLAPS proofs about the start and the end of the processes of one host,  *)
(* for any processes, environments, ports and length of the port scan.     *)
(***************************************************************************)
EXTENDS Startup, TLAPS

-----------------------------------------------------------------------------
(* The inductive invariant.                                                *)

\* Who gets where: a refused process never holds anything, only an outlay
\* with a database file opens it, only one without an upstream scans.
PlacesFit ==
    \A p \in Procs :
        /\ pc[p] \notin Down => p \notin Refused
        /\ pc[p] = "opening" => p \in Sqlite
        /\ pc[p] \in {"scanning", "relayFailed"} => p \notin Proxying
        /\ pc[p] \in {"connecting", "serving"} => p \in Outlays
        /\ pc[p] = "binding" => p \in Shims

\* A scan, begun or about to, is inside its range and has found every earlier
\* candidate busy.
ScanExact ==
    \A p \in Procs : pc[p] \in {"opening", "scanning"} =>
        /\ offset[p] < TriesOf(p)
        /\ refused[p] = Start(p)..(Start(p) + offset[p] - 1)

\* A process holds no relay port before its scan found one, which is then the
\* lowest that was not busy.
RelayPortLowest ==
    \A p \in Procs :
        /\ pc[p] \in Down \cup {"opening", "scanning"} => bound[p] = NoAddr
        /\ bound[p] # NoAddr => refused[p] = Start(p)..(bound[p] - 1)

\* A port of a relay has no other holder.
RelayPortsExclusive ==
    \A p \in Procs : bound[p] # NoAddr =>
        /\ bound[p] \notin others
        /\ \A q \in Procs \ {p} : bound[q] # bound[p]
        /\ \A s \in listening : Listen(s) # bound[p]

\* A bundled outlay past its scan has its port, and dials it from then on.
UpstreamSet ==
    \A o \in Outlays :
        /\ upstream[o] = IF pc[o] \in {"serving", "running"} THEN UpstreamOf(o) ELSE NoAddr
        /\ o \notin Proxying /\ pc[o] \in {"connecting", "serving", "running"}
              => bound[o] \in Ports

\* A database file has what the relays on it acknowledged, running or not.
AckedOnDisk == \A o \in Sqlite : acked[o] \ Ephemeral \subseteq disk[ServerConfig[o].db]

StartupInv ==
    /\ TypeOK
    /\ PlacesFit /\ ScanExact /\ GivesUpAfterAll
    /\ RelayPortLowest /\ RelayPortsExclusive /\ UpstreamSet /\ AckedOnDisk

-----------------------------------------------------------------------------
(* The operators.                                                          *)

\* The kinds of process are disjoint; a scan has at least one candidate.
LEMMA Kinds ==
    /\ Procs = Outlays \cup Shims /\ Outlays \cap Shims = {}
    /\ Proxying \subseteq Outlays /\ Sqlite \subseteq Outlays
    /\ RelayOff \subseteq Shims
    /\ Sqlite \cap Refused = {} /\ Sqlite \cap Proxying = {}
  BY StartupAssumption DEF Procs, Proxying, Sqlite, RelayOff

\* The range of a scan is never empty, never longer than Tries, and in Ports.
LEMMA RangeInPorts ==
    ASSUME NEW p \in Procs, p \notin Refused
    PROVE  /\ Start(p) \in Nat /\ TriesOf(p) \in Nat \ {0} /\ TriesOf(p) <= Tries
           /\ Start(p)..(Start(p) + TriesOf(p) - 1) \subseteq Ports
  <1>1. CASE Fixed(p)
    <2>1. p \in Outlays \ Refused /\ ServerConfig[p].port # 0
      BY <1>1 DEF Fixed
    <2>2. ServerConfig[p].port \in Ports /\ ServerConfig[p].port \in Nat
      BY <2>1, StartupAssumption
    <2>3. Start(p) = ServerConfig[p].port /\ TriesOf(p) = 1
      BY <1>1 DEF Start, TriesOf
    <2> QED
      BY <2>2, <2>3, StartupAssumption
  <1>2. CASE ~Fixed(p)
    BY <1>2, StartupAssumption DEF Start, TriesOf
  <1> QED
    BY <1>1, <1>2

\* The candidate of a scan is a port.
LEMMA CandidateIsPort ==
    ASSUME StartupInv, NEW p \in Procs, pc[p] = "scanning"
    PROVE  Candidate(p) \in Ports /\ Candidate(p) \in Nat \ {0}
  <1>1. p \notin Refused /\ offset[p] \in Nat /\ offset[p] < TriesOf(p)
    <2>1. p \notin Refused
      BY DEF StartupInv, PlacesFit, Down
    <2>2. offset[p] \in Nat
      BY StartupAssumption DEF StartupInv, TypeOK
    <2> QED
      BY <2>1, <2>2 DEF StartupInv, ScanExact
  <1>2. Candidate(p) \in Start(p)..(Start(p) + TriesOf(p) - 1)
    BY <1>1, RangeInPorts DEF Candidate
  <1> QED
    BY <1>1, <1>2, RangeInPorts, StartupAssumption

\* An outlay whose backend is not spelled "memory" keeps a database file.
LEMMA NotVolatile ==
    ASSUME NEW o \in Outlays \ (Refused \cup Proxying), ServerEnv[o].backend # "memory"
    PROVE  o \in Sqlite
  <1>1. ServerConfig[o] = ReadServerConfig(ServerEnv[o]) /\ ServerConfig[o] # None
    BY DEF ServerConfig, Refused
  <1>2. ServerConfig[o].backend = BackendOf(ServerEnv[o].backend)
    <2> DEFINE e == ServerEnv[o]
    <2>1. ServerConfig[o] = [proxy     |-> OptString(e.proxy),
                             relays    |-> RelaysOf(e.relays),
                             gift      |-> ServerGiftWrap(e.gift),
                             announced |-> Flag(OptBool(e.announced), FALSE),
                             backend   |-> BackendOf(e.backend),
                             db        |-> Or(OptString(e.db), "outlay-relay.db"),
                             port      |-> Or(e.port, 0)]
      BY <1>1, Zenon DEF ReadServerConfig
    <2> QED
      BY <2>1
  <1>3. BackendOf(ServerEnv[o].backend) = "Sqlite"
    BY DEF BackendOf, Or, OptString
  <1> QED
    BY <1>2, <1>3 DEF Sqlite

-----------------------------------------------------------------------------
(* Every step keeps the invariant.                                         *)

LEMMA InitInv == Init => StartupInv
  <1> SUFFICES ASSUME Init PROVE StartupInv
    OBVIOUS
  <1>1. TypeOK
    BY StartupAssumption DEF Init, TypeOK, PCs, NoAddr
  <1>2. PlacesFit /\ ScanExact /\ GivesUpAfterAll
    BY DEF Init, PlacesFit, ScanExact, GivesUpAfterAll, Down
  <1>3. RelayPortsExclusive /\ UpstreamSet
    BY Kinds DEF Init, RelayPortsExclusive, UpstreamSet
  <1>4. AckedOnDisk
    BY Kinds DEF Init, AckedOnDisk, Dbs
  <1>5. RelayPortLowest
    BY DEF Init, RelayPortLowest
  <1> QED
    BY <1>1, <1>2, <1>3, <1>4, <1>5 DEF StartupInv

\* A process that ends, wherever it stood.
LEMMA ExitInv ==
    ASSUME StartupInv, NEW p \in Procs, NEW why \in {"exited", "killed"}, Exit(p, why)
    PROVE  StartupInv'
  <1>1. TypeOK'
    BY DEF StartupInv, TypeOK, Exit, PCs
  <1>2. \A q \in Procs : /\ pc'[q] = IF q = p THEN why ELSE pc[q]
                         /\ bound'[q] = IF q = p THEN NoAddr ELSE bound[q]
    BY DEF StartupInv, TypeOK, Exit
  <1>3. PlacesFit' /\ ScanExact' /\ GivesUpAfterAll'
    BY <1>2 DEF StartupInv, Exit, PlacesFit, ScanExact, GivesUpAfterAll, Down
  <1>4. RelayPortsExclusive'
    BY <1>2 DEF StartupInv, Exit, RelayPortsExclusive
  <1>5. UpstreamSet'
    BY <1>2, Kinds DEF StartupInv, Exit, UpstreamSet, UpstreamOf
  <1>6. AckedOnDisk'
    BY DEF StartupInv, Exit, AckedOnDisk
  <1>7. RelayPortLowest'
    BY <1>2 DEF StartupInv, Exit, RelayPortLowest, Down
  <1> QED
    BY <1>1, <1>3, <1>4, <1>5, <1>6, <1>7 DEF StartupInv

\* A start, accepted or refused.
LEMMA LaunchInv ==
    ASSUME StartupInv, NEW p \in Procs, Launch(p) \/ LaunchErr(p)
    PROVE  StartupInv'
  <1>1. CASE Launch(p)
    <2>1. pc'[p] \in {"connecting", "binding", "opening", "scanning"}
      BY <1>1 DEF Launch, StartupInv, TypeOK
    <2>2. TypeOK'
      <3>1. pc' \in [Procs -> PCs]
        BY <1>1, <2>1 DEF Launch, StartupInv, TypeOK, PCs
      <3>2. starts' \in 0..MaxStarts
        BY <1>1, StartupAssumption DEF Launch, StartupInv, TypeOK
      <3>3. offset' \in [Procs -> 0..(Tries - 1)] /\ refused' \in [Procs -> SUBSET Ports]
        BY <1>1, StartupAssumption DEF Launch, StartupInv, TypeOK
      <3> QED
        BY <1>1, <3>1, <3>2, <3>3 DEF Launch, StartupInv, TypeOK, store
    <2>3. p \notin Refused /\ (pc'[p] = "opening" => p \in Sqlite)
          /\ (pc'[p] = "scanning" => p \notin Proxying)
          /\ (pc'[p] = "connecting" => p \in Proxying)
          /\ (pc'[p] = "binding" => p \in RelayOff)
      BY <1>1 DEF Launch, StartupInv, TypeOK
    <2>4. \A q \in Procs \ {p} : pc'[q] = pc[q] /\ offset'[q] = offset[q]
                                 /\ refused'[q] = refused[q]
      BY <1>1 DEF Launch, StartupInv, TypeOK
    <2>5. offset'[p] = 0 /\ refused'[p] = {}
      BY <1>1 DEF Launch, StartupInv, TypeOK
    <2>6. PlacesFit'
      BY <2>1, <2>3, <2>4, Kinds DEF StartupInv, PlacesFit
    <2>7. ScanExact'
      <3>1. Start(p)..(Start(p) + 0 - 1) = {} /\ 0 < TriesOf(p)
        BY <2>3, RangeInPorts
      <3> QED
        BY <2>4, <2>5, <3>1 DEF StartupInv, ScanExact
    <2>8. GivesUpAfterAll'
      BY <2>1, <2>4 DEF StartupInv, GivesUpAfterAll
    <2>9. UpstreamSet'
      <3>1. pc[p] \notin {"connecting", "serving", "running"}
        BY <1>1 DEF Launch, Down
      <3>2. bound' = bound /\ upstream' = upstream
        BY <1>1 DEF Launch
      <3> QED
        BY <2>1, <2>3, <2>4, <3>1, <3>2, Kinds DEF StartupInv, UpstreamSet, UpstreamOf
    <2>10. RelayPortsExclusive' /\ AckedOnDisk'
      BY <1>1 DEF Launch, StartupInv, RelayPortsExclusive, AckedOnDisk, store
    <2>11. RelayPortLowest'
      <3>1. bound' = bound /\ bound[p] = NoAddr
        BY <1>1 DEF Launch, StartupInv, RelayPortLowest
      <3> QED
        BY <2>4, <3>1 DEF StartupInv, RelayPortLowest
    <2> QED
      BY <2>2, <2>6, <2>7, <2>8, <2>9, <2>10, <2>11 DEF StartupInv
  <1>2. CASE LaunchErr(p)
    <2>1. TypeOK'
      BY <1>2, StartupAssumption DEF LaunchErr, StartupInv, TypeOK, PCs, store
    <2>2. \A q \in Procs : pc'[q] = IF q = p THEN "exited" ELSE pc[q]
      BY <1>2 DEF LaunchErr, StartupInv, TypeOK
    <2>3. pc[p] \in Down
      BY <1>2 DEF LaunchErr
    <2>4. UNCHANGED <<offset, bound, upstream, listening, others, refused, disk, memory, acked>>
      BY <1>2 DEF LaunchErr, store
    <2>5. PlacesFit' /\ ScanExact' /\ GivesUpAfterAll'
      BY <2>2, <2>4 DEF StartupInv, PlacesFit, ScanExact, GivesUpAfterAll, Down
    <2>6. RelayPortsExclusive' /\ AckedOnDisk'
      BY <2>4 DEF StartupInv, RelayPortsExclusive, AckedOnDisk
    <2>7. UpstreamSet'
      BY <2>2, <2>3, <2>4, Kinds DEF StartupInv, UpstreamSet, UpstreamOf, Down
    <2>8. RelayPortLowest'
      BY <2>2, <2>3, <2>4 DEF StartupInv, RelayPortLowest
    <2> QED
      BY <2>1, <2>5, <2>6, <2>7, <2>8 DEF StartupInv
  <1> QED
    BY <1>1, <1>2

\* The scan: a port that binds, or one that is busy.
LEMMA ScanInv ==
    ASSUME StartupInv, NEW p \in Procs, BindOk(p) \/ BindBusy(p)
    PROVE  StartupInv'
  <1>1. pc[p] = "scanning" /\ p \notin Refused /\ p \notin Proxying
    BY DEF StartupInv, PlacesFit, BindOk, BindBusy, Down
  <1>2. Candidate(p) \in Ports /\ Candidate(p) \in Nat \ {0}
    BY <1>1, CandidateIsPort
  <1>3. /\ offset[p] \in Nat /\ offset[p] < TriesOf(p)
        /\ refused[p] = Start(p)..(Start(p) + offset[p] - 1)
        /\ Start(p) \in Nat /\ TriesOf(p) \in Nat /\ TriesOf(p) <= Tries
    BY <1>1, RangeInPorts DEF StartupInv, TypeOK, ScanExact
  <1>4. CASE BindOk(p)
    <2>1. TypeOK'
      BY <1>2, <1>4 DEF BindOk, StartupInv, TypeOK, PCs, store
    <2>2. /\ pc'[p] = IF p \in Outlays THEN "connecting" ELSE "binding"
          /\ bound'[p] = Candidate(p)
          /\ \A q \in Procs \ {p} : pc'[q] = pc[q] /\ bound'[q] = bound[q]
      BY <1>4 DEF BindOk, StartupInv, TypeOK
    <2>3. UNCHANGED <<offset, upstream, listening, others, refused, disk, acked>>
      BY <1>4 DEF BindOk, store
    <2>4. PlacesFit'
      BY <1>1, <2>2, Kinds DEF StartupInv, PlacesFit
    <2>5. ScanExact' /\ GivesUpAfterAll'
      BY <2>2, <2>3 DEF StartupInv, ScanExact, GivesUpAfterAll
    <2>6. RelayPortsExclusive'
      <3>1. /\ Candidate(p) \notin others
            /\ \A q \in Procs : bound[q] # Candidate(p)
            /\ \A s \in listening : Listen(s) # Candidate(p)
        BY <1>4 DEF BindOk, Busy
      <3> QED
        BY <2>2, <2>3, <3>1 DEF StartupInv, RelayPortsExclusive
    <2>7. UpstreamSet'
      BY <1>1, <1>2, <2>2, <2>3, Kinds DEF StartupInv, UpstreamSet, UpstreamOf
    <2>8. AckedOnDisk'
      BY <2>3 DEF StartupInv, AckedOnDisk
    <2>9. RelayPortLowest'
      <3>1. refused'[p] = Start(p)..(bound'[p] - 1)
        BY <1>3, <2>2, <2>3 DEF Candidate
      <3> QED
        BY <2>2, <2>3, <3>1 DEF StartupInv, RelayPortLowest, Down
    <2> QED
      BY <2>1, <2>4, <2>5, <2>6, <2>7, <2>8, <2>9 DEF StartupInv
  <1>5. CASE BindBusy(p)
    <2>1. /\ refused' = [refused EXCEPT ![p] = @ \cup {Candidate(p)}]
          /\ UNCHANGED <<starts, bound, upstream, listening, others, disk, memory, acked>>
      BY <1>5 DEF BindBusy, store
    <2>2. /\ \A q \in Procs \ {p} : refused'[q] = refused[q]
          /\ refused'[p] = Start(p)..(Start(p) + offset[p])
      <3>1. refused'[p] = (Start(p)..(Start(p) + offset[p] - 1)) \cup {Start(p) + offset[p]}
        BY <1>3, <2>1 DEF StartupInv, TypeOK, Candidate
      <3>2. \A q \in Procs \ {p} : refused'[q] = refused[q]
        BY <2>1 DEF StartupInv, TypeOK
      <3>3. (Start(p)..(Start(p) + offset[p] - 1)) \cup {Start(p) + offset[p]}
               = Start(p)..(Start(p) + offset[p])
        BY <1>3
      <3> QED
        BY <3>1, <3>2, <3>3
    <2>3. CASE offset[p] + 1 < TriesOf(p)
      <3>1. offset' = [offset EXCEPT ![p] = @ + 1] /\ pc' = pc
        BY <1>5, <2>3 DEF BindBusy
      <3>2. /\ \A q \in Procs \ {p} : offset'[q] = offset[q]
            /\ offset'[p] = offset[p] + 1 /\ offset[p] + 1 \in 0..(Tries - 1)
        BY <1>3, <2>3, <3>1, StartupAssumption DEF StartupInv, TypeOK
      <3>3. TypeOK'
        BY <1>2, <2>1, <3>1, <3>2 DEF StartupInv, TypeOK
      <3>4. ScanExact'
        <4>1. Start(p) + (offset[p] + 1) - 1 = Start(p) + offset[p]
          BY <1>3
        <4> QED
          BY <2>2, <2>3, <3>1, <3>2, <4>1 DEF StartupInv, ScanExact
      <3>5. PlacesFit' /\ GivesUpAfterAll'
        BY <1>1, <2>2, <3>1 DEF StartupInv, PlacesFit, GivesUpAfterAll
      <3>6. RelayPortsExclusive' /\ UpstreamSet' /\ AckedOnDisk'
        BY <2>1, <3>1 DEF StartupInv, RelayPortsExclusive, UpstreamSet, UpstreamOf, AckedOnDisk
      <3>7. RelayPortLowest'
        BY <1>1, <2>1, <2>2, <3>1 DEF StartupInv, RelayPortLowest
      <3> QED
        BY <3>3, <3>4, <3>5, <3>6, <3>7 DEF StartupInv
    <2>4. CASE ~(offset[p] + 1 < TriesOf(p))
      <3>1. offset' = offset /\ pc' = [pc EXCEPT ![p] = "relayFailed"]
        BY <1>5, <2>4 DEF BindBusy
      <3>2. \A q \in Procs : pc'[q] = IF q = p THEN "relayFailed" ELSE pc[q]
        BY <3>1 DEF StartupInv, TypeOK
      <3>3. TypeOK'
        BY <1>2, <2>1, <3>1 DEF StartupInv, TypeOK, PCs
      <3>4. offset[p] = TriesOf(p) - 1
        BY <1>3, <2>4
      <3>5. GivesUpAfterAll'
        <4>1. Start(p) + TriesOf(p) - 1 = Start(p) + offset[p]
          BY <1>3, <3>4
        <4> QED
          BY <2>2, <3>2, <4>1 DEF StartupInv, GivesUpAfterAll
      <3>6. PlacesFit' /\ ScanExact'
        BY <1>1, <2>2, <3>1, <3>2 DEF StartupInv, PlacesFit, ScanExact
      <3>7. RelayPortsExclusive' /\ AckedOnDisk'
        BY <2>1 DEF StartupInv, RelayPortsExclusive, AckedOnDisk
      <3>8. UpstreamSet'
        BY <1>1, <2>1, <3>2, Kinds DEF StartupInv, UpstreamSet, UpstreamOf
      <3>9. RelayPortLowest'
        BY <1>1, <2>1, <2>2, <3>2 DEF StartupInv, RelayPortLowest, Down
      <3> QED
        BY <3>3, <3>5, <3>6, <3>7, <3>8, <3>9 DEF StartupInv
    <2> QED
      BY <2>3, <2>4
  <1> QED
    BY <1>4, <1>5

\* The steps of the two mains that neither scan nor end the process.
LEMMA MainInv ==
    ASSUME StartupInv, NEW p \in Procs,
           OpenDb(p) \/ Connect(p) \/ Serve(p) \/ RelaySoftFail(p) \/ ListenOk(p)
    PROVE  StartupInv'
  <1>1. CASE OpenDb(p)
    <2>1. TypeOK'
      BY <1>1 DEF OpenDb, StartupInv, TypeOK, PCs, store
    <2>2. \A q \in Procs : pc'[q] = IF q = p THEN "scanning" ELSE pc[q]
      BY <1>1 DEF OpenDb, StartupInv, TypeOK
    <2>3. pc[p] = "opening" /\ UNCHANGED <<offset, bound, upstream, listening, others, refused,
                                          disk, memory, acked>>
      BY <1>1 DEF OpenDb, store
    <2>4. p \in Sqlite /\ p \notin Refused /\ p \notin Proxying
      BY <2>3, Kinds DEF StartupInv, PlacesFit
    <2>5. PlacesFit'
      BY <2>2, <2>4 DEF StartupInv, PlacesFit
    <2>6. ScanExact' /\ GivesUpAfterAll' /\ RelayPortLowest'
      BY <2>2, <2>3 DEF StartupInv, ScanExact, GivesUpAfterAll, RelayPortLowest, Down
    <2>7. RelayPortsExclusive' /\ AckedOnDisk'
      BY <2>3 DEF StartupInv, RelayPortsExclusive, AckedOnDisk
    <2>8. UpstreamSet'
      BY <2>2, <2>3, Kinds DEF StartupInv, UpstreamSet, UpstreamOf
    <2> QED
      BY <2>1, <2>5, <2>6, <2>7, <2>8 DEF StartupInv
  <1>2. CASE Connect(p)
    <2>1. pc[p] = "connecting" /\ p \in Outlays
          /\ UNCHANGED <<starts, offset, bound, listening, others, refused, disk, memory, acked>>
      BY <1>2 DEF Connect, store
    <2>2. p \notin Proxying => bound[p] \in Ports
      BY <2>1 DEF StartupInv, UpstreamSet
    <2>3. UpstreamOf(p) \in Ports \cup {NoAddr, External} /\ UpstreamOf(p)' = UpstreamOf(p)
      BY <2>1, <2>2 DEF UpstreamOf
    <2>4. TypeOK'
      BY <1>2, <2>1, <2>3 DEF Connect, StartupInv, TypeOK, PCs
    <2>5. \A q \in Procs : pc'[q] = IF q = p THEN "serving" ELSE pc[q]
      BY <1>2 DEF Connect, StartupInv, TypeOK
    <2>6. \A o \in Outlays : upstream'[o] = IF o = p THEN UpstreamOf(p) ELSE upstream[o]
      BY <1>2 DEF Connect, StartupInv, TypeOK
    <2>7. PlacesFit' /\ ScanExact' /\ GivesUpAfterAll' /\ RelayPortLowest'
      BY <2>1, <2>5 DEF StartupInv, PlacesFit, ScanExact, GivesUpAfterAll,
                             RelayPortLowest, Down
    <2>8. RelayPortsExclusive' /\ AckedOnDisk'
      BY <2>1 DEF StartupInv, RelayPortsExclusive, AckedOnDisk
    <2>9. UpstreamSet'
      BY <2>1, <2>5, <2>6, Kinds DEF StartupInv, UpstreamSet, UpstreamOf
    <2> QED
      BY <2>4, <2>7, <2>8, <2>9 DEF StartupInv
  <1>3. CASE Serve(p)
    <2>1. pc[p] = "serving" /\ p \in Outlays
          /\ UNCHANGED <<starts, offset, bound, upstream, listening, others, refused, store>>
      BY <1>3 DEF Serve
    <2>2. TypeOK'
      BY <1>3 DEF Serve, StartupInv, TypeOK, PCs, store
    <2>3. \A q \in Procs : pc'[q] = IF q = p THEN "running" ELSE pc[q]
      BY <1>3 DEF Serve, StartupInv, TypeOK
    <2>4. PlacesFit' /\ ScanExact' /\ GivesUpAfterAll' /\ RelayPortLowest'
      BY <2>1, <2>3 DEF StartupInv, PlacesFit, ScanExact, GivesUpAfterAll,
                             RelayPortLowest, Down
    <2>5. RelayPortsExclusive' /\ AckedOnDisk'
      BY <2>1 DEF StartupInv, RelayPortsExclusive, AckedOnDisk, store
    <2>6. UpstreamSet'
      BY <2>1, <2>3, Kinds DEF StartupInv, UpstreamSet, UpstreamOf
    <2> QED
      BY <2>2, <2>4, <2>5, <2>6 DEF StartupInv
  <1>4. CASE RelaySoftFail(p)
    <2>1. pc[p] = "relayFailed" /\ p \in Shims
          /\ UNCHANGED <<starts, offset, bound, upstream, listening, others, refused, store>>
      BY <1>4 DEF RelaySoftFail
    <2>2. TypeOK'
      BY <1>4 DEF RelaySoftFail, StartupInv, TypeOK, PCs, store
    <2>3. \A q \in Procs : pc'[q] = IF q = p THEN "binding" ELSE pc[q]
      BY <1>4 DEF RelaySoftFail, StartupInv, TypeOK
    <2>4. PlacesFit' /\ ScanExact' /\ GivesUpAfterAll' /\ RelayPortLowest'
      BY <2>1, <2>3 DEF StartupInv, PlacesFit, ScanExact, GivesUpAfterAll,
                             RelayPortLowest, Down
    <2>5. RelayPortsExclusive' /\ AckedOnDisk'
      BY <2>1 DEF StartupInv, RelayPortsExclusive, AckedOnDisk, store
    <2>6. UpstreamSet'
      BY <2>1, <2>3, Kinds DEF StartupInv, UpstreamSet, UpstreamOf
    <2> QED
      BY <2>2, <2>4, <2>5, <2>6 DEF StartupInv
  <1>5. CASE ListenOk(p)
    <2>1. pc[p] = "binding" /\ p \in Shims /\ listening' = listening \cup {p}
          /\ UNCHANGED <<starts, offset, bound, upstream, others, refused, store>>
      BY <1>5 DEF ListenOk
    <2>2. TypeOK'
      BY <1>5 DEF ListenOk, StartupInv, TypeOK, PCs, store
    <2>3. \A q \in Procs : pc'[q] = IF q = p THEN "running" ELSE pc[q]
      BY <1>5 DEF ListenOk, StartupInv, TypeOK
    <2>4. PlacesFit' /\ ScanExact' /\ GivesUpAfterAll' /\ RelayPortLowest'
      BY <2>1, <2>3 DEF StartupInv, PlacesFit, ScanExact, GivesUpAfterAll,
                             RelayPortLowest, Down
    <2>5. RelayPortsExclusive'
      <3>1. \A q \in Procs : bound[q] # Listen(p)
        BY <1>5 DEF ListenOk, Busy
      <3> QED
        BY <2>1, <3>1 DEF StartupInv, RelayPortsExclusive
    <2>6. UpstreamSet'
      BY <2>1, <2>3, Kinds DEF StartupInv, UpstreamSet, UpstreamOf
    <2>7. AckedOnDisk'
      BY <2>1 DEF StartupInv, AckedOnDisk, store
    <2> QED
      BY <2>2, <2>4, <2>5, <2>6, <2>7 DEF StartupInv
  <1> QED
    BY <1>1, <1>2, <1>3, <1>4, <1>5

\* An event that a running relay accepts.
LEMMA SaveInv ==
    ASSUME StartupInv, NEW p \in Procs, NEW e \in Events, SaveEvent(p, e)
    PROVE  StartupInv'
  <1>1. TypeOK'
    BY DEF SaveEvent, StartupInv, TypeOK
  <1>2. UNCHANGED <<pc, starts, offset, bound, upstream, listening, others, refused>>
    BY DEF SaveEvent
  <1>3. PlacesFit' /\ ScanExact' /\ GivesUpAfterAll' /\ RelayPortLowest'
    BY <1>2 DEF StartupInv, PlacesFit, ScanExact, GivesUpAfterAll, RelayPortLowest
  <1>4. RelayPortsExclusive' /\ UpstreamSet'
    BY <1>2 DEF StartupInv, RelayPortsExclusive, UpstreamSet, UpstreamOf
  <1>5. AckedOnDisk'
    <2> SUFFICES ASSUME NEW o \in Sqlite
                 PROVE  acked'[o] \ Ephemeral \subseteq disk'[ServerConfig[o].db]
      BY DEF AckedOnDisk
    <2>1. o \in Procs /\ ServerConfig[o].db \in Dbs
      BY Kinds DEF Dbs
    <2>2. acked'[o] = IF o = p THEN acked[o] \cup {e} ELSE acked[o]
      BY <2>1 DEF SaveEvent, StartupInv, TypeOK
    <2>3. disk'[ServerConfig[o].db]
            = IF p \in Sqlite /\ ServerConfig[o].db = ServerConfig[p].db
              THEN disk[ServerConfig[o].db] \cup ({e} \ Ephemeral) ELSE disk[ServerConfig[o].db]
      BY <2>1 DEF SaveEvent
    <2> QED
      BY <2>2, <2>3 DEF StartupInv, AckedOnDisk
  <1> QED
    BY <1>1, <1>3, <1>4, <1>5 DEF StartupInv

\* Unrelated programs.
LEMMA OthersInv ==
    ASSUME StartupInv, NEW q \in Ports, OtherBinds(q) \/ OtherFrees(q)
    PROVE  StartupInv'
  <1>1. UNCHANGED <<pc, starts, offset, bound, upstream, listening, refused, store>>
    BY DEF OtherBinds, OtherFrees
  <1>2. TypeOK'
    BY DEF OtherBinds, OtherFrees, StartupInv, TypeOK, store
  <1>3. PlacesFit' /\ ScanExact' /\ GivesUpAfterAll' /\ RelayPortLowest'
    BY <1>1 DEF StartupInv, PlacesFit, ScanExact, GivesUpAfterAll, RelayPortLowest
  <1>4. UpstreamSet' /\ AckedOnDisk'
    BY <1>1 DEF StartupInv, UpstreamSet, UpstreamOf, AckedOnDisk, store
  <1>5. RelayPortsExclusive'
    <2>1. \A p \in Procs : bound[p] \in others' => bound[p] \in others
      BY DEF OtherBinds, OtherFrees, Busy
    <2> QED
      BY <1>1, <2>1 DEF StartupInv, RelayPortsExclusive
  <1> QED
    BY <1>2, <1>3, <1>4, <1>5 DEF StartupInv

LEMMA NextInv == StartupInv /\ [Next]_vars => StartupInv'
  <1> SUFFICES ASSUME StartupInv, [Next]_vars PROVE StartupInv'
    OBVIOUS
  <1>1. ASSUME NEW p \in Procs, Launch(p) \/ LaunchErr(p) PROVE StartupInv'
    BY <1>1, LaunchInv
  <1>2. ASSUME NEW p \in Procs, Progress(p) PROVE StartupInv'
    BY <1>2, ScanInv, MainInv, ExitInv
       DEF Progress, OpenErr, RelayRequired, ConnectErr, ListenErr
  <1>3. ASSUME NEW p \in Procs, Shutdown(p) \/ Kill(p) PROVE StartupInv'
    BY <1>3, ExitInv DEF Shutdown, Kill
  <1>4. ASSUME NEW p \in Procs, NEW e \in Events, SaveEvent(p, e) PROVE StartupInv'
    BY <1>4, SaveInv
  <1>5. ASSUME NEW q \in Ports, OtherBinds(q) \/ OtherFrees(q) PROVE StartupInv'
    BY <1>5, OthersInv
  <1>6. CASE UNCHANGED vars
    BY <1>6 DEF vars, store, StartupInv, TypeOK, PlacesFit, ScanExact, GivesUpAfterAll,
                RelayPortLowest, RelayPortsExclusive, UpstreamSet, UpstreamOf, AckedOnDisk
  <1> QED
    BY <1>1, <1>2, <1>3, <1>4, <1>5, <1>6 DEF Next

\* The inductive invariant holds throughout.
THEOREM StartupInvariant == Spec => []StartupInv
  BY InitInv, NextInv, PTL DEF Spec

-----------------------------------------------------------------------------
(* The theorems.                                                           *)

\* Every variable keeps its type: no scan leaves the u16 ports or the range
\* of bind_with_port_scan, whatever the environments ask for.
THEOREM TypeCorrect == Spec => []TypeOK
  BY StartupInvariant, PTL DEF StartupInv

\* A bundled outlay dials the port of its own relay, and nobody else has it.
THEOREM DialsOwnRelay == Spec => []UpstreamIsOwnRelay
  <1>1. StartupInv => UpstreamIsOwnRelay
    <2> SUFFICES ASSUME StartupInv, NEW o \in Outlays \ Proxying,
                        upstream[o] # NoAddr \/ pc[o] \in {"serving", "running"}
                 PROVE  /\ upstream[o] = bound[o] /\ bound[o] \in Ports
                        /\ bound[o] \notin others
                        /\ \A p \in Procs \ {o} : bound[p] # bound[o]
                        /\ \A s \in listening : Listen(s) # bound[o]
      BY DEF UpstreamIsOwnRelay
    <2>1. upstream[o] = bound[o] /\ bound[o] \in Ports
      BY DEF StartupInv, UpstreamSet, UpstreamOf
    <2>2. bound[o] # NoAddr /\ o \in Procs
      BY <2>1, Kinds, StartupAssumption DEF NoAddr
    <2> QED
      BY <2>1, <2>2 DEF StartupInv, RelayPortsExclusive
  <1> QED
    BY <1>1, StartupInvariant, PTL

\* A relay gives up only after every candidate of its range was busy.
THEOREM ScansWholeRange == Spec => []GivesUpAfterAll
  BY StartupInvariant, PTL DEF StartupInv

\* An outlay that was not asked to be volatile serves what it ever acknowledged,
\* ephemeral events apart.
THEOREM ServesAcked == Spec => []AckedIsServed
  <1>1. StartupInv => AckedIsServed
    BY NotVolatile DEF StartupInv, AckedIsServed, AckedOnDisk, Query
  <1> QED
    BY <1>1, StartupInvariant, PTL

\* A starting shim gives up over its listen address only, and its own relay
\* has that port only if no lower one was free.
THEOREM BridgeOutlives == Spec => BridgeOutlivesRelay
  <1> DEFINE Reason(s) ==
                 \/ Listen(s) = Unbindable
                 \/ Listen(s) \in HeldElsewhere(s)
                 \/ bound[s] = Listen(s) /\ Base..(Listen(s) - 1) \subseteq refused[s]
             Allowed ==
                 \A s \in Shims :
                     pc[s] \notin Down \cup {"running"} /\ pc'[s] = "exited" => Reason(s)
  <1>1. StartupInv /\ [Next]_vars => [Allowed]_vars
    <2> SUFFICES ASSUME StartupInv, Next, NEW s \in Shims,
                        pc[s] \notin Down \cup {"running"}, pc'[s] = "exited"
                 PROVE  Reason(s)
      OBVIOUS
    <2>1. s \in Procs /\ s \notin Outlays /\ s \notin Sqlite /\ s \notin Proxying
      BY Kinds
    <2>2. pc'[s] # pc[s]
      BY DEF Down
    <2>3. ASSUME NEW p \in Procs, Launch(p) \/ LaunchErr(p) PROVE FALSE
      BY <2>1, <2>2, <2>3 DEF Launch, LaunchErr, StartupInv, TypeOK
    <2>4. ASSUME NEW p \in Procs, Progress(p) PROVE Reason(s)
      <3>1. CASE ListenErr(p)
        <4>1. p = s /\ pc[s] = "binding" /\ Listen(s) \in Busy \cup {Unbindable}
          BY <2>1, <2>2, <3>1 DEF ListenErr, Exit, StartupInv, TypeOK
        <4>2. \/ Listen(s) = Unbindable
              \/ Listen(s) \in HeldElsewhere(s)
              \/ Listen(s) # Unbindable /\ bound[s] = Listen(s)
          BY <4>1 DEF Busy, HeldElsewhere
        <4>3. ASSUME Listen(s) # Unbindable, bound[s] = Listen(s)
              PROVE  Base..(Listen(s) - 1) \subseteq refused[s]
          <5>1. s \notin Refused
            BY <2>1, <4>1 DEF StartupInv, PlacesFit, Down
          <5>2. bound[s] # NoAddr
            BY <4>3, <5>1, StartupAssumption DEF NoAddr
          <5>3. Start(s) = Base
            BY <2>1 DEF Start, Fixed
          <5> QED
            BY <2>1, <4>3, <5>2, <5>3 DEF StartupInv, RelayPortLowest
        <4> QED
          BY <4>2, <4>3
      <3>2. CASE OpenErr(p) \/ RelayRequired(p) \/ ConnectErr(p)
        BY <2>1, <2>2, <3>2
           DEF OpenErr, RelayRequired, ConnectErr, Exit, StartupInv, TypeOK, PlacesFit
      <3>3. CASE OpenDb(p) \/ BindOk(p) \/ Connect(p) \/ Serve(p) \/ RelaySoftFail(p)
                 \/ ListenOk(p)
        BY <2>1, <2>2, <3>3 DEF OpenDb, BindOk, Connect, Serve, RelaySoftFail, ListenOk,
                               StartupInv, TypeOK
      <3>4. CASE BindBusy(p)
        BY <2>1, <2>2, <3>4 DEF BindBusy, StartupInv, TypeOK
      <3> QED
        BY <2>4, <3>1, <3>2, <3>3, <3>4 DEF Progress
    <2>5. ASSUME NEW p \in Procs, Shutdown(p) \/ Kill(p) PROVE FALSE
      BY <2>1, <2>2, <2>5 DEF Shutdown, Kill, Exit, StartupInv, TypeOK
    <2>6. ASSUME NEW p \in Procs, NEW e \in Events, SaveEvent(p, e) PROVE FALSE
      BY <2>2, <2>6 DEF SaveEvent
    <2>7. ASSUME NEW q \in Ports, OtherBinds(q) \/ OtherFrees(q) PROVE FALSE
      BY <2>2, <2>7 DEF OtherBinds, OtherFrees
    <2> QED
      BY <2>3, <2>4, <2>5, <2>6, <2>7 DEF Next
  <1> QED
    BY <1>1, StartupInvariant, PTL DEF Spec, BridgeOutlivesRelay
=============================================================================
