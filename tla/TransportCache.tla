--------------------------- MODULE TransportCache ---------------------------
(***************************************************************************)
(* The shim's cache of outlay transports: TransportCache::get in           *)
(* crates/outlay-shim/src/transport.rs, called by every WebSocket          *)
(* connection (conn.rs) and every NIP-11 request (nip11.rs).               *)
(*                                                                         *)
(* The LRU map is touched under a mutex, in one step; the transport is     *)
(* built outside it, in an OnceCell that the callers of one identity       *)
(* share.  The map and the callers still inside `get` hold the cell; the   *)
(* Peer that `get` returns does not.  When the last holder lets go, the    *)
(* cell is dropped and the transport in it is cancelled.                   *)
(*                                                                         *)
(* A cell is named after the caller that created it.                       *)
(***************************************************************************)
EXTENDS Naturals, Sequences, FiniteSets

CONSTANTS
    Getters,      \* callers of get()
    HttpGetters,  \* those that are HTTP handlers, dropped with their request
    Identities,   \* outlay public keys
    Hints,        \* relay hints of a path; NoHints if it has none
    NoHints,
    Cap,          \* max_cached_outlays, at least 1
    None

ASSUME CacheAssumption ==
    /\ HttpGetters \subseteq Getters
    /\ NoHints \in Hints
    /\ Cap \in Nat \ {0}
    /\ None \notin Getters \cup Identities \cup Hints

VARIABLES
    pc,       \* "idle", "waiting", "building", "have", "failed", "gone"
    key,      \* the identity a caller asked for
    hint,     \* the hints of its path
    cell,     \* the cell it found or made
    lru,      \* the cached cells, least recently used first
    ident,    \* the identity of a cell
    ready,    \* a cell holds a transport
    dead,     \* the transport in a cell has died for good
    filled,   \* the caller whose build, with its hints, is in a cell
    builder,  \* the caller that holds a cell's initialisation permit
    peer,     \* the transport a caller has a Peer of, named after its builder
    others    \* identities asked for since a cell was last asked for (history)

vars == <<pc, key, hint, cell, lru, ident, ready, dead, filled, builder,
          peer, others>>

TypeOK ==
    /\ pc \in [Getters -> {"idle", "waiting", "building", "have", "failed", "gone"}]
    /\ key \in [Getters -> Identities \cup {None}]
    /\ hint \in [Getters -> Hints \cup {None}]
    /\ cell \in [Getters -> Getters \cup {None}]
    /\ lru \in Seq(Getters) /\ Len(lru) <= Cap
    /\ ident \in [Getters -> Identities \cup {None}]
    /\ ready \in [Getters -> BOOLEAN]
    /\ dead \in [Getters -> BOOLEAN]
    /\ filled \in [Getters -> Getters \cup {None}]
    /\ builder \in [Getters -> Getters \cup {None}]
    /\ peer \in [Getters -> Getters \cup {None}]
    /\ others \in [Getters -> SUBSET Identities]

Init ==
    /\ pc = [g \in Getters |-> "idle"]
    /\ key = [g \in Getters |-> None]
    /\ hint = [g \in Getters |-> None]
    /\ cell = [g \in Getters |-> None]
    /\ lru = <<>>
    /\ ident = [c \in Getters |-> None]
    /\ ready = [c \in Getters |-> FALSE]
    /\ dead = [c \in Getters |-> FALSE]
    /\ filled = [c \in Getters |-> None]
    /\ builder = [c \in Getters |-> None]
    /\ peer = [g \in Getters |-> None]
    /\ others = [c \in Getters |-> {}]

-----------------------------------------------------------------------------

Cached == {lru[i] : i \in DOMAIN lru}

\* Somebody holds the cell, so that it has not been dropped.
Alive(c) ==
    \/ c \in Cached
    \/ \E g \in Getters : pc[g] \in {"waiting", "building"} /\ cell[g] = c

\* The transport in the cell runs.
Live(c) == ready[c] /\ ~dead[c] /\ Alive(c)

\* LruCache::get moves a hit to the recently used end.
\* Wrong variant: a hit is read without being touched.
Touch_peeks(c) == lru

Touch(c) ==
    LET p == CHOOSE i \in DOMAIN lru : lru[i] = c
    IN [i \in DOMAIN lru |-> IF i < p THEN lru[i]
                             ELSE IF i < Len(lru) THEN lru[i + 1] ELSE c]

\* LruCache::put drops the least recently used entry when the cache is full.
\* Wrong variant: the bound is off by one.
Put_offByOne(c) == Append(IF Len(lru) > Cap THEN Tail(lru) ELSE lru, c)

\* Wrong variant: the entry at the wrong end is dropped.
Put_evictsNewest(c) == Append(IF Len(lru) >= Cap THEN SubSeq(lru, 1, Cap - 1) ELSE lru, c)

Put(c) == Append(IF Len(lru) >= Cap THEN Tail(lru) ELSE lru, c)

\* Wrong variant: the map is keyed by the path as the client spelled it.
Hits_keyedByPath(id, h) == {c \in Cached : ident[c] = id /\ hint[c] = h}

\* The cached cell of an identity: the key is the hex pubkey, whatever the
\* spelling of the path and its hints.
Hits(id, h) == {c \in Cached : ident[c] = id}

\* The locked section of get: find the identity's cell or put a fresh one.
Lookup(g, id, h) ==
    /\ pc[g] = "idle"
    /\ pc' = [pc EXCEPT ![g] = "waiting"]
    /\ key' = [key EXCEPT ![g] = id]
    /\ hint' = [hint EXCEPT ![g] = h]
    /\ LET c == IF Hits(id, h) = {} THEN g ELSE CHOOSE x \in Hits(id, h) : TRUE
       IN /\ cell' = [cell EXCEPT ![g] = c]
          /\ lru' = IF c = g THEN Put(g) ELSE Touch(c)
          /\ ident' = [ident EXCEPT ![c] = id]
          /\ others' = [x \in Getters |->
                          IF x = c THEN {}
                          ELSE IF x \in Cached THEN others[x] \cup {id}
                          ELSE others[x]]
    /\ UNCHANGED <<ready, dead, filled, builder, peer>>

\* Wrong variant: an empty cell is built and then set, without a permit.
StartBuild_unguarded(g) ==
    /\ pc[g] = "waiting"
    /\ ~ready[cell[g]]
    /\ builder' = [builder EXCEPT ![cell[g]] = g]
    /\ pc' = [pc EXCEPT ![g] = "building"]
    /\ UNCHANGED <<key, hint, cell, lru, ident, ready, dead, filled, peer, others>>

\* OnceCell::get_or_try_init: one caller at a time runs its initialiser.
StartBuild(g) ==
    /\ pc[g] = "waiting"
    /\ ~ready[cell[g]] /\ builder[cell[g]] = None
    /\ builder' = [builder EXCEPT ![cell[g]] = g]
    /\ pc' = [pc EXCEPT ![g] = "building"]
    /\ UNCHANGED <<key, hint, cell, lru, ident, ready, dead, filled, peer, others>>

\* build_client succeeds, with the hints of this caller's path: the value is
\* stored and get returns a Peer of it.
BuildOk(g) ==
    /\ pc[g] = "building"
    /\ ready' = [ready EXCEPT ![cell[g]] = TRUE]
    /\ builder' = [builder EXCEPT ![cell[g]] = None]
    /\ pc' = [pc EXCEPT ![g] = "have"]
    /\ filled' = [filled EXCEPT ![cell[g]] = g]
    /\ peer' = [peer EXCEPT ![g] = g]
    /\ UNCHANGED <<key, hint, cell, lru, ident, dead, others>>

\* build_client fails or times out: the cell stays empty and the next
\* waiter tries, with its own hints.
BuildErr(g) ==
    /\ pc[g] = "building"
    /\ builder' = [builder EXCEPT ![cell[g]] = None]
    /\ pc' = [pc EXCEPT ![g] = "failed"]
    /\ UNCHANGED <<key, hint, cell, lru, ident, ready, dead, filled, peer, others>>

\* The cell is filled: clone its Peer, whatever state the transport is in.
Share(g) ==
    /\ pc[g] = "waiting"
    /\ ready[cell[g]]
    /\ pc' = [pc EXCEPT ![g] = "have"]
    /\ peer' = [peer EXCEPT ![g] = filled[cell[g]]]
    /\ UNCHANGED <<key, hint, cell, lru, ident, ready, dead, filled, builder,
                   others>>

\* Wrong variant: a dropped handler takes the permit with it.
Dropped_keepsPermit(g) ==
    /\ g \in HttpGetters
    /\ pc[g] \in {"waiting", "building"}
    /\ pc' = [pc EXCEPT ![g] = "gone"]
    /\ UNCHANGED <<key, hint, cell, lru, ident, ready, dead, filled, builder,
                   peer, others>>

\* An HTTP client leaves: its handler is dropped wherever it waits.
Dropped(g) ==
    /\ g \in HttpGetters
    /\ pc[g] \in {"waiting", "building"}
    /\ builder' = [builder EXCEPT ![cell[g]] = IF @ = g THEN None ELSE @]
    /\ pc' = [pc EXCEPT ![g] = "gone"]
    /\ UNCHANGED <<key, hint, cell, lru, ident, ready, dead, filled, peer, others>>

\* The caller is done with its Peer.
Release(g) ==
    /\ pc[g] = "have"
    /\ pc' = [pc EXCEPT ![g] = "gone"]
    /\ UNCHANGED <<key, hint, cell, lru, ident, ready, dead, filled, builder,
                   peer, others>>

\* A relay bans the transport, or it fails for good (external).  Nobody looks:
\* the OnceCell keeps the value.
Die(c) ==
    /\ Live(c)
    /\ dead' = [dead EXCEPT ![c] = TRUE]
    /\ UNCHANGED <<pc, key, hint, cell, lru, ident, ready, filled, builder, peer, others>>

Next ==
    \E g \in Getters :
        \/ \E id \in Identities, h \in Hints : Lookup(g, id, h)
        \/ StartBuild(g) \/ BuildOk(g) \/ BuildErr(g) \/ Share(g)
        \/ Dropped(g) \/ Release(g) \/ Die(g)

Spec == Init /\ [][Next]_vars

-----------------------------------------------------------------------------
(* Properties.                                                             *)

Created == {c \in Getters : ident[c] # None}

\* transport.rs:3-5, 87-96.  The cache never holds two cells of one identity,
\* and whoever asks for a cached identity gets its cell: spellings of one
\* key and concurrent first callers all meet.
OneCellPerIdentity ==
    /\ \A c, d \in Cached : ident[c] = ident[d] => c = d
    /\ \A g \in Getters : pc[g] # "idle" => ident[cell[g]] = key[g]

\* transport.rs:41-48, 59-64, 92-94.  A Peer does not keep its transport
\* running; still, a transport that did not die by itself stops only once Cap
\* other identities were asked for since its own was.
PeerLostOnlyToCapOthers ==
    \A g \in Getters :
        pc[g] = "have" =>
            \/ Live(cell[g])
            \/ ready[cell[g]] /\ dead[cell[g]]
            \/ Cardinality(others[cell[g]]) >= Cap

\* transport.rs:33-38, 46-48, 87-96.  An identity has one transport, alive or
\* dead for good, until Cap other identities push it out: a second cell of the
\* identity means that the first was evicted.
RebuiltOnlyAfterEviction ==
    \A c, d \in Created :
        c # d /\ ident[c] = ident[d] =>
            \E x \in {c, d} : x \notin Cached /\ Cardinality(others[x]) >= Cap

\* transport.rs:33-38, 77-80, 97-100.  Callers of one identity that hold Peers
\* at the same time hold Peers of one transport, built by one of its callers
\* and with that caller's hints, whatever hints the others brought and
\* whichever builds failed or were dropped before; two transports mean that
\* Cap other identities pushed out the cell of one of them.
OneTransportShared ==
    \A g, h \in Getters :
        pc[g] = "have" /\ pc[h] = "have" /\ key[g] = key[h] /\ peer[g] # peer[h] =>
            \E x \in {cell[g], cell[h]} : x \notin Cached /\ Cardinality(others[x]) >= Cap

\* transport.rs:97-102.  A permit is held by a caller that is building that
\* very cell, so that a failure or a dropped request never blocks the rest.
PermitHeld ==
    \A c \in Getters : builder[c] # None =>
        pc[builder[c]] = "building" /\ cell[builder[c]] = c /\ ~ready[c]
=============================================================================
