# outlay: TLA+ models, model checking and proofs

outlay serves a Nostr relay as ContextVM tools; outlay-shim turns those tools
back into a NIP-01 WebSocket for vanilla clients. Both are asynchronous Rust
programs (tokio) in which many tasks share one upstream socket, one bounded
channel or one cache. The modules here model that control; TLC checks them on
small instances and TLAPS proves the safety properties for every instance.
Paths below are relative to `src/crates`.

## The system

| Component | Source | State | Operations | Modelled by |
|---|---|---|---|---|
| subscribe tool | `outlay/src/proxy.rs`, `handler.rs` | per call: upstream id, broadcast receiver, CEP-41 sink; shared: SDK pool | call, subscribe, receive, poll the sink, unsubscribe, close | `ProxySubscribe`, abstractly `PrivateStreams` |
| publish path | `outlay-shim/src/conn.rs`, `outlay/src/handler.rs`, `proxy.rs` | one pending call per EVENT | call, forward, OK, error, timeout, answer | `Publish` |
| relay_info tool | `outlay/src/proxy.rs`, `handler.rs` | none (HTTP client) | fetch, time out, overlay, synthesize | `RelayInfo`, `Requests` |
| shim connection | `outlay-shim/src/conn.rs`, `translate.rs` | `subs` map, outbound channel, one task per REQ and EVENT, a writer | read frame, spawn, cancel, pump, write, clean up | `ShimConn` |
| transport cache | `outlay-shim/src/transport.rs`, `nip11.rs` | LRU of OnceCells | get, build, share, evict; a transport dies | `TransportCache` |
| relay URL resolution | `outlay-shim/src/path.rs`, `transport.rs` | none (pure) | parse path, resolve, substitute | `RelayUrls`, `Requests` |
| memoryless relay pipe | `outlay-shim/src/relay.rs` | one message in hand | connect, read, send, close | `RelayPipe` |
| bundled relay, startup | `outlay-relay/src/lib.rs`, both `main.rs` | bound ports, stored events | launch, scan, connect, listen, save, query, shut down, be killed | `Startup` |
| router, NIP-11 pages | `outlay-shim/src/server.rs`, `nip11.rs` | none | route, call relay_info, render | `Requests`; as callers in `TransportCache` |
| configuration | both `config.rs` | none | parse the environment, refuse it | `Config`, in `Startup` and `Requests` |

How they interact: a client's WebSocket at `/<pubkey>` is a connection
(`ShimConn`). It gets a Peer from the cache (`TransportCache`), which dials what
`RelayUrls` computes, and makes tool calls over it. Each REQ becomes one
`subscribe` call, which outlay's `ProxySubscribe` serves by one upstream
subscription and a CEP-41 stream of chunks; each EVENT becomes one
`publish_event` call (`Publish`). An HTTP request at `/<pubkey>` is a page made of
outlay's `relay_info` (`Requests`). A WebSocket at `/` is piped to the colocated
relay (`RelayPipe`), which `Startup` brought up. Whether shim and outlay meet
at all is decided by two configurations read by two crates (`Config`).

What is hard: all calls of outlay share one broadcast channel that drops
messages for slow receivers; a `select!` remakes its timer on every turn;
cancellation is a permit that a task hears only where it selects on it; a full
channel blocks senders; OnceCells are built outside the lock, so that an entry
can be evicted meanwhile; a timeout races a late answer; processes share the
ports of their host and are killed after they acknowledged events; relay lists
come in any spelling from three places. `PROJECT.json` lists each of these
hazards at its line with the properties that watch it.

## Modules

Every component module declares its CONSTANTS with a named assumption, its
variables, `TypeOK`, `Init`, one action per step between two awaits, `Next`,
`Spec` (safety) and, where liveness is checked, `FairSpec`. A definition named
`Op_variant` is a deliberately wrong form of `Op`; it is used by no specification
and serves only to show that a property notices the mistake (`mutants` in
`PROJECT.json`). The `MC*` modules give the constants values. `*_proofs`
hold the TLAPS proofs.

**PrivateStreams.** What the subscribe tool promises, without pool, socket, ids or
buffers: per call a link that may lose messages but neither reorders, repeats
nor alters them, and that a CLOSED or outlay itself ends. `ProxySubscribe`
implements it (`StreamsSpec`, with `StreamState` as the mapping of a call's
state): `Broadcast` is a `Send`, a write is a `Deliver`, the CLOSED that
outlay writes on the pool's end is `TellClosed`, every other step a stutter
or the stream's end.

**ProxySubscribe.** A call's `pc` follows Proxy::subscribe: `idle` ->
`registered` (id drawn, receiver taken) -> `subscribed` -> `streaming` <->
`wrote` (between the write and `is_active()`) -> `unwinding` -> `closing` ->
`done`; `failed` for the error returns. `rx` is the call's broadcast receiver:
`Broadcast` appends to every live one and drops the oldest of a full one, which
then reports Lagged. `Forward` is map_notification. A notification keeps, for
the properties, the call whose filters it matched and its number in what the
relay sent for that call. `PollInactive` needs an empty receiver, since
the one-second sleep starts again on every turn of the loop. The loop's Closed
arm has no action: the call borrows the proxy, whose pool owns the sender of the
channel, so that the pool's end is only ever seen as its Shutdown notification.
The relay, the pool and the sink's abort are external. `lost` and `werr` are history variables.

**ShimConn.** The main loop (`main`), the writer (`writer`, `held`), the channel
(`chan`), a task per REQ (`task`, `permit` for its Notify, `hand` for the frame
it is sending) and per EVENT (`pub`). A task takes `permit` only in
`SetupCancelled` and `StreamCancelled`, the two places where the code selects
on `cancel.notified()`; in `sending` it waits for the channel and hears nothing.
A cancel is under way (`cancelling`) until `CancelReturns`, with or without
having reached outlay; meanwhile, as during a `call_tool`, the task holds its
sender of the channel. `Cleanup` and `Join` are the end of handle_ws. outlay's
side of each stream (`server`, `inbox`, `sent`) is external.

**TransportCache.** `Lookup` is the locked section, one step; `StartBuild`,
`BuildOk`, `BuildErr` and `Share` are get_or_try_init, where `BuildOk` dials with
the hints of the caller that builds, so that a transport is named after that
caller (`filled` in the cell, `peer` of those who have a Peer of it); `Dropped` is an HTTP handler that hyper
drops with its connection; `Die` is a transport that is banned or fails for
good, which nobody notices. A cell is named after the caller that made it;
`Alive` says that the map or a caller inside `get` still holds it. A Peer is
not a holder.

**Publish.** The three layers of one publish, each with its own state per
attempt, so that a failure of the call, the proxy's timeout and the relay's
answer may come in any order. Attempts may repeat an event. A payload that does
not parse as an event may carry an id all the same, which the OK then repeats
(`IdIn`). The hop between shim and outlay fails or delivers; it does not lose a
call without telling.

**Config.** `read_server_config` and `read_shim_config` as operators from raw
environments to configurations (or None where the code refuses): defaults,
blanks in lists, flags as each crate spells them, modes, the clamp of the cache
capacity.

**RelayUrls.** The path forms and the pure functions between a configuration, a
path and the list that is dialled. A URL is a spelling; `Canon` is what RelayUrl's parser
makes of it and `Strip` what is left of it without trailing slashes.

**RelayInfo.** NIP-11 documents as functions on field names; what relay_info makes of
each kind of answer.

**Requests.** One shim and one outlay, each from its environment, and the
requests at the shim one after the other: the router's choice, the dialled
list, the tool call with the fetch from an upstream that changes its document
meanwhile, the response. `Meets` says whether the two sides have a transport:
a relay in common, and gift wraps that both accept. An entry of a relay list
that does not parse as a URL is assumed to be passed over by the SDK, and not to
fail the transport. Composes the three modules before.

**RelayPipe.** `forward` as one task with one message in hand, two bounded
sockets, and the closing sequence, whose closes wait for room like every send.
Side `relay`'s Close ends the pipe, side `client`'s is passed on; an error on a
side that is still there (`SocketErr`) ends it too. When forward returns, both
sockets are dropped, closed or not. A side that finds its socket full may go on
reading or be `busy` until its message is gone; a pipe and a busy side that wait
for each other are `Wedged`. `Line(s)` is what `s` has sent and the other side
has or may still get.

**Startup.** Both mains from the environment to the end, with the port scan
step by step, on one host with other programs. `Exit` gives every port and the
memory back; files stay. `Kill` strikes a process wherever it is. `SaveEvent` is an
event that a relay accepts: the file, the process's memory or nothing keeps it,
and nothing keeps one of an ephemeral kind. Events that replace or delete others
are left out. A listen address that no bind accepts, malformed, foreign or
privileged, is `Unbindable`. Any error of `LocalRelay::run` counts as a busy port, as in the code.

## Runs

| Run | Shows | Bounds |
|---|---|---|
| `subscribe` | isolation, no silent gap, unwinding, the reason is told; the refinement of `PrivateStreams` | 2 calls with the same sub id, 2 ids, receivers of 2, 2 messages per subscription: enough for two calls to overflow each other and for a CLOSED to be dropped |
| `subscribe_live` | an abort, an upstream CLOSED and the pool's end each end the call | 1 call, 3 messages, 2 foreign notifications, receiver of 6, which cannot overflow |
| `connection` | every running task can be cancelled; backpressure loses and reorders nothing; wind-up, end of replaced tasks, OKs of answered publishes | channel of 1 (the code's 256 is only larger), 2 REQs of one sub_id, 2 chunks, 1 NOTICE or EVENT |
| `transports` | one cell per identity; a transport is lost or rebuilt only after `Cap` other identities; one transport for all callers of an identity; no stuck permit | 4 callers (2 of them HTTP), 3 identities, with and without hints, capacity 2: the fourth caller is needed to touch an entry between two others and evict |
| `publish` | true means stored; every attempt is answered | 2 attempts, 2 events, 2 payloads that are none, one of them with the id of an event: an event and its retry or its malformed copy, or two events |
| `startup` | an outlay dials its own relay and serves what it acknowledged; the scan covers its range and ends; a shim gives up over its listen address only | 4 outlays (default, volatile with a fixed port, external upstream, refused), 2 shims (default; without relay and with a listen address that is no good), 3 ports, all in the range of the scan, 1 of them held by other programs, 2 events, one of them ephemeral, 3 starts in all: restarts included, and enough to fill the range |
| `requests` | no hairpin, rendezvous, pages that show the upstream and are answered | relay lists of up to 2 over 4 spellings and the blank, with the relay on and off; every spelling of flags and modes; 7 answers of an upstream, 2 of them during a request; every path in hex, npub, nprofile and wrong forms |
| `pipe` | verbatim in both directions, Close last; both sides end and messages are delivered, or the pipe and a side wait for each other for ever | sockets of 2, 3 messages per side: enough for a side to fill its socket while the pipe has a message for it in hand and its other socket is full |

Symmetry is used for calls and ids (`subscribe`) and for callers and identities
(`transports`), where no liveness is checked. Deadlock checking is off since
calls, connections, requests and processes may simply end.

Four runs show where the code does not do what a comment of its own says. Each
checks one property that states the quoted text:

| Run | The code | Against |
|---|---|---|
| `subscribe_poll_starved` | endless unrelated traffic keeps the sink poll from ever running | `outlay/src/proxy.rs:22-24` |
| `subscribe_lost_closed` | Lagged may drop the CLOSED; the call then never ends | `outlay/src/proxy.rs:229-231` |
| `connection_teardown` | a failed send returns without cancelling the stream | `outlay-shim/src/conn.rs:112-113` |
| `page_link` | a public URL with a trailing slash gives a link with two slashes | `outlay-shim/src/nip11.rs:38-39` |

In `subscribe_poll_starved` the unrelated traffic never overflows a receiver, so
the violation does not rest on lost messages; in `subscribe_lost_closed` it is
finite, so that it does not rest on starvation.

## Observations

Smaller things met while modelling, without a run of their own:

* A REQ on a live sub_id leaves a permit in the old task's Notify and spawns the
  new one at once, so that a frame of the old stream can follow one of the new
  (`outlay-shim/src/conn.rs:81` says "cancel the old one first").
* An entry of the transport cache can be evicted while it is built, and is then
  built a second time concurrently (`transport.rs:75` says "concurrent
  first-callers share a single build"); and a Peer in use does not keep its
  transport (`transport.rs:86` says otherwise, the type's comment at 43 agrees
  with the code). `PeerLostOnlyToCapOthers` is what does hold.
* A cell is keyed by the public key alone: relay hints of a later connection to
  the same outlay are not dialled (compare `outlay-shim/src/config.rs:16`), and
  a transport that died for good is handed out until its entry is evicted.
  `OneTransportShared` and `RebuiltOnlyAfterEviction` are what does hold.
* An `upstream` field of the upstream's own document is overwritten if the
  document has software or version, where `outlay/src/proxy.rs:152` says that
  unknown fields are preserved; `Shows` leaves that name out.
* `nip11_origin` keeps no path, so that a page about an upstream served at a path
  shows its host's root document; and an upstream spelled `WSS://` works for
  streams while relay_info is an error, hence a 502.
* Two default outlays in one directory share `outlay-relay.db`.
* Flags are case-insensitive in the shim only: `OUTLAY_ANNOUNCED=TRUE`
  ends outlay's main.
* A publish that times out is a tool error, where `design/design.md:210`
  describes a result with `ok: false`; the shim's client sees OK false either way.
* Where 8086 and 8087 are busy, by two outlays on the host for instance, the
  shim's own relay, which scans from 8086, takes 8088, the default port the shim
  listens on a moment later: the shim ends, although main treats its relay as
  optional. It is the third case of `BridgeOutlivesRelay`, which shows
  that it is the only one in which the relay ends the bridge.
* The pipe at `/` can deadlock: with both directions full, a loopback relay or
  client that writes before it reads waits for the pipe, which waits for it, in
  the loop or in one of the two closes, and forward has no timeout. It takes a
  dozen steps in the model; `BothEnd` and `Delivered` show that this wait
  is the only way in which the pipe does not end or deliver.
* Neither `call_tool` nor `handle.cancel` has a timeout in the shim. One that
  never returns holds a sender of the channel and with it the writer and
  handle_ws after the client has gone; `ConnectionEnds` shows that nothing else does.

## Fairness

Weak fairness of a task's steps stands for tokio running what is ready; nothing
is assumed of clients, of the upstream relay, or of the traffic. `ShimConn` also
assumes that a socket write finishes or fails; it assumes no answer from outlay,
since neither `call_tool_stream` nor `call_tool` nor `cancel` has a timeout there:
what waits for an answer may wait for ever, and `ConnectionEnds`,
`ReplacedTaskEnds` and `PublishAnswered` say what holds then. That outlay does
answer a publish, by its own timeout, is checked in `Publish`, over a hop that
delivers or fails. `Startup` assumes that a started process runs. `Publish` and
`Requests` assume the timers and the tasks, not the relay. `RelayPipe` assumes strong
fairness of the two select branches (`select!` polls them in random order), that a
side reads unless it is `busy`, and that a busy side writes when there is room;
no socket has to fail and no side has to leave.

## Proofs

`ProxySubscribe_proofs` proves, for any set of calls and ids, any receiver
capacity and any amount of traffic, from `ConstantsAssumption` alone:

* `TypeCorrect`: `Spec => []TypeOK`;
* `Invariance`: `Spec => []SubscribeInv`, and from it `IsolationTheorem`,
  `NoOrphanTheorem`, `InOrderTheorem`, `ClosedIsLastTheorem`,
  `ClientToldWhyTheorem`;
* `NoSilentGapTheorem`: without an overflow nothing is missing;
* `Refinement`: `Spec => StreamsSpec`, every step of the tool is a step of
  `PrivateStreams` or a stutter.

None of these properties is inductive alone. Isolation needs that a buffered
message carries the id of the call it is for (`BuffersOwned`) and that ids are
unique (`IdsUnique`); order needs that what is written precedes what is buffered
and that the buffer itself is in order (`BuffersInOrder`), which the drop of the
oldest message keeps; `ClientToldWhy` needs that a call that leaves its loop
with a live sink has written CLOSED (`ShutdownPending`, which also says that the
pool's shutdown notice is never the one an overflow drops). `SubscribeInv` is
their conjunction. `NoSilentGap` is inductive relative to it: a message that is
neither written nor buffered was dropped by an overflow. The refinement needs
the order (a written message is later than all before it) and the ownership of
the buffers (what is written is what the relay sent for this call). The proof has one lemma
per group of actions; facts about `Tail` and about what `Broadcast` does to one
buffer are lemmas of their own.

`PrivateStreams_proofs` proves what the abstract streams promise a client
(`StreamsView`): what it has is what the relay sent for its call, in the relay's
order, with at most one EOSE and nothing after a CLOSED. `ClientViewTheorem` of
`ProxySubscribe_proofs` carries this over to the tool by the refinement, without
looking at the tool again.

`Publish_proofs` proves `Spec => [](TypeOK /\ PublishInv)` (the type of
`stored` needs that only events reach the relay, so the two go together) and
`TrueMeansStoredTheorem`, for any number of attempts and events.

`TransportCache_proofs` proves all six invariants of the run `transports` for any
number of callers, identities and hints and any capacity, from `CacheAssumption`
alone. The inductive invariant `CacheInv` adds what ties the LRU order to the
history: of two cached identities the later one was asked for after the earlier
(`Recency`), the cached identities differ (`LruDistinct`), and what is no longer
cached saw `Cap` others (`EvictedByCap`). `BuildersHold` and `PeersFit` add that a
cell under construction belongs to the one caller with its permit and that a
Peer is of the transport in its caller's cell, so that two Peers of an
identity differ only where their cells do (`SharedTheorem`). `Recency` is what makes eviction work: when a
full cache drops its first entry, the `Cap - 1` identities that remain and the
new one are `Cap` different ones asked for since, an injection from `1..Cap` into
the set that the history keeps. A hit moves its entry to the end (`HitStep`, with
the permutation of positions `MovedFrom`), a miss appends one (`MissStep`).

`ShimConn_proofs` proves the three invariants of the run `connection` for any
subscription ids, channel capacity and number of requests, publishes and chunks.
`ConnAssumption` says, besides the types, that None is no sub_id, number or frame.
`ConnInv` adds where frames can be: the writer and a task have one in hand
exactly where they send one (`WriterFits`, `HandFits`), and tasks are spawned in
order (`Spawned`). `EveryTaskCancellable` is inductive with these. `NoChunkLost`
is not: it speaks of live streams, while a task that has ended leaves chunks in
the channel, which must still leave it in order. `WayInv` therefore separates
order (`InOrder`, for every task) from completeness (`AllThere`, for a live one)
and states both by place: `At(t, k, n)` puts chunk `n` of `t` at place `k`, and a
step of reader, task, channel or writer moves every place by at most one.

`Startup_proofs` proves the four invariants of the run `startup` and the action
property `BridgeOutlivesRelay`, for any processes, environments, ports and
length of the scan. `StartupInv` adds who can be where (`PlacesFit`), that a scan
has found exactly its earlier candidates busy (`ScanExact`, from which
`GivesUpAfterAll` follows when the range is used up), that the port of a relay is
the lowest that was not busy (`RelayPortLowest`, which `BridgeOutlivesRelay` needs
for a relay on its shim's listen port) and has no other holder (`RelayPortsExclusive`), that an upstream is set exactly where
the code has set it (`UpstreamSet`) and that a file has what the relays on it
acknowledged, whether they run or not (`AckedOnDisk`). `UpstreamIsOwnRelay` is
the exclusiveness and `UpstreamSet` together; `AckedIsServed` is `AckedOnDisk`
and the fact that only the spelling `memory` of the backend selects the volatile
one (`NotVolatile`).

`RelayPipe_proofs` proves the three invariants of the run `pipe` for any socket
buffers and any number of messages. The inductive form, `WireExact`, is about
what can still reach a side, item by item: message `i` at place `i` and at most a
Close behind the last. It covers the pipe after its end, too, where what is in its hand
is lost and only the first part is left, which `Verbatim` does not speak of and
`CloseComesLast` needs.

`Requests_proofs` proves the four invariants of the run `requests` for any
environments, relay lists, spellings, paths and upstream documents, from
`UrlAssumption` (a URL without its slash names the same relay, the default is a
URL) and `RequestsAssumption` (environments hold lists within the length bound
and a number, or nothing, as capacity). `RequestsInv` ties a request to where it
came from: the configurations are those of the environments (`Configured`), what
is dialled is what the path resolves to (`DialledForPath`), a result is an
answer of the upstream in the course of the request (`ResultSeen`), and a page
is that result (`PageIsResult`). The rest is about operators: blanks dropped from
a list of URLs leave a list of URLs (`NonBlankList`, by the counting argument
`EveryPlaceTaken`), every relay asked for is a candidate in some spelling
(`WantedIsCandidate`), and the overlay keeps every field of any document but for
the names that `Shows` leaves out (`OverlaidPage`).

Every safety property that a passing run checks is thus stated by a theorem. Only
model-checked:

* the liveness properties (`AbortUnwinds`, `UpstreamClosedEnds`, `PoolShutdownEnds`,
  `ConnectionEnds`, `ReplacedTaskEnds`, `PublishAnswered`, `EveryAttemptAnswered`, `StartDecided`,
  `PageAnswered`, `BothEnd`, `Delivered`): the prover has neither ENABLED nor fairness;
* the four violations, which are single behaviours.

## Not modelled

* The text of things: JSON and HTML, the wording of messages, logs and banners.
  `translate.rs` is therefore modelled by the kinds of frames it tells apart.
* TLS, keys, signatures and encryption; a key is good or bad.
* The SDK's reconnection (which may repeat an EOSE to the subscribe tool) and its CEP-41 sessions, LocalRelay's inside and SQLite:
  third-party code, seen through the actions that the repository's code
  observes. A file database is assumed to keep what it acknowledged.
* The composition of `ShimConn` with `ProxySubscribe` into one specification: the
  stream between them is third-party code, and each side is checked against
  anything that stream may do.

## Plan

1. Done: all components above, the abstract specification `PrivateStreams` and its
   refinement; a proof of every safety property of the passing runs.
2. Next, proofs: the safety half of the liveness properties as invariants (a
   sender that waits on a full channel has a writer, a caller that waits for a
   cell has a builder).
