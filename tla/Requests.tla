------------------------------ MODULE Requests ------------------------------
(***************************************************************************)
(* One shim, one outlay and the HTTP and WebSocket requests at the shim:   *)
(* root_handler and pubkey_handler in crates/outlay-shim/src/server.rs,    *)
(* serve_root, serve_pubkey, fetch_nip11 and render in nip11.rs, and the   *)
(* relay_info tool at the other end (crates/outlay/src/handler.rs,         *)
(* proxy.rs).  Composes Config, RelayUrls and RelayInfo.                   *)
(*                                                                         *)
(* Requests share nothing but the transport, whose concurrency is          *)
(* TransportCache's matter, so that they come one after the other here.    *)
(* The upstream's document may change at any time.                         *)
(***************************************************************************)
EXTENDS RelayUrls, RelayInfo

CONSTANTS
    Own,          \* the relay that the shim's public URL names
    Deployments,  \* [shim, outlay: environments, answers: of the upstream]
    Visits,       \* [path, upgrade: "no", "ok" or "bad", json: BOOLEAN]
    MaxAnswers    \* bound: different answers of the upstream during a request

ASSUME RequestsAssumption ==
    /\ \A v \in Visits : v.path \in Paths
    /\ \A d \in Deployments :
          /\ {d.shim.relays, d.shim.public, d.outlay.relays}
                \subseteq Lists(Urls \cup {Blank}) \cup {None}
          /\ d.shim.cap \in Nat \cup {None}
    /\ MaxAnswers \in Nat

VARIABLES
    dep,       \* the deployment
    shim,      \* the shim's configuration, None before it runs
    loopback,  \* AppState::relay_url
    outlay,    \* outlay's configuration, None if it does not run
    serves,    \* what outlay's upstream answers at the moment
    pc,        \* the request: ready, calling, fetching, returning
    visit,     \* the request in progress or the last one
    dialled,   \* the URLs its transport is built with
    result,    \* what relay_info returned, None for a tool error
    reply,     \* the response
    seen       \* what the upstream answered in the course of it (history)

config == <<dep, shim, loopback, outlay>>

vars == <<config, serves, pc, visit, dialled, result, reply, seen>>

NoReply == [status |-> 0, doc |-> None, link |-> None]

Status(code) == [NoReply EXCEPT !.status = code]

SynthRoot == [name |-> "outlay-shim", software |-> "outlay-shim"]

\* What relay_info and the shim may have made of an answer.
Infos == {ProxyInfo(a) : a \in UNION {d.answers : d \in Deployments}}

TypeOK ==
    /\ dep \in Deployments
    /\ shim # None => shim.cap > 0 /\ shim.relays # <<>>
    /\ loopback \in {Loopback, None}
    /\ outlay # None => outlay.relays # <<>>
    /\ serves \in dep.answers /\ seen \subseteq dep.answers
    /\ pc \in {"down", "ready", "calling", "fetching", "returning"}
    /\ visit \in Visits \cup {None}
    /\ dialled = None \/ dialled \in Lists(Urls \cup {Loopback}) \ {<<>>}
    /\ result \in Infos \cup {None}
    /\ reply.status \in {0, 101, 200, 400, 502}
    /\ reply.doc \in Infos \cup {None, SynthRoot}

Init ==
    /\ dep \in Deployments
    /\ serves \in dep.answers
    /\ shim = None /\ loopback = None /\ outlay = None
    /\ pc = "down" /\ visit = None /\ dialled = None
    /\ result = None /\ reply = NoReply /\ seen = {}

\* Both mains.  The shim's relay may fail to start; an outlay whose
\* configuration is refused is not there.
Boot ==
    /\ pc = "down"
    /\ shim' = ReadShimConfig(dep.shim)
    /\ shim' # None
    /\ loopback' \in IF shim'.relay THEN {Loopback, None} ELSE {None}
    /\ outlay' = ReadServerConfig(dep.outlay)
    /\ pc' = "ready"
    /\ UNCHANGED <<dep, serves, visit, dialled, result, reply, seen>>

-----------------------------------------------------------------------------
(* The router and the handlers up to the tool call.                        *)

Arrive(v) ==
    /\ pc = "ready"
    /\ visit' = v
    /\ result' = None
    /\ seen' = {serves}
    /\ UNCHANGED <<config, serves>>

\* A response that needs no transport.
Answer(v, response) ==
    /\ Arrive(v)
    /\ dialled' = None
    /\ reply' = response
    /\ pc' = pc

\* `/` is the relay pipe for an upgrade if the relay runs, else the shim's page.
ServeRoot(v) ==
    /\ v.path.kind = "root"
    /\ Answer(v, CASE v.upgrade = "no" \/ loopback = None -> [Status(200) EXCEPT !.doc = SynthRoot]
                   [] v.upgrade = "ok" -> Status(101)
                   [] OTHER -> Status(400))

\* An upgrade that axum rejects, or a page for what is no server's path.
BadRequest(v) ==
    /\ v.path.kind # "root"
    /\ v.upgrade = "bad" \/ (v.upgrade = "no" /\ ParsePath(v.path) = None)
    /\ Answer(v, Status(400))

\* The transport that TransportCache::get builds for a path.  (Where the cache
\* still has one for the identity, that one is used: see TransportCache.)
Dial(v) ==
    /\ v.path.kind # "root" /\ ParsePath(v.path) # None
    /\ Arrive(v)
    /\ dialled' = ResolveRelayUrls(shim, ParsePath(v.path), loopback)

\* An upgrade at a path is handle_ws's, which refuses a bad path by a NOTICE.
ServeBridge(v) ==
    /\ v.upgrade = "ok"
    /\ \/ Dial(v) /\ reply' = Status(101) /\ pc' = pc
       \/ v.path.kind # "root" /\ ParsePath(v.path) = None /\ Answer(v, Status(101))

\* A page calls relay_info.
ServePubkey(v) ==
    /\ v.upgrade = "no"
    /\ Dial(v)
    /\ reply' = NoReply
    /\ pc' = "calling"

-----------------------------------------------------------------------------
(* The transport and the tool.                                             *)

\* Ephemeral rejects stored wraps; Optional takes either.
WrapsAgree == shim.gift = outlay.gift \/ "optional" \in {shim.gift, outlay.gift}

Listening == {Canon[outlay.relays[i]] : i \in DOMAIN outlay.relays} \ {None}

\* A dialled relay on which outlay listens.  The loopback relay is what
\* others reach at the shim's public URL; the shim does not reach that URL.
\* Assumed of the SDK: an entry of a list that does not parse as a URL is
\* passed over and does not fail the transport.
Meets ==
    /\ outlay # None
    /\ WrapsAgree
    /\ \E i \in DOMAIN dialled :
          \/ dialled[i] = Loopback /\ Own \in Listening
          \/ dialled[i] # Loopback /\ Canon[dialled[i]] \in Listening \ {Own}

\* outlay's upstream: the external relay, or the bundled one on loopback.
UpstreamUrl == Or(outlay.proxy, "ws")

\* relay_info starts; a scheme it does not know is a tool error.
ToolCall ==
    /\ pc = "calling"
    /\ Meets
    /\ pc' = IF Nip11Origin(UpstreamUrl) = None THEN "returning" ELSE "fetching"
    /\ UNCHANGED <<config, serves, visit, dialled, result, reply, seen>>

\* The upstream answers.
Fetch ==
    /\ pc = "fetching"
    /\ serves.kind # "none"
    /\ result' = ProxyInfo(serves)
    /\ pc' = "returning"
    /\ UNCHANGED <<config, serves, visit, dialled, reply, seen>>

\* Wrong variant: the HTTP client has no timeout.
FetchErr_never ==
    /\ pc = "fetching"
    /\ serves.kind = "none"
    /\ UNCHANGED vars

\* It cannot be reached, or RELAY_INFO_TIMEOUT passes.
FetchErr ==
    /\ pc = "fetching"
    /\ serves.kind = "none"
    /\ result' = SynthesizedProxyInfo
    /\ pc' = "returning"
    /\ UNCHANGED <<config, serves, visit, dialled, reply, seen>>

\* No transport, or the call fails on its way.
CallErr ==
    /\ pc \in {"calling", "fetching", "returning"}
    /\ reply' = Status(502)
    /\ pc' = "ready"
    /\ UNCHANGED <<config, serves, visit, dialled, result, seen>>

-----------------------------------------------------------------------------
(* Back in serve_pubkey.                                                   *)

\* The relay URL of the "Open in Jumble" button, `{public_url}/{hex}`.
Jumble == [base |-> PublicUrl(shim), key |-> ParsePath(visit.path).hex]

RenderJson == [status |-> 200, doc |-> result, link |-> None]

RenderHtml == [status |-> 200, doc |-> result, link |-> Jumble]

\* The result as the client accepts it; a tool error is a 502.
Render ==
    /\ pc = "returning"
    /\ reply' = IF result = None THEN Status(502)
                ELSE IF visit.json THEN RenderJson ELSE RenderHtml
    /\ pc' = "ready"
    /\ UNCHANGED <<config, serves, visit, dialled, result, seen>>

\* The operator of the upstream changes its document, or it goes away.
UpstreamChanges(a) ==
    /\ pc # "down"
    /\ a # serves
    /\ serves' = a
    /\ seen' = IF pc = "ready" THEN seen ELSE seen \cup {a}
    /\ Cardinality(seen') <= MaxAnswers
    /\ UNCHANGED <<config, pc, visit, dialled, result, reply>>

-----------------------------------------------------------------------------

Progress == ToolCall \/ Fetch \/ FetchErr \/ Render

Next ==
    \/ Boot
    \/ \E v \in Visits : ServeRoot(v) \/ BadRequest(v) \/ ServeBridge(v) \/ ServePubkey(v)
    \/ Progress
    \/ CallErr
    \/ \E a \in dep.answers : UpstreamChanges(a)

Spec == Init /\ [][Next]_vars

\* The tasks of the two processes run, and the timer fires.
FairSpec == Spec /\ WF_vars(Progress)

-----------------------------------------------------------------------------
(* Properties.                                                             *)

\* The relays that the operator has told the shim are its own.
Declared ==
    LET own == IF shim.public # <<>> THEN shim.public ELSE shim.relays
    IN {Canon[own[i]] : i \in DOMAIN own} \ {None}

\* transport.rs:119-124, shim config.rs:46-51.  With the colocated relay on and
\* the shim's own URL declared, in whatever spelling, no path makes the
\* bridge dial its own public URL.
NoHairpin ==
    dialled # None /\ loopback # None /\ Own \in Declared =>
        \A i \in DOMAIN dialled : dialled[i] \in Urls => Canon[dialled[i]] # Own

\* The relays a request asks for (its hints, else the configured ones) on
\* which outlay listens too.
Common ==
    LET wanted == IF visit.path.relays # <<>> THEN visit.path.relays ELSE shim.relays
    IN {Canon[wanted[i]] : i \in DOMAIN wanted} \cap Listening

\* README.md:167-168, 194-200, transport.rs:179-190.  Where the operator
\* keeps to the rule that with the relay on the shim's own URLs are declared
\* and nothing else, and both sides say the same (or nothing) of gift wraps, a
\* relay that outlay listens on and the path or the fallback names, however
\* each of them spells it, brings the two together.
Rendezvous ==
    /\ dialled # None /\ outlay # None
    /\ loopback # None => Declared = {Own}
    /\ dep.shim.gift = dep.outlay.gift
    /\ Common \ (IF loopback = None THEN {Own} ELSE {}) # {}
    => Meets

Identified(page) == page.software = "outlay" /\ page.proxy

\* A page shows a document: its software and version under `upstream`, every
\* other field where it was, but for the two names that outlay takes.
Shows(page, doc) ==
    /\ \A f \in DOMAIN doc \cap {"software", "version"} :
          /\ "upstream" \in DOMAIN page
          /\ f \in DOMAIN page.upstream /\ page.upstream[f] = doc[f]
    /\ \A f \in DOMAIN doc \ {"software", "version", "upstream", "proxy"} :
          f \in DOMAIN page /\ page[f] = doc[f]

\* proxy.rs:151-155, 336-340, handler.rs:125-128.  A server's page says that it
\* is a proxy and shows what the upstream answered in the course of this very
\* request, or that it gave no document then.
PageShowsUpstream ==
    reply.status = 200 /\ visit.path.kind # "root" =>
        /\ Identified(reply.doc)
        /\ \E a \in seen : IF a.kind = "doc" THEN Shows(reply.doc, a.doc)
                           ELSE "upstream" \notin DOMAIN reply.doc

\* proxy.rs:31, 349-363.  A page is answered although the upstream may be
\* silent for ever, if the shim reaches outlay.
PageAnswered == (pc = "calling" /\ Meets) ~> (pc = "ready")

\* nip11.rs:38-40.  The link of an HTML page, where the shim knows its public
\* URL, is `wss://<host>/<hex>`, the bridge path: a URL with one slash before
\* the key of the server the page is about.
LinkIsBridgePath ==
    reply.link # None /\ Canon[reply.link.base] = Own =>
        /\ Strip[reply.link.base] = reply.link.base
        /\ reply.link.key = visit.path.key
=============================================================================
