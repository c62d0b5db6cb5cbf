------------------------------ MODULE RelayUrls ------------------------------
(***************************************************************************)
(* Which relays the shim dials for a path: parse_path in                   *)
(* crates/outlay-shim/src/path.rs, resolve_relay_urls and substitute_self  *)
(* in transport.rs, as operators over configurations and paths.            *)
(*                                                                         *)
(* A URL is one of a few spellings; Canon gives the relay a spelling names *)
(* after RelayUrl has parsed it (None if it does not parse) and Strip the  *)
(* spelling without its trailing slash.                                    *)
(***************************************************************************)
EXTENDS Config

CONSTANTS
    Urls,      \* spellings of relay URLs
    Canon,     \* spelling -> relay, or None
    Strip,     \* spelling -> spelling without the trailing slash
    Loopback,  \* the colocated relay's loopback URL
    Keys,      \* server identities
    MaxList    \* bound: items of a comma-separated list or of an nprofile

ASSUME UrlAssumption ==
    /\ Default \in Urls /\ Loopback \notin Urls /\ None \notin Urls
    /\ Strip \in [Urls -> Urls] /\ DOMAIN Canon = Urls
    /\ \A u \in Urls : Canon[Strip[u]] = Canon[u]
    /\ Canon[Default] # None
    /\ MaxList \in Nat \ {0}

Lists(S) == UNION {[1..n -> S] : n \in 0..MaxList}

\* What a client may put in a path: an identity as hex, npub or nprofile
\* (whose relays parse), another bech32 entity or garbage; or nothing.
Paths == [kind : {"hex", "npub"}, key : Keys, relays : {<<>>}]
           \cup [kind : {"nprofile"}, key : Keys,
                 relays : Lists({u \in Urls : Canon[u] # None})]
           \cup [kind : {"note", "garbage", "root"}, key : {None}, relays : {<<>>}]

\* The identity and the hints of a path; None for what is no server.
ParsePath(p) ==
    CASE p.kind \in {"hex", "npub"} -> [hex |-> p.key, hints |-> <<>>]
      [] p.kind = "nprofile" ->
            [hex |-> p.key, hints |-> [i \in DOMAIN p.relays |-> Strip[p.relays[i]]]]
      [] OTHER -> None

\* Wrong variant: URLs are compared as they are spelled.
NormUrl_verbatim(u) == u

NormUrl(u) == Canon[u]

\* Every URL of the shim itself is replaced by the loopback relay's.
SubstituteSelf(candidates, public, loopback) ==
    LET own == {NormUrl(public[j]) : j \in DOMAIN public} \ {None}
    IN IF loopback = None THEN candidates
       ELSE [i \in DOMAIN candidates |->
               IF NormUrl(candidates[i]) \in own THEN loopback ELSE candidates[i]]

\* Wrong variant: without an allowlist the candidates themselves count as own.
ResolveRelayUrls_ownHints(cfg, parsed, loopback) ==
    LET candidates == IF parsed.hints # <<>> THEN parsed.hints ELSE cfg.relays
    IN SubstituteSelf(candidates, candidates, loopback)

\* Hints before configured relays; the explicit allowlist before the inferred.
ResolveRelayUrls(cfg, parsed, loopback) ==
    LET candidates == IF parsed.hints # <<>> THEN parsed.hints ELSE cfg.relays
        public     == IF cfg.public # <<>> THEN cfg.public ELSE cfg.relays
    IN SubstituteSelf(candidates, public, loopback)
=============================================================================
