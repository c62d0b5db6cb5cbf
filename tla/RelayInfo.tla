------------------------------ MODULE RelayInfo ------------------------------
(***************************************************************************)
(* The relay_info tool of outlay as operators over NIP-11 documents:       *)
(* nip11_origin, overlay_proxy_info, synthesized_proxy_info and the body   *)
(* of relay_info in crates/outlay/src/proxy.rs.                            *)
(*                                                                         *)
(* A document is a function on the names of its fields.  What an upstream  *)
(* answers an HTTP request with is a record [kind, doc]: "none" (it        *)
(* refuses, or is silent), "status" (not 2xx), "text" (not JSON), "value"  *)
(* (JSON, but no object) or "doc".                                         *)
(***************************************************************************)
EXTENDS Config

Unusable == [kind : {"none", "status", "text", "value"}, doc : {None}]

\* The HTTP origin for an upstream URL, of which only the scheme as it is
\* spelled matters; None if the scheme is not one of the two.
Nip11Origin(url) ==
    CASE url = "wss" -> "https" [] url = "ws" -> "http" [] OTHER -> None

Restricted(doc, fields) == [f \in DOMAIN doc \cap fields |-> doc[f]]

Stamp == [software |-> "outlay", version |-> "own", proxy |-> TRUE]

\* Outlay's identity on top of other fields.
Stamped(fields) ==
    [f \in DOMAIN Stamp \cup DOMAIN fields |->
       IF f \in DOMAIN Stamp THEN Stamp[f] ELSE fields[f]]

\* Wrong variant: the upstream's identity is stamped over and not kept.
OverlayProxyInfo_forgets(doc) == Stamped(doc)

\* The upstream's software and version move under `upstream` (over a field of
\* that name, if there is one); outlay's identity is stamped on top.
OverlayProxyInfo(doc) ==
    LET moved    == Restricted(doc, {"software", "version"})
        upstream == IF DOMAIN moved = {} THEN {} ELSE {"upstream"}
    IN Stamped([f \in upstream \cup (DOMAIN doc \ DOMAIN moved) |->
                  IF f \in upstream THEN moved ELSE doc[f]])

SynthesizedProxyInfo == Stamped([supported_nips |-> {1}])

\* The document for an answer.
ProxyInfo(answer) ==
    IF answer.kind = "doc" THEN OverlayProxyInfo(answer.doc) ELSE SynthesizedProxyInfo
=============================================================================
