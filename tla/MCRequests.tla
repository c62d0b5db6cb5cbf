----------------------------- MODULE MCRequests -----------------------------
(* The shim's own URL in two spellings, a third-party relay, and a string  *)
(* that is not a URL.  The deployments are a family of relay lists, a      *)
(* family of flags and modes, and one of upstreams.                        *)
EXTENDS Requests

CONSTANTS k1

MCUrls == {"own", "own/", "third", "bad"}
MCCanon == [u \in MCUrls |-> IF u = "bad" THEN None ELSE IF u = "third" THEN "third" ELSE "own"]
MCStrip == [u \in MCUrls |-> IF u = "own/" THEN "own" ELSE u]
MCKeys == {k1}

ServerDefaults == [proxy |-> None, relays |-> None, gift |-> None, announced |-> None,
                   backend |-> None, db |-> None, port |-> None, key |-> None]

ShimDefaults == [listen |-> None, relays |-> None, encryption |-> None, gift |-> None,
                 cap |-> None, relay |-> None, public |-> None]

Silent == [kind |-> "none", doc |-> None]

Doc(d) == [kind |-> "doc", doc |-> d]

RawLists == Lists(Urls \cup {Blank}) \cup {None}

\* Relay lists with blanks, repetitions and both spellings.
ByLists ==
    [shim : {[ShimDefaults EXCEPT !.relays = r, !.public = p, !.relay = on] :
                r \in RawLists, p \in {None, <<"", "own/">>, <<"bad", "own">>, <<"third">>},
                on \in {None, "0"}},
     outlay : {[ServerDefaults EXCEPT !.relays = r] :
                r \in {None, <<"own/">>, <<"bad", "third">>}},
     answers : {{Silent}}]

\* Flags and modes as operators spell them.
ByModes ==
    [shim : {[ShimDefaults EXCEPT !.relay = on, !.gift = g, !.encryption = c, !.cap = 0] :
                on \in {"FALSE", "1", "yes"}, g \in {None, "", "persistent", "optional", "sealed"},
                c \in {"required", "encrypted"}},
     outlay : {[ServerDefaults EXCEPT !.announced = a, !.gift = g] :
                a \in {"1", "TRUE"}, g \in {None, "", "persistent", "optional", "sealed"}},
     answers : {{Silent}}]

\* Upstreams and their documents: with all fields, with an `upstream` of its
\* own, and with neither software nor version.
Documents ==
    {[name |-> "a", software |-> "strfry", version |-> "1"],
     [name |-> "b", software |-> "strfry", upstream |-> [version |-> "0"], proxy |-> FALSE],
     [name |-> "c"]}

ByUpstreams ==
    [shim : {[ShimDefaults EXCEPT !.public = <<"own/">>], ShimDefaults},
     outlay : {[ServerDefaults EXCEPT !.proxy = url] : url \in {"wss", "WSS", ""}},
     answers : {Unusable \cup {Doc(d) : d \in Documents}}]

MCDeployments == ByLists \cup ByModes \cup ByUpstreams

\* Every path as an HTML page, and one of each kind as other requests.
MCVisits ==
    LET some == {p \in Paths : p.kind \in {"hex", "garbage", "root"}}
    IN [path : Paths, upgrade : {"no"}, json : {FALSE}]
         \cup [path : some, upgrade : {"no"}, json : {TRUE}]
         \cup [path : some, upgrade : {"ok", "bad"}, json : {FALSE}]
=============================================================================
