--------------------------- MODULE Requests_proofs ---------------------------
(***************************************************************************)
(* TLAPS proofs about the requests at a shim, for any environments, relay  *)
(* lists, spellings, paths and answers of the upstream.                    *)
(***************************************************************************)
EXTENDS Requests, FiniteSetTheorems, TLAPS

-----------------------------------------------------------------------------
(* The inductive invariant.                                                *)

\* The configurations are those of the environments, from Boot to the end.
Configured ==
    /\ pc = "down" => shim = None /\ outlay = None /\ dialled = None
    /\ pc # "down" => /\ shim # None /\ shim = ReadShimConfig(dep.shim)
                      /\ outlay = ReadServerConfig(dep.outlay)

\* A transport is the one for the path of the request.
DialledForPath ==
    dialled # None =>
        /\ visit \in Visits /\ ParsePath(visit.path) # None
        /\ dialled = ResolveRelayUrls(shim, ParsePath(visit.path), loopback)

\* What relay_info returned is an answer in the course of the request.
ResultSeen ==
    /\ pc \in {"calling", "fetching", "returning"} => serves \in seen
    /\ result # None => \E a \in seen : result = ProxyInfo(a)

\* The page of a server is what relay_info returned, and made last.
PageIsResult ==
    reply.status = 200 /\ visit.path.kind # "root" =>
        pc = "ready" /\ result # None /\ reply.doc = result

RequestsInv == TypeOK /\ Configured /\ DialledForPath /\ ResultSeen /\ PageIsResult

-----------------------------------------------------------------------------
(* Lists.                                                                  *)

\* A list is a sequence of a length up to the bound.
LEMMA ListIsSequence ==
  ASSUME NEW S, NEW list
  PROVE  list \in Lists(S) <=> \E n \in 0..MaxList : list \in [1..n -> S]
  BY DEF Lists

\* The items that are not blank, counted up to each of them, are numbered
\* without a gap: of two such items the later one has the larger number, and
\* as many numbers as there are items leave none out.
LEMMA EveryPlaceTaken ==
  ASSUME NEW kept \in SUBSET Nat, IsFiniteSet(kept),
         NEW n \in 1..Cardinality(kept)
  PROVE  \E i \in kept : Cardinality({j \in kept : j <= i}) = n
  <1> DEFINE UpTo(i) == {j \in kept : j <= i}
             rank == [i \in kept |-> Cardinality(UpTo(i))]
             places == 1..Cardinality(kept)
  <1>1. Cardinality(kept) \in Nat
    BY FS_CardinalityType
  <1>2. \A i \in kept : IsFiniteSet(UpTo(i)) /\ Cardinality(UpTo(i)) \in places
    <2> SUFFICES ASSUME NEW i \in kept
                 PROVE  IsFiniteSet(UpTo(i)) /\ Cardinality(UpTo(i)) \in places
      OBVIOUS
    <2>1. UpTo(i) \in SUBSET kept /\ i \in UpTo(i)
      OBVIOUS
    <2>2. IsFiniteSet(UpTo(i)) /\ Cardinality(UpTo(i)) <= Cardinality(kept)
      BY <2>1, FS_Subset
    <2> HIDE DEF UpTo
    <2>3. Cardinality(UpTo(i)) \in Nat
      BY <2>2, FS_CardinalityType
    <2>4. Cardinality(UpTo(i)) # 0
      <3>1. UpTo(i) # {}
        BY <2>1
      <3> QED
        BY <3>1, <2>2, FS_EmptySet
    <2> QED
      BY <1>1, <2>2, <2>3, <2>4
  <1>3. ASSUME NEW i \in kept, NEW k \in kept, i < k
        PROVE  Cardinality(UpTo(i)) # Cardinality(UpTo(k))
    <2>1. UpTo(i) \in SUBSET UpTo(k)
      <3>1. i \in Nat /\ k \in Nat /\ \A j \in kept : j \in Nat
        OBVIOUS
      <3>2. \A j \in kept : j <= i => j <= k
        BY <1>3, <3>1
      <3> QED
        BY <3>2
    <2>2. k \in UpTo(k) /\ k \notin UpTo(i)
      BY <1>3
    <2>3. IsFiniteSet(UpTo(k))
      BY <1>2
    <2> QED
      BY <2>1, <2>2, <2>3, FS_Subset
  <1>4. rank \in Injection(kept, places)
    <2>1. rank \in [kept -> places]
      BY <1>2
    <2>2. ASSUME NEW i \in kept, NEW k \in kept, rank[i] = rank[k]
          PROVE  i = k
      <3>1. Cardinality(UpTo(i)) = Cardinality(UpTo(k))
        BY <2>2
      <3> HIDE DEF UpTo
      <3>2. i \in Nat /\ k \in Nat
        OBVIOUS
      <3>3. i < k \/ k < i \/ i = k
        BY <3>2
      <3> QED
        BY <1>3, <3>1, <3>3
    <2> QED
      BY <2>1, <2>2 DEF Injection, IsInjective
  <1>5. IsFiniteSet(places) /\ Cardinality(places) = Cardinality(kept)
    BY <1>1, FS_Interval
  <1>6. rank \in Surjection(kept, places)
    BY <1>4, <1>5, FS_Injection
  <1>7. PICK i \in kept : rank[i] = n
    BY <1>6 DEF Surjection
  <1> QED
    BY <1>7

\* Dropping the blanks of a list of URLs and blanks leaves a list of URLs that
\* is not longer.
LEMMA NonBlankList ==
  ASSUME NEW list \in Lists(Urls \cup {Blank})
  PROVE  NonBlank(list) \in Lists(Urls)
  <1> DEFINE kept == {i \in DOMAIN list : list[i] # Blank}
             Nth(n) == CHOOSE i \in kept : Cardinality({j \in kept : j <= i}) = n
  <1>1. PICK m \in 0..MaxList : list \in [1..m -> Urls \cup {Blank}]
    BY ListIsSequence
  <1>2. kept \in SUBSET (1..m) /\ kept \in SUBSET Nat
    BY <1>1
  <1>3. IsFiniteSet(1..m) /\ Cardinality(1..m) = m
    BY <1>1, FS_Interval, UrlAssumption
  <1>4. /\ IsFiniteSet(kept) /\ Cardinality(kept) <= m
        /\ Cardinality(kept) \in Nat
    BY <1>2, <1>3, FS_Subset, FS_CardinalityType
  <1>5. ASSUME NEW n \in 1..Cardinality(kept)
        PROVE  list[Nth(n)] \in Urls
    <2> HIDE DEF kept
    <2>1. \E i \in kept : Cardinality({j \in kept : j <= i}) = n
      BY <1>2, <1>4, EveryPlaceTaken
    <2>2. Nth(n) \in kept
      BY <2>1
    <2> HIDE DEF Nth
    <2> QED
      BY <1>1, <2>2 DEF kept
  <1>6. NonBlank(list) = [n \in 1..Cardinality(kept) |-> list[Nth(n)]]
    BY DEF NonBlank
  <1> HIDE DEF kept, Nth
  <1>7. NonBlank(list) \in [1..Cardinality(kept) -> Urls]
    BY <1>5, <1>6
  <1>8. Cardinality(kept) \in 0..MaxList
    BY <1>1, <1>4, UrlAssumption
  <1> QED
    BY <1>7, <1>8, ListIsSequence

\* The relays of a configuration are a list of URLs, and not the empty one.
LEMMA RelaysList ==
  ASSUME NEW raw \in Lists(Urls \cup {Blank}) \cup {None}
  PROVE  RelaysOf(raw) \in Lists(Urls) \ {<<>>}
  <1>1. <<Default>> \in Lists(Urls) /\ <<Default>> # <<>>
    <2>1. <<Default>> \in Seq(Urls) /\ Len(<<Default>>) = 1
      BY UrlAssumption
    <2>2. <<Default>> \in [1..1 -> Urls] /\ <<Default>> # <<>>
      BY <2>1
    <2>3. 1 \in 0..MaxList
      BY UrlAssumption
    <2> QED
      BY <2>2, <2>3, ListIsSequence
  <1>2. CASE raw = None \/ NonBlank(raw) = <<>>
    BY <1>1, <1>2 DEF RelaysOf
  <1>3. CASE raw # None /\ NonBlank(raw) # <<>>
    BY <1>3, NonBlankList DEF RelaysOf
  <1> QED
    BY <1>2, <1>3

-----------------------------------------------------------------------------
(* Documents.                                                              *)

\* The document outlay makes up is identified and names no upstream.
LEMMA SynthesizedPage ==
    /\ Identified(SynthesizedProxyInfo)
    /\ "upstream" \notin DOMAIN SynthesizedProxyInfo
  BY DEF SynthesizedProxyInfo, Stamped, Stamp, Identified

\* The overlay is identified and shows the document below it, whatever fields
\* that has.
LEMMA OverlaidPage ==
  ASSUME NEW doc
  PROVE  /\ Identified(OverlayProxyInfo(doc))
         /\ Shows(OverlayProxyInfo(doc), doc)
  <1> DEFINE moved == Restricted(doc, {"software", "version"})
             upstream == IF DOMAIN moved = {} THEN {} ELSE {"upstream"}
             fields == [f \in upstream \cup (DOMAIN doc \ DOMAIN moved) |->
                          IF f \in upstream THEN moved ELSE doc[f]]
             page == Stamped(fields)
  <1>1. /\ DOMAIN moved = DOMAIN doc \cap {"software", "version"}
        /\ \A f \in DOMAIN moved : moved[f] = doc[f]
    BY DEF Restricted
  <1>2. /\ DOMAIN Stamp = {"software", "version", "proxy"}
        /\ Stamp["software"] = "outlay" /\ Stamp["proxy"] = TRUE
    BY DEF Stamp
  <1> HIDE DEF moved
  <1>3. /\ DOMAIN fields = upstream \cup (DOMAIN doc \ DOMAIN moved)
        /\ \A f \in DOMAIN fields : fields[f] = IF f \in upstream THEN moved ELSE doc[f]
    OBVIOUS
  <1> HIDE DEF fields
  <1>4. /\ DOMAIN page = DOMAIN Stamp \cup DOMAIN fields
        /\ \A f \in DOMAIN page :
              page[f] = IF f \in DOMAIN Stamp THEN Stamp[f] ELSE fields[f]
    BY DEF Stamped
  <1>5. OverlayProxyInfo(doc) = page
    BY DEF OverlayProxyInfo, moved, fields
  <1> HIDE DEF page
  <1>6. Identified(page)
    BY <1>2, <1>4 DEF Identified
  <1>7. ASSUME NEW f \in DOMAIN doc \cap {"software", "version"}
        PROVE  /\ "upstream" \in DOMAIN page
               /\ f \in DOMAIN page["upstream"] /\ page["upstream"][f] = doc[f]
    BY <1>1, <1>2, <1>3, <1>4, <1>7
  <1>8. ASSUME NEW f \in DOMAIN doc \ {"software", "version", "upstream", "proxy"}
        PROVE  f \in DOMAIN page /\ page[f] = doc[f]
    BY <1>1, <1>2, <1>3, <1>4, <1>8
  <1>9. Shows(page, doc)
    BY <1>7, <1>8 DEF Shows
  <1> QED
    BY <1>5, <1>6, <1>9

-----------------------------------------------------------------------------
(* The inductive invariant is one.                                         *)

\* What a shim that started is configured with.
LEMMA ShimConfigTyped ==
  ASSUME NEW d \in Deployments, ReadShimConfig(d.shim) # None
  PROVE  /\ ReadShimConfig(d.shim).cap > 0
         /\ ReadShimConfig(d.shim).relays \in Lists(Urls) \ {<<>>}
  <1>1. RelaysOf(d.shim.relays) \in Lists(Urls) \ {<<>>}
    BY RequestsAssumption, RelaysList
  <1>2. (IF d.shim.cap = 0 THEN 1 ELSE Or(d.shim.cap, 64)) > 0
    BY RequestsAssumption DEF Or
  <1>3. /\ ReadShimConfig(d.shim).relays = RelaysOf(d.shim.relays)
        /\ ReadShimConfig(d.shim).cap = IF d.shim.cap = 0 THEN 1 ELSE Or(d.shim.cap, 64)
    BY DEF ReadShimConfig
  <1> QED
    BY <1>1, <1>2, <1>3

\* An outlay that runs listens somewhere.
LEMMA ServerConfigTyped ==
  ASSUME NEW d \in Deployments, ReadServerConfig(d.outlay) # None
  PROVE  ReadServerConfig(d.outlay).relays # <<>>
  <1>1. RelaysOf(d.outlay.relays) # <<>>
    BY RequestsAssumption, RelaysList
  <1> QED
    BY <1>1 DEF ReadServerConfig

\* The hints of a path are a list of URLs with the relays of the path.
LEMMA HintsOfPath ==
  ASSUME NEW p \in Paths, ParsePath(p) # None
  PROVE  /\ ParsePath(p).hints \in Lists(Urls)
         /\ ParsePath(p).hints = <<>> <=> p.relays = <<>>
         /\ \A i \in DOMAIN p.relays :
               /\ i \in DOMAIN ParsePath(p).hints
               /\ Canon[ParsePath(p).hints[i]] = Canon[p.relays[i]]
  <1>1. CASE p.kind \in {"hex", "npub"}
    <2>1. p.relays = <<>> /\ ParsePath(p).hints = <<>>
      BY <1>1 DEF Paths, ParsePath
    <2>2. <<>> \in [1..0 -> Urls] /\ 0 \in 0..MaxList /\ DOMAIN <<>> = {}
      BY UrlAssumption
    <2> QED
      BY <2>1, <2>2, ListIsSequence
  <1>2. CASE p.kind = "nprofile"
    <2>1. p.relays \in Lists({u \in Urls : Canon[u] # None})
      BY <1>2 DEF Paths
    <2>2. PICK n \in 0..MaxList : p.relays \in [1..n -> {u \in Urls : Canon[u] # None}]
      BY <2>1, ListIsSequence
    <2>3. ParsePath(p).hints = [i \in 1..n |-> Strip[p.relays[i]]]
      BY <1>2, <2>2 DEF ParsePath
    <2>4. /\ ParsePath(p).hints \in [1..n -> Urls]
          /\ \A i \in 1..n : Canon[ParsePath(p).hints[i]] = Canon[p.relays[i]]
      BY <2>2, <2>3, UrlAssumption
    <2>5. ParsePath(p).hints = <<>> <=> p.relays = <<>>
      BY <2>2, <2>4
    <2> QED
      BY <2>2, <2>4, <2>5, ListIsSequence
  <1>3. CASE p.kind \in {"note", "garbage", "root"}
    BY <1>3 DEF ParsePath
  <1> QED
    BY <1>1, <1>2, <1>3 DEF Paths

\* The candidates of a path: its hints, else the configured relays.
Candidates(cfg, parsed) == IF parsed.hints # <<>> THEN parsed.hints ELSE cfg.relays

\* The declared relays, as the bridge compares them.
OwnOf(cfg) ==
    LET public == IF cfg.public # <<>> THEN cfg.public ELSE cfg.relays
    IN {NormUrl(public[j]) : j \in DOMAIN public} \ {None}

\* What is dialled, item by item.
LEMMA ResolvedItems ==
  ASSUME NEW cfg, NEW parsed, NEW lb
  PROVE  LET urls == ResolveRelayUrls(cfg, parsed, lb)
             cands == Candidates(cfg, parsed)
         IN IF lb = None THEN urls = cands
            ELSE urls = [i \in DOMAIN cands |->
                           IF Canon[cands[i]] \in OwnOf(cfg) THEN lb ELSE cands[i]]
  BY DEF ResolveRelayUrls, SubstituteSelf, Candidates, OwnOf, NormUrl

\* A list of candidates leaves a list of dialled URLs, and not the empty one.
LEMMA ResolvedTyped ==
  ASSUME NEW d \in Deployments, ReadShimConfig(d.shim) # None,
         NEW p \in Paths, ParsePath(p) # None, NEW lb \in {Loopback, None}
  PROVE  /\ Candidates(ReadShimConfig(d.shim), ParsePath(p)) \in Lists(Urls) \ {<<>>}
         /\ ResolveRelayUrls(ReadShimConfig(d.shim), ParsePath(p), lb)
               \in Lists(Urls \cup {Loopback}) \ {<<>>}
  <1> DEFINE cfg == ReadShimConfig(d.shim)
             parsed == ParsePath(p)
             cands == Candidates(cfg, parsed)
             urls == ResolveRelayUrls(cfg, parsed, lb)
  <1>1. cands \in Lists(Urls) \ {<<>>}
    BY ShimConfigTyped, HintsOfPath DEF Candidates
  <1>2. PICK n \in 0..MaxList : cands \in [1..n -> Urls]
    BY <1>1, ListIsSequence
  <1>3. IF lb = None THEN urls = cands
        ELSE urls = [i \in DOMAIN cands |->
                       IF Canon[cands[i]] \in OwnOf(cfg) THEN lb ELSE cands[i]]
    BY ResolvedItems
  <1> HIDE DEF cands, urls
  <1>4. urls \in [1..n -> Urls \cup {Loopback}]
    BY <1>2, <1>3
  <1>5. urls # <<>>
    <2>1. n # 0
      BY <1>1, <1>2
    <2> QED
      BY <2>1, <1>4
  <1> QED
    BY <1>1, <1>2, <1>4, <1>5, ListIsSequence DEF cands, urls

LEMMA InitInv == Init => RequestsInv
  BY DEF Init, RequestsInv, TypeOK, Configured, DialledForPath, ResultSeen,
         PageIsResult, NoReply

LEMMA BootInv == RequestsInv /\ Boot => RequestsInv'
  <1> SUFFICES ASSUME RequestsInv, Boot
               PROVE  RequestsInv'
    OBVIOUS
  <1> USE DEF RequestsInv, Boot
  <1>1. /\ shim' # None /\ shim' = ReadShimConfig(dep.shim) /\ dep' = dep
        /\ outlay' = ReadServerConfig(dep.outlay) /\ dep \in Deployments
        /\ loopback' \in {Loopback, None}
    BY DEF TypeOK
  <1>2. /\ shim'.cap > 0 /\ shim'.relays # <<>>
        /\ outlay' # None => outlay'.relays # <<>>
    BY <1>1, ShimConfigTyped, ServerConfigTyped
  <1>3. dialled' = None
    BY DEF Configured
  <1>4. TypeOK'
    BY <1>1, <1>2, <1>3 DEF TypeOK
  <1>5. Configured'
    BY <1>1 DEF Configured
  <1>6. DialledForPath' /\ ResultSeen' /\ PageIsResult'
    BY <1>3 DEF DialledForPath, ResultSeen, PageIsResult
  <1> QED
    BY <1>4, <1>5, <1>6

\* A response that needs no transport: the page of the root, or an error.
LEMMA AnswerInv ==
  ASSUME RequestsInv, NEW v \in Visits, NEW response, Answer(v, response),
         response.status \in {101, 200, 400},
         response.doc \in {None, SynthRoot},
         v.path.kind # "root" => response.status # 200
  PROVE  RequestsInv'
  <1> USE DEF RequestsInv, Answer, Arrive, config
  <1>1. TypeOK'
    BY DEF TypeOK
  <1>2. Configured' /\ DialledForPath'
    BY DEF Configured, DialledForPath
  <1>3. ResultSeen' /\ PageIsResult'
    BY DEF ResultSeen, PageIsResult
  <1> QED
    BY <1>1, <1>2, <1>3

\* A request that dials: a bridge, or a page that calls relay_info.
LEMMA DialInv ==
  ASSUME RequestsInv, NEW v \in Visits, Dial(v),
         \/ reply' = Status(101) /\ pc' = pc
         \/ reply' = NoReply /\ pc' = "calling"
  PROVE  RequestsInv'
  <1> USE DEF RequestsInv, Dial, Arrive, config
  <1>1. /\ dep \in Deployments /\ shim = ReadShimConfig(dep.shim) /\ shim # None
        /\ loopback \in {Loopback, None}
        /\ v.path \in Paths /\ ParsePath(v.path) # None
    BY RequestsAssumption DEF TypeOK, Configured
  <1>2. dialled' \in Lists(Urls \cup {Loopback}) \ {<<>>}
    BY <1>1, ResolvedTyped
  <1>3. /\ reply'.status \in {0, 101} /\ reply'.doc = None
        /\ pc = "ready" /\ pc' \in {"ready", "calling"}
    BY DEF Status, NoReply
  <1>4. TypeOK'
    BY <1>2, <1>3 DEF TypeOK
  <1>5. Configured'
    BY <1>3 DEF Configured
  <1>6. DialledForPath'
    BY DEF DialledForPath
  <1>7. ResultSeen' /\ PageIsResult'
    BY <1>3 DEF ResultSeen, PageIsResult
  <1> QED
    BY <1>4, <1>5, <1>6, <1>7

LEMMA RouterInv ==
  ASSUME RequestsInv, NEW v \in Visits,
         ServeRoot(v) \/ BadRequest(v) \/ ServeBridge(v) \/ ServePubkey(v)
  PROVE  RequestsInv'
  <1>1. CASE ServeRoot(v)
    <2> DEFINE response ==
                 CASE v.upgrade = "no" \/ loopback = None -> [Status(200) EXCEPT !.doc = SynthRoot]
                   [] v.upgrade = "ok" -> Status(101)
                   [] OTHER -> Status(400)
    <2>1. Answer(v, response) /\ v.path.kind = "root"
      BY <1>1 DEF ServeRoot
    <2>2. response.status \in {101, 200, 400} /\ response.doc \in {None, SynthRoot}
      BY DEF Status, NoReply
    <2> HIDE DEF response
    <2> QED
      BY <2>1, <2>2, AnswerInv
  <1>2. CASE BadRequest(v)
    <2>1. Answer(v, Status(400)) /\ Status(400).status = 400 /\ Status(400).doc = None
      BY <1>2 DEF BadRequest, Status, NoReply
    <2> QED
      BY <2>1, AnswerInv
  <1>3. CASE ServeBridge(v)
    <2>1. CASE Dial(v) /\ reply' = Status(101) /\ pc' = pc
      BY <2>1, DialInv
    <2>2. CASE Answer(v, Status(101))
      <3>1. Status(101).status = 101 /\ Status(101).doc = None
        BY DEF Status, NoReply
      <3> QED
        BY <2>2, <3>1, AnswerInv
    <2> QED
      BY <1>3, <2>1, <2>2 DEF ServeBridge
  <1>4. CASE ServePubkey(v)
    BY <1>4, DialInv DEF ServePubkey
  <1> QED
    BY <1>1, <1>2, <1>3, <1>4

\* What a step of the tool or of the response leaves alone.
LEMMA CallInv ==
  ASSUME RequestsInv, UNCHANGED <<config, serves, visit, dialled, seen>>,
         pc # "down", pc' \in {"ready", "calling", "fetching", "returning"},
         pc' # "ready" => serves \in seen,
         result' # None => \E a \in seen : result' = ProxyInfo(a),
         reply'.status \in {0, 101, 200, 400, 502},
         reply'.doc \in Infos \cup {None, SynthRoot},
         PageIsResult'
  PROVE  RequestsInv'
  <1> USE DEF RequestsInv, config
  <1>1. result' \in Infos \cup {None}
    BY DEF TypeOK, Infos
  <1>2. TypeOK'
    BY <1>1 DEF TypeOK
  <1>3. Configured' /\ DialledForPath' /\ ResultSeen'
    BY DEF Configured, DialledForPath, ResultSeen
  <1> QED
    BY <1>2, <1>3

LEMMA ProgressInv == RequestsInv /\ (Progress \/ CallErr) => RequestsInv'
  <1> SUFFICES ASSUME RequestsInv, Progress \/ CallErr
               PROVE  RequestsInv'
    OBVIOUS
  <1> USE DEF RequestsInv
  <1>1. CASE ToolCall
    BY <1>1, CallInv DEF ToolCall, TypeOK, ResultSeen, PageIsResult
  <1>2. CASE Fetch
    <2>1. PageIsResult'
      BY <1>2 DEF Fetch, PageIsResult
    <2> QED
      BY <1>2, <2>1, CallInv DEF Fetch, TypeOK, ResultSeen
  <1>3. CASE FetchErr
    BY <1>3, CallInv DEF FetchErr, TypeOK, ResultSeen, PageIsResult, ProxyInfo
  <1>4. CASE Render
    <2>1. reply'.status \in {200, 502} /\ reply'.doc \in {result, None}
      BY <1>4 DEF Render, RenderJson, RenderHtml, Status, NoReply
    <2>2. reply'.status = 200 => result # None /\ reply'.doc = result
      BY <1>4 DEF Render, RenderJson, RenderHtml, Status, NoReply
    <2> QED
      BY <1>4, <2>1, <2>2, CallInv DEF Render, TypeOK, ResultSeen, PageIsResult
  <1>5. CASE CallErr
    <2>1. reply'.status = 502 /\ reply'.doc = None
      BY <1>5 DEF CallErr, Status, NoReply
    <2> QED
      BY <1>5, <2>1, CallInv DEF CallErr, TypeOK, ResultSeen, PageIsResult
  <1> QED
    BY <1>1, <1>2, <1>3, <1>4, <1>5 DEF Progress

LEMMA UpstreamInv ==
  ASSUME RequestsInv, NEW a \in dep.answers, UpstreamChanges(a)
  PROVE  RequestsInv'
  <1> USE DEF RequestsInv, UpstreamChanges, config
  <1>1. TypeOK'
    BY DEF TypeOK
  <1>2. Configured' /\ DialledForPath' /\ PageIsResult'
    BY DEF Configured, DialledForPath, PageIsResult
  <1>3. ResultSeen'
    BY DEF ResultSeen
  <1> QED
    BY <1>1, <1>2, <1>3

\* The strengthening of the properties of the requests: configurations are the
\* environments', a transport is the path's, a page is an answer of this request.
THEOREM RequestsInvariant == Spec => []RequestsInv
  <1>1. RequestsInv /\ [Next]_vars => RequestsInv'
    <2> SUFFICES ASSUME RequestsInv, [Next]_vars
                 PROVE  RequestsInv'
      OBVIOUS
    <2>1. CASE UNCHANGED vars
      BY <2>1 DEF vars, config, RequestsInv, TypeOK, Configured, DialledForPath,
                  ResultSeen, PageIsResult
    <2> QED
      BY <2>1, BootInv, RouterInv, ProgressInv, UpstreamInv DEF Next
  <1> QED
    BY <1>1, InitInv, PTL DEF Spec

\* Every reachable state is well typed: what is dialled is a list of URLs, and
\* never the empty one.
THEOREM TypeCorrect == Spec => []TypeOK
  BY RequestsInvariant, PTL DEF RequestsInv

-----------------------------------------------------------------------------
(* Hairpin and rendezvous.                                                 *)

LEMMA DeclaredIsOwn == Declared = OwnOf(shim)
  BY DEF Declared, OwnOf, NormUrl

\* With the colocated relay on and the shim's own URL declared, in whatever
\* spelling, no path makes the bridge dial its own public URL.
THEOREM NoHairpinTheorem == Spec => []NoHairpin
  <1>1. RequestsInv => NoHairpin
    <2> SUFFICES ASSUME RequestsInv, dialled # None, loopback # None, Own \in Declared,
                        NEW i \in DOMAIN dialled, dialled[i] \in Urls
                 PROVE  Canon[dialled[i]] # Own
      BY DEF NoHairpin
    <2> DEFINE cands == Candidates(shim, ParsePath(visit.path))
    <2>1. dialled = [j \in DOMAIN cands |->
                       IF Canon[cands[j]] \in OwnOf(shim) THEN loopback ELSE cands[j]]
      BY ResolvedItems DEF RequestsInv, DialledForPath
    <2> HIDE DEF cands
    <2>2. loopback \notin Urls
      BY UrlAssumption DEF RequestsInv, TypeOK
    <2>3. Canon[cands[i]] \notin OwnOf(shim) /\ dialled[i] = cands[i]
      BY <2>1, <2>2
    <2> QED
      BY <2>3, DeclaredIsOwn
  <1> QED
    BY <1>1, RequestsInvariant, PTL

\* Gift wraps agree if both environments say the same of them: the defaults of
\* the two crates are one.
LEMMA SameWraps ==
  ASSUME ReadShimConfig(dep.shim) # None, ReadServerConfig(dep.outlay) # None,
         shim = ReadShimConfig(dep.shim), outlay = ReadServerConfig(dep.outlay),
         dep.shim.gift = dep.outlay.gift
  PROVE  WrapsAgree
  <1>1. shim.gift = Or(OptString(dep.shim.gift), "ephemeral")
    BY DEF ReadShimConfig
  <1>2. outlay.gift = Or(OptString(dep.outlay.gift), "ephemeral")
    BY DEF ReadServerConfig, ServerGiftWrap
  <1> QED
    BY <1>1, <1>2 DEF WrapsAgree

\* The relays a request asks for.
Asked(p, cfg) ==
    LET wanted == IF p.relays # <<>> THEN p.relays ELSE cfg.relays
    IN {Canon[wanted[i]] : i \in DOMAIN wanted}

\* A relay asked for is one of the candidates, as a relay if not as a spelling.
LEMMA WantedIsCandidate ==
  ASSUME NEW p \in Paths, ParsePath(p) # None, NEW cfg, NEW relay \in Asked(p, cfg)
  PROVE  \E i \in DOMAIN Candidates(cfg, ParsePath(p)) :
            Canon[Candidates(cfg, ParsePath(p))[i]] = relay
  <1>1. CASE p.relays # <<>>
    <2>1. PICK i \in DOMAIN p.relays : relay = Canon[p.relays[i]]
      BY <1>1 DEF Asked
    <2> QED
      BY <1>1, <2>1, HintsOfPath DEF Candidates
  <1>2. CASE p.relays = <<>>
    BY <1>2, HintsOfPath DEF Candidates, Asked
  <1> QED
    BY <1>1, <1>2

\* Where the operator declares the shim's own URLs and nothing else, and both
\* sides say the same of gift wraps, a relay that outlay listens on and the path
\* or the fallback names, however each spells it, brings the two together.
THEOREM RendezvousTheorem == Spec => []Rendezvous
  <1>1. RequestsInv => Rendezvous
    <2> SUFFICES ASSUME RequestsInv, dialled # None, outlay # None,
                        loopback # None => Declared = {Own},
                        dep.shim.gift = dep.outlay.gift,
                        NEW relay \in Common,
                        loopback = None => relay # Own
                 PROVE  Meets
      BY DEF Rendezvous
    <2> DEFINE cands == Candidates(shim, ParsePath(visit.path))
    <2>1. /\ shim = ReadShimConfig(dep.shim) /\ shim # None
          /\ outlay = ReadServerConfig(dep.outlay)
      BY DEF RequestsInv, Configured
    <2>2. /\ visit.path \in Paths /\ ParsePath(visit.path) # None
          /\ dialled = ResolveRelayUrls(shim, ParsePath(visit.path), loopback)
          /\ dep \in Deployments /\ loopback \in {Loopback, None}
      BY RequestsAssumption DEF RequestsInv, DialledForPath, TypeOK
    <2>3. relay \in Listening
      BY DEF Common
    <2>4. PICK i \in DOMAIN cands : Canon[cands[i]] = relay
      <3>1. relay \in Asked(visit.path, shim)
        BY DEF Common, Asked
      <3> QED
        BY <2>2, <3>1, WantedIsCandidate
    <2>5. cands[i] \in Urls /\ cands[i] # Loopback
      <3>1. cands \in Lists(Urls)
        BY <2>1, <2>2, ResolvedTyped
      <3> HIDE DEF cands
      <3>2. PICK n \in 0..MaxList : cands \in [1..n -> Urls]
        BY <3>1, ListIsSequence
      <3> QED
        BY <2>4, <3>2, UrlAssumption
    <2>6. IF loopback = None THEN dialled = cands
          ELSE dialled = [j \in DOMAIN cands |->
                            IF Canon[cands[j]] \in OwnOf(shim) THEN loopback ELSE cands[j]]
      BY <2>2, ResolvedItems
    <2> HIDE DEF cands
    <2>7. \E j \in DOMAIN dialled :
             \/ dialled[j] = Loopback /\ Own \in Listening
             \/ dialled[j] # Loopback /\ Canon[dialled[j]] \in Listening \ {Own}
      <3>1. CASE loopback = None
        BY <2>3, <2>4, <2>5, <2>6, <3>1
      <3>2. CASE loopback # None /\ relay = Own
        <4>1. dialled[i] = Loopback /\ i \in DOMAIN dialled
          BY <2>2, <2>4, <2>6, <3>2, DeclaredIsOwn
        <4> QED
          BY <2>3, <3>2, <4>1
      <3>3. CASE loopback # None /\ relay # Own
        <4>1. dialled[i] = cands[i] /\ i \in DOMAIN dialled
          BY <2>4, <2>6, <3>3, DeclaredIsOwn
        <4> QED
          BY <2>3, <2>4, <2>5, <3>3, <4>1
      <3> QED
        BY <3>1, <3>2, <3>3
    <2>8. WrapsAgree
      BY <2>1, SameWraps
    <2> QED
      BY <2>7, <2>8 DEF Meets
  <1> QED
    BY <1>1, RequestsInvariant, PTL

-----------------------------------------------------------------------------
(* Pages.                                                                  *)

\* A server's page says that it is a proxy and shows what the upstream answered
\* in the course of this very request, or that it gave no document then.
THEOREM PageShowsUpstreamTheorem == Spec => []PageShowsUpstream
  <1>1. RequestsInv => PageShowsUpstream
    <2> SUFFICES ASSUME RequestsInv, reply.status = 200, visit.path.kind # "root"
                 PROVE  /\ Identified(reply.doc)
                        /\ \E a \in seen : IF a.kind = "doc" THEN Shows(reply.doc, a.doc)
                                           ELSE "upstream" \notin DOMAIN reply.doc
      BY DEF PageShowsUpstream
    <2>1. PICK a \in seen : reply.doc = ProxyInfo(a)
      BY DEF RequestsInv, PageIsResult, ResultSeen
    <2>2. CASE a.kind = "doc"
      BY <2>1, <2>2, OverlaidPage DEF ProxyInfo
    <2>3. CASE a.kind # "doc"
      BY <2>1, <2>3, SynthesizedPage DEF ProxyInfo
    <2> QED
      BY <2>2, <2>3
  <1> QED
    BY <1>1, RequestsInvariant, PTL
=============================================================================
