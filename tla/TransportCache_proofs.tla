----------------------- MODULE TransportCache_proofs -----------------------
(***************************************************************************)
(* TLAPS proofs about the transport cache, for any number of callers,      *)
(* identities and hints and any capacity.                                  *)
(***************************************************************************)
EXTENDS TransportCache, FiniteSetTheorems, TLAPS

-----------------------------------------------------------------------------
(* The inductive invariant.                                                *)

\* A caller that has not called has made no cell.
IdleMadeNothing == \A g \in Getters : pc[g] = "idle" => ident[g] = None

\* A caller's cell is one of the identity it asked for.
CellsKnown ==
    \A g \in Getters : pc[g] # "idle" =>
        cell[g] \in Getters /\ key[g] \in Identities /\ ident[cell[g]] = key[g]

\* The cache holds cells of different identities.
LruDistinct ==
    \A i, j \in DOMAIN lru :
        ident[lru[i]] \in Identities /\ (ident[lru[i]] = ident[lru[j]] => i = j)

\* Of two cached identities, the later one was asked for after the earlier.
Recency ==
    \A i, j \in DOMAIN lru : i < j => ident[lru[j]] \in others[lru[i]]

\* A cell leaves the cache only after Cap other identities were asked for.
EvictedByCap ==
    \A c \in Created : c \notin Cached => Cardinality(others[c]) >= Cap

OthersFinite == \A c \in Getters : IsFiniteSet(others[c])

\* A filled cell belongs to an identity, and whoever has a Peer got it from one.
FilledCells ==
    /\ \A c \in Getters : ready[c] => ident[c] # None
    /\ \A g \in Getters : pc[g] = "have" => ready[cell[g]]

\* A caller that builds holds the permit of its cell.
BuildersHold == \A g \in Getters : pc[g] = "building" => builder[cell[g]] = g

\* Whoever has a Peer has one of the transport that is in its cell.
PeersFit == \A g \in Getters : pc[g] = "have" => peer[g] = filled[cell[g]]

CacheInv ==
    /\ TypeOK
    /\ IdleMadeNothing /\ CellsKnown /\ FilledCells
    /\ LruDistinct /\ Recency /\ OthersFinite /\ EvictedByCap
    /\ PermitHeld /\ BuildersHold /\ PeersFit

\* What a step that neither looks up nor builds leaves alone.
sameCache == <<key, hint, cell, lru, ident, others>>

-----------------------------------------------------------------------------
(* The locked section.                                                     *)

\* A hit moves its entry to the recently used end and keeps the others' order.
LEMMA HitFacts ==
    ASSUME CacheInv, NEW g \in Getters, NEW id \in Identities, NEW h \in Hints,
           Lookup(g, id, h), Hits(id, h) # {}
    PROVE  \E p \in 1..Len(lru) :
              /\ ident[lru[p]] = id
              /\ lru[p] # g
              /\ cell' = [cell EXCEPT ![g] = lru[p]]
              /\ ident' = ident
              /\ others' = [x \in Getters |->
                              IF x = lru[p] THEN {}
                              ELSE IF x \in Cached THEN others[x] \cup {id} ELSE others[x]]
              /\ lru' \in Seq(Getters) /\ Len(lru') = Len(lru)
              /\ \A i \in 1..Len(lru) :
                    lru'[i] = IF i < p THEN lru[i]
                              ELSE IF i < Len(lru) THEN lru[i + 1] ELSE lru[p]
  <1> DEFINE c == CHOOSE x \in Hits(id, h) : TRUE
             p == CHOOSE i \in DOMAIN lru : lru[i] = c
  <1>1. c \in Hits(id, h)
    OBVIOUS
  <1>2. c \in Cached /\ ident[c] = id
    BY <1>1 DEF Hits
  <1>3. p \in DOMAIN lru /\ lru[p] = c
    BY <1>2 DEF Cached
  <1>4. DOMAIN lru = 1..Len(lru) /\ Len(lru) \in Nat
        /\ \A i \in 1..Len(lru) : lru[i] \in Getters
    BY DEF CacheInv, TypeOK
  <1>5. c \in Getters
    BY <1>3, <1>4
  <1>6. c # g
    <2>1. pc[g] = "idle"
      BY DEF Lookup
    <2>2. ident[g] # id
      BY <2>1, CacheAssumption DEF CacheInv, IdleMadeNothing
    <2> QED
      BY <1>2, <2>2
  <1>7. lru' = Touch(c) /\ cell' = [cell EXCEPT ![g] = c]
        /\ ident' = [ident EXCEPT ![c] = id]
        /\ others' = [x \in Getters |->
                        IF x = c THEN {}
                        ELSE IF x \in Cached THEN others[x] \cup {id} ELSE others[x]]
    BY <1>6 DEF Lookup
  <1>8. ident' = ident
    BY <1>2, <1>5, <1>7 DEF CacheInv, TypeOK
  <1>9. lru' = [i \in 1..Len(lru) |-> IF i < p THEN lru[i]
                                    ELSE IF i < Len(lru) THEN lru[i + 1] ELSE c]
    BY <1>4, <1>7 DEF Touch
  <1> HIDE DEF c, p
  <1>10. lru' \in [1..Len(lru) -> Getters]
    BY <1>4, <1>5, <1>9
  <1>11. lru' \in Seq(Getters) /\ Len(lru') = Len(lru)
    BY <1>4, <1>10
  <1>12. \A i \in 1..Len(lru) :
            lru'[i] = IF i < p THEN lru[i] ELSE IF i < Len(lru) THEN lru[i + 1] ELSE lru[p]
    BY <1>3, <1>9
  <1>13. p \in 1..Len(lru)
    BY <1>3, <1>4
  <1>14. /\ ident[lru[p]] = id /\ lru[p] # g
         /\ cell' = [cell EXCEPT ![g] = lru[p]]
         /\ others' = [x \in Getters |->
                         IF x = lru[p] THEN {}
                         ELSE IF x \in Cached THEN others[x] \cup {id} ELSE others[x]]
    BY <1>2, <1>3, <1>6, <1>7
  <1> WITNESS p \in 1..Len(lru)
  <1> QED
    BY <1>8, <1>11, <1>12, <1>14

\* A miss appends the caller's fresh cell, after dropping the oldest entry of a
\* full cache (s is 1 then).
LEMMA MissFacts ==
    ASSUME CacheInv, NEW g \in Getters, NEW id \in Identities, NEW h \in Hints,
           Lookup(g, id, h), Hits(id, h) = {}
    PROVE  /\ ident[g] = None /\ g \notin Cached
           /\ \A i \in 1..Len(lru) : ident[lru[i]] # id
           /\ cell' = [cell EXCEPT ![g] = g]
           /\ ident' = [ident EXCEPT ![g] = id]
           /\ others' = [x \in Getters |->
                           IF x = g THEN {}
                           ELSE IF x \in Cached THEN others[x] \cup {id} ELSE others[x]]
           /\ lru' \in Seq(Getters) /\ Len(lru') <= Cap
           /\ \E s \in {0, 1} :
                 /\ s = 1 <=> Len(lru) = Cap
                 /\ Len(lru') = Len(lru) + 1 - s
                 /\ \A i \in 1..(Len(lru) - s) : lru'[i] = lru[i + s]
                 /\ lru'[Len(lru')] = g
  <1>1. ident[g] = None
    BY DEF CacheInv, IdleMadeNothing, Lookup
  <1>2. lru \in Seq(Getters) /\ Len(lru) \in Nat /\ Len(lru) <= Cap /\ DOMAIN lru = 1..Len(lru)
    BY DEF CacheInv, TypeOK
  <1>3. g \notin Cached
    BY <1>1, CacheAssumption DEF CacheInv, LruDistinct, Cached
  <1>4. \A i \in 1..Len(lru) : ident[lru[i]] # id
    BY <1>2 DEF Hits, Cached
  <1>5. /\ lru' = Put(g) /\ cell' = [cell EXCEPT ![g] = g]
        /\ ident' = [ident EXCEPT ![g] = id]
        /\ others' = [x \in Getters |->
                        IF x = g THEN {}
                        ELSE IF x \in Cached THEN others[x] \cup {id} ELSE others[x]]
    BY DEF Lookup
  <1>6. CASE Len(lru) = Cap
    <2>1. lru # <<>> /\ Tail(lru) \in Seq(Getters) /\ Len(Tail(lru)) = Len(lru) - 1
          /\ \A i \in 1..(Len(lru) - 1) : Tail(lru)[i] = lru[i + 1]
      BY <1>2, <1>6, CacheAssumption
    <2>2. lru' = Append(Tail(lru), g)
      BY <1>2, <1>5, <1>6, CacheAssumption DEF Put
    <2>3. /\ lru' \in Seq(Getters) /\ Len(lru') = Len(lru)
          /\ \A i \in 1..(Len(lru) - 1) : lru'[i] = Tail(lru)[i]
          /\ lru'[Len(lru')] = g
      BY <1>2, <2>1, <2>2
    <2>4. \E s \in {0, 1} :
             /\ s = 1 <=> Len(lru) = Cap
             /\ Len(lru') = Len(lru) + 1 - s
             /\ \A i \in 1..(Len(lru) - s) : lru'[i] = lru[i + s]
             /\ lru'[Len(lru')] = g
      <3> WITNESS 1 \in {0, 1}
      <3> QED
        BY <1>2, <1>6, <2>1, <2>3
    <2> QED
      BY <1>1, <1>2, <1>3, <1>4, <1>5, <2>3, <2>4
  <1>7. CASE Len(lru) < Cap
    <2>1. lru' = Append(lru, g)
      BY <1>2, <1>5, <1>7, CacheAssumption DEF Put
    <2>2. /\ lru' \in Seq(Getters) /\ Len(lru') = Len(lru) + 1
          /\ \A i \in 1..Len(lru) : lru'[i] = lru[i]
          /\ lru'[Len(lru')] = g
      <3>1. /\ Append(lru, g) \in Seq(Getters) /\ Len(Append(lru, g)) = Len(lru) + 1
            /\ Append(lru, g)[Len(lru) + 1] = g
        BY <1>2
      <3>2. \A i \in 1..Len(lru) : Append(lru, g)[i] = lru[i]
        BY <1>2
      <3> QED
        BY <2>1, <3>1, <3>2
    <2>3. Len(lru') <= Cap
      <3>1. Cap \in Int
        BY CacheAssumption
      <3>2. Len(lru) + 1 <= Cap
        BY <1>2, <1>7, <3>1
      <3> QED
        BY <2>2, <3>2
    <2>4. \E s \in {0, 1} :
             /\ s = 1 <=> Len(lru) = Cap
             /\ Len(lru') = Len(lru) + 1 - s
             /\ \A i \in 1..(Len(lru) - s) : lru'[i] = lru[i + s]
             /\ lru'[Len(lru')] = g
      <3> WITNESS 0 \in {0, 1}
      <3> QED
        BY <1>2, <1>7, <2>2
    <2> QED
      BY <1>1, <1>2, <1>3, <1>4, <1>5, <2>2, <2>3, <2>4
  <1>8. Len(lru) = Cap \/ Len(lru) < Cap
    <2>1. Cap \in Int
      BY CacheAssumption
    <2>2. Len(lru) \in Int /\ Len(lru) <= Cap
      BY <1>2
    <2> QED
      BY <2>1, <2>2
  <1> QED
    BY <1>6, <1>7, <1>8
-----------------------------------------------------------------------------
(* The invariant is inductive.                                             *)

\* An empty cache satisfies the invariant.
LEMMA InitInv == Init => CacheInv
  <1> SUFFICES ASSUME Init PROVE CacheInv
    OBVIOUS
  <1>1. lru = <<>> /\ Len(lru) = 0 /\ DOMAIN lru = {}
    BY DEF Init
  <1>2. TypeOK
    BY <1>1, CacheAssumption DEF Init, TypeOK
  <1>3. IdleMadeNothing /\ CellsKnown /\ FilledCells /\ PermitHeld /\ BuildersHold
        /\ PeersFit
    BY CacheAssumption DEF Init, IdleMadeNothing, CellsKnown, FilledCells, PermitHeld,
                           BuildersHold, PeersFit
  <1>4. LruDistinct /\ Recency
    BY <1>1 DEF LruDistinct, Recency
  <1>5. OthersFinite /\ EvictedByCap
    BY FS_EmptySet DEF Init, OthersFinite, EvictedByCap, Created
  <1> QED
    BY <1>2, <1>3, <1>4, <1>5 DEF CacheInv

\* The part of the invariant that only a look-up can disturb.
LEMMA CacheFrame ==
    ASSUME CacheInv, UNCHANGED sameCache
    PROVE  LruDistinct' /\ Recency' /\ OthersFinite' /\ EvictedByCap'
    BY DEF CacheInv, sameCache, LruDistinct, Recency, OthersFinite, EvictedByCap,
           Created, Cached

\* What a look-up does to the callers and to the cells' contents.
LEMMA LookupRest ==
    ASSUME CacheInv, NEW g \in Getters, NEW id \in Identities, NEW h \in Hints,
           Lookup(g, id, h), NEW c \in Getters,
           cell' = [cell EXCEPT ![g] = c], ident'[c] = id,
           ident' \in [Getters -> Identities \cup {None}],
           c = g \/ ident[c] # None,
           \A x \in Getters : ident[x] # None => ident'[x] = ident[x],
           \A x \in Getters : x # c => ident'[x] = ident[x]
    PROVE  IdleMadeNothing' /\ CellsKnown' /\ FilledCells' /\ PermitHeld' /\ BuildersHold'
           /\ PeersFit'
  <1>1. /\ pc[g] = "idle" /\ pc' = [pc EXCEPT ![g] = "waiting"]
        /\ key' = [key EXCEPT ![g] = id] /\ hint' = [hint EXCEPT ![g] = h]
        /\ UNCHANGED <<ready, dead, filled, builder, peer>>
    BY DEF Lookup
  <1>2. TypeOK
    BY DEF CacheInv
  <1>3. IdleMadeNothing'
    BY <1>1, <1>2 DEF CacheInv, IdleMadeNothing, TypeOK
  <1>4. CellsKnown'
    BY <1>1, <1>2, CacheAssumption DEF CacheInv, CellsKnown, TypeOK
  <1>5. FilledCells'
    BY <1>1, <1>2, CacheAssumption DEF CacheInv, CellsKnown, FilledCells, TypeOK
  <1>6. PermitHeld'
    BY <1>1, <1>2 DEF CacheInv, PermitHeld, TypeOK
  <1>7. BuildersHold'
    BY <1>1, <1>2 DEF CacheInv, BuildersHold, TypeOK
  <1>8. PeersFit'
    BY <1>1, <1>2 DEF CacheInv, PeersFit, TypeOK
  <1> QED
    BY <1>3, <1>4, <1>5, <1>6, <1>7, <1>8

\* Identities asked for are finitely many.
LEMMA OthersStep ==
    ASSUME CacheInv, NEW c \in Getters, NEW id \in Identities,
           others' = [x \in Getters |->
                        IF x = c THEN {}
                        ELSE IF x \in Cached THEN others[x] \cup {id} ELSE others[x]]
    PROVE  OthersFinite' /\ others' \in [Getters -> SUBSET Identities]
  <1>1. ASSUME NEW x \in Getters PROVE IsFiniteSet(others'[x])
    <2>1. IsFiniteSet(others[x])
      BY DEF CacheInv, OthersFinite
    <2>2. IsFiniteSet(others[x] \cup {id})
      BY <2>1, FS_AddElement
    <2> QED
      BY <2>1, <2>2, FS_EmptySet
  <1> QED
    BY <1>1 DEF OthersFinite, CacheInv, TypeOK

\* Arithmetic of a move to the end: position k after it was MovedFrom(k, p, n)
\* before it.
MovedFrom(k, p, n) == IF k < p THEN k ELSE IF k < n THEN k + 1 ELSE p

\* A look-up that finds its identity preserves the invariant.
LEMMA HitStep ==
    ASSUME CacheInv, NEW g \in Getters, NEW id \in Identities, NEW h \in Hints,
           Lookup(g, id, h), Hits(id, h) # {}
    PROVE  CacheInv'
  <1>1. PICK p \in 1..Len(lru) :
              /\ ident[lru[p]] = id
              /\ lru[p] # g
              /\ cell' = [cell EXCEPT ![g] = lru[p]]
              /\ ident' = ident
              /\ others' = [x \in Getters |->
                              IF x = lru[p] THEN {}
                              ELSE IF x \in Cached THEN others[x] \cup {id} ELSE others[x]]
              /\ lru' \in Seq(Getters) /\ Len(lru') = Len(lru)
              /\ \A i \in 1..Len(lru) :
                    lru'[i] = IF i < p THEN lru[i]
                              ELSE IF i < Len(lru) THEN lru[i + 1] ELSE lru[p]
    BY HitFacts
  <1>2. /\ TypeOK /\ LruDistinct /\ Recency
        /\ Len(lru) \in Nat /\ Len(lru) <= Cap /\ DOMAIN lru = 1..Len(lru)
        /\ DOMAIN lru' = 1..Len(lru) /\ lru[p] \in Getters
        /\ \A i \in 1..Len(lru) : lru[i] \in Getters
    BY <1>1 DEF CacheInv, TypeOK
  <1>3. IdleMadeNothing' /\ CellsKnown' /\ FilledCells' /\ PermitHeld' /\ BuildersHold'
        /\ PeersFit'
    BY <1>1, <1>2, CacheAssumption, LookupRest DEF TypeOK
  <1>4. OthersFinite' /\ others' \in [Getters -> SUBSET Identities]
    BY <1>1, <1>2, OthersStep
  <1>5. TypeOK'
    BY <1>1, <1>2, <1>4 DEF TypeOK, Lookup
  <1> DEFINE old == [i \in 1..Len(lru) |-> MovedFrom(i, p, Len(lru))]
  <1>6. \A i \in 1..Len(lru) : old[i] \in 1..Len(lru) /\ lru'[i] = lru[old[i]]
    <2> SUFFICES ASSUME NEW i \in 1..Len(lru)
                 PROVE  old[i] \in 1..Len(lru) /\ lru'[i] = lru[old[i]]
      OBVIOUS
    <2>1. lru'[i] = IF i < p THEN lru[i] ELSE IF i < Len(lru) THEN lru[i + 1] ELSE lru[p]
      BY <1>1
    <2> QED
      BY <1>2, <2>1 DEF MovedFrom
  <1>7. \A i, j \in 1..Len(lru) :
           /\ old[i] = old[j] => i = j
           /\ i < j => old[i] # p /\ (old[i] < old[j] \/ old[j] = p)
    <2>1. \A i \in 1..Len(lru) : old[i] = MovedFrom(i, p, Len(lru))
      OBVIOUS
    <2> HIDE DEF old
    <2> SUFFICES ASSUME NEW i \in 1..Len(lru), NEW j \in 1..Len(lru)
                 PROVE  /\ old[i] = old[j] => i = j
                        /\ i < j => old[i] # p /\ (old[i] < old[j] \/ old[j] = p)
      OBVIOUS
    <2>2. Len(lru) \in Nat
      BY <1>2
    <2>3. old[i] = MovedFrom(i, p, Len(lru)) /\ old[j] = MovedFrom(j, p, Len(lru))
      BY <2>1
    <2>4. /\ MovedFrom(i, p, Len(lru)) = MovedFrom(j, p, Len(lru)) => i = j
          /\ i < j => /\ MovedFrom(i, p, Len(lru)) # p
                      /\ \/ MovedFrom(i, p, Len(lru)) < MovedFrom(j, p, Len(lru))
                         \/ MovedFrom(j, p, Len(lru)) = p
      BY <2>2 DEF MovedFrom
    <2> QED
      BY <2>3, <2>4
  <1> HIDE DEF old
  <1>8. LruDistinct'
    <2> SUFFICES ASSUME NEW i \in 1..Len(lru), NEW j \in 1..Len(lru)
                 PROVE  /\ ident[lru[old[i]]] \in Identities
                        /\ ident[lru[old[i]]] = ident[lru[old[j]]] => i = j
      BY <1>1, <1>2, <1>6 DEF LruDistinct
    <2> QED
      BY <1>2, <1>6, <1>7 DEF LruDistinct
  <1>9. Recency'
    <2> SUFFICES ASSUME NEW i \in DOMAIN lru', NEW j \in DOMAIN lru', i < j
                 PROVE  ident'[lru'[j]] \in others'[lru'[i]]
      BY DEF Recency
    <2>1. /\ old[i] \in 1..Len(lru) /\ old[j] \in 1..Len(lru)
          /\ old[i] # p /\ (old[i] < old[j] \/ old[j] = p)
          /\ lru'[i] = lru[old[i]] /\ lru'[j] = lru[old[j]]
      BY <1>2, <1>6, <1>7
    <2>2. lru[old[i]] # lru[p] /\ lru[old[i]] \in Cached
      BY <1>1, <1>2, <2>1 DEF LruDistinct, Cached
    <2>3. others'[lru[old[i]]] = others[lru[old[i]]] \cup {id}
      BY <1>1, <1>2, <2>1, <2>2
    <2>4. ident[lru[old[j]]] \in others[lru[old[i]]] \cup {id}
      BY <1>1, <1>2, <2>1 DEF Recency
    <2> QED
      BY <1>1, <2>1, <2>3, <2>4
  <1>10. Cached' = Cached
    <2>1. Cached' \subseteq Cached
      BY <1>2, <1>6 DEF Cached
    <2>2. ASSUME NEW i \in 1..Len(lru) PROVE \E k \in 1..Len(lru) : old[k] = i
      <3>1. CASE i < p
        BY <1>2, <3>1 DEF old, MovedFrom
      <3>2. CASE i = p
        <4>1. Len(lru) \in 1..Len(lru) /\ Len(lru) \in Nat /\ ~(Len(lru) < p)
          BY <1>2
        <4>2. old[Len(lru)] = p
          BY <4>1 DEF old, MovedFrom
        <4> QED
          BY <3>2, <4>1, <4>2
      <3>3. CASE i > p
        <4>1. i - 1 \in 1..Len(lru) /\ ~(i - 1 < p) /\ i - 1 < Len(lru)
          BY <1>2, <3>3
        <4>2. old[i - 1] = MovedFrom(i - 1, p, Len(lru))
          BY <4>1 DEF old
        <4>3. old[i - 1] = i - 1 + 1
          BY <4>1, <4>2 DEF MovedFrom
        <4> QED
          BY <4>1, <4>3
      <3> QED
        BY <1>2, <3>1, <3>2, <3>3
    <2>3. ASSUME NEW i \in 1..Len(lru) PROVE lru[i] \in Cached'
      BY <1>2, <1>6, <2>2 DEF Cached
    <2> QED
      BY <1>2, <2>1, <2>3 DEF Cached
  <1>11. EvictedByCap'
    BY <1>1, <1>2, <1>10 DEF CacheInv, EvictedByCap, Created, Cached
  <1> QED
    BY <1>3, <1>4, <1>5, <1>8, <1>9, <1>11 DEF CacheInv

\* The heart of the matter: what a full cache drops was last asked for before
\* Cap other identities, those that remain and the new one.
LEMMA MissStep ==
    ASSUME CacheInv, NEW g \in Getters, NEW id \in Identities, NEW h \in Hints,
           Lookup(g, id, h), Hits(id, h) = {}
    PROVE  CacheInv'
  <1>1. /\ ident[g] = None /\ g \notin Cached
        /\ \A i \in 1..Len(lru) : ident[lru[i]] # id
        /\ cell' = [cell EXCEPT ![g] = g]
        /\ ident' = [ident EXCEPT ![g] = id]
        /\ others' = [x \in Getters |->
                        IF x = g THEN {}
                        ELSE IF x \in Cached THEN others[x] \cup {id} ELSE others[x]]
        /\ lru' \in Seq(Getters) /\ Len(lru') <= Cap
    BY MissFacts
  <1>2. PICK s \in {0, 1} :
              /\ s = 1 <=> Len(lru) = Cap
              /\ Len(lru') = Len(lru) + 1 - s
              /\ \A i \in 1..(Len(lru) - s) : lru'[i] = lru[i + s]
              /\ lru'[Len(lru')] = g
    BY MissFacts
  <1>3. /\ TypeOK /\ LruDistinct /\ Recency
        /\ Len(lru) \in Nat /\ Len(lru) <= Cap /\ DOMAIN lru = 1..Len(lru)
        /\ DOMAIN lru' = 1..(Len(lru) + 1 - s)
        /\ \A i \in 1..Len(lru) : lru[i] \in Getters /\ lru[i] \in Cached /\ lru[i] # g
    BY <1>1, <1>2 DEF CacheInv, TypeOK, Cached
  <1>4. IdleMadeNothing' /\ CellsKnown' /\ FilledCells' /\ PermitHeld' /\ BuildersHold'
        /\ PeersFit'
    BY <1>1, <1>3, LookupRest DEF TypeOK
  <1>5. OthersFinite' /\ others' \in [Getters -> SUBSET Identities]
    BY <1>1, OthersStep
  <1>6. TypeOK'
    BY <1>1, <1>3, <1>5 DEF TypeOK, Lookup
  <1>7. \A i \in 1..(Len(lru) + 1 - s) :
           \/ i < Len(lru) + 1 - s /\ i + s \in 1..Len(lru) /\ lru'[i] = lru[i + s]
           \/ i = Len(lru) + 1 - s /\ lru'[i] = g
    BY <1>2, <1>3
  <1>8. ident'[g] = id /\ \A i \in 1..Len(lru) : ident'[lru[i]] = ident[lru[i]]
    BY <1>1, <1>3 DEF TypeOK
  <1>9. LruDistinct'
    <2> SUFFICES ASSUME NEW i \in 1..(Len(lru) + 1 - s), NEW j \in 1..(Len(lru) + 1 - s)
                 PROVE  /\ ident'[lru'[i]] \in Identities
                        /\ ident'[lru'[i]] = ident'[lru'[j]] => i = j
      BY <1>3 DEF LruDistinct
    <2>1. CASE lru'[i] = g /\ i = Len(lru) + 1 - s
      BY <1>1, <1>3, <1>7, <1>8, <2>1
    <2>2. CASE i + s \in 1..Len(lru) /\ lru'[i] = lru[i + s]
      <3>1. ident'[lru'[i]] = ident[lru[i + s]] /\ ident[lru[i + s]] \in Identities
        BY <1>3, <1>8, <2>2 DEF LruDistinct
      <3>2. CASE lru'[j] = g
        BY <1>1, <1>8, <2>2, <3>1, <3>2
      <3>3. CASE j + s \in 1..Len(lru) /\ lru'[j] = lru[j + s]
        BY <1>3, <1>8, <2>2, <3>1, <3>3 DEF LruDistinct
      <3> QED
        BY <1>7, <3>1, <3>2, <3>3
    <2> QED
      BY <1>7, <2>1, <2>2
  <1>10. \A i \in 1..Len(lru) : others'[lru[i]] = others[lru[i]] \cup {id}
    BY <1>1, <1>3
  <1>11. Recency'
    <2> SUFFICES ASSUME NEW i \in 1..(Len(lru) + 1 - s), NEW j \in 1..(Len(lru) + 1 - s), i < j
                 PROVE  ident'[lru'[j]] \in others'[lru'[i]]
      BY <1>3 DEF Recency
    <2>1. i + s \in 1..Len(lru) /\ lru'[i] = lru[i + s]
      BY <1>2, <1>3, <1>7
    <2>2. CASE j = Len(lru) + 1 - s
      BY <1>3, <1>7, <1>8, <1>10, <2>1, <2>2
    <2>3. CASE j < Len(lru) + 1 - s
      BY <1>3, <1>7, <1>8, <1>10, <2>1, <2>3 DEF Recency
    <2> QED
      BY <1>3, <2>2, <2>3
  <1>12. ASSUME s = 1 PROVE Cardinality(others'[lru[1]]) >= Cap
    <2> DEFINE f == [i \in 1..Cap |-> IF i < Cap THEN ident[lru[i + 1]] ELSE id]
               T == others'[lru[1]]
    <2>1. Len(lru) = Cap /\ 1 \in 1..Len(lru) /\ Cap \in Nat /\ Cap >= 1
      BY <1>2, <1>12, CacheAssumption
    <2>2. T = others[lru[1]] \cup {id}
      BY <1>10, <2>1
    <2>3. ASSUME NEW i \in 1..Cap PROVE f[i] \in T
      <3>1. CASE i < Cap
        <4>1. i + 1 \in DOMAIN lru /\ 1 \in DOMAIN lru /\ 1 < i + 1
          BY <1>3, <2>1, <3>1
        <4>2. ident[lru[i + 1]] \in others[lru[1]]
          BY <1>3, <4>1 DEF Recency
        <4> QED
          BY <2>2, <3>1, <4>2
      <3>2. CASE i = Cap
        BY <2>1, <2>2, <3>2
      <3> QED
        BY <2>1, <3>1, <3>2
    <2>4. ASSUME NEW i \in 1..Cap, NEW j \in 1..Cap, f[i] = f[j] PROVE i = j
      BY <1>1, <1>3, <2>1, <2>4 DEF LruDistinct
    <2>5. f \in Injection(1..Cap, T)
      BY <2>3, <2>4 DEF Injection, IsInjective
    <2>6. IsFiniteSet(T)
      BY <1>3, <1>5, <2>1 DEF OthersFinite
    <2> HIDE DEF f, T
    <2>7. Cardinality(1..Cap) <= Cardinality(T)
      BY <2>5, <2>6, FS_Injection
    <2>8. Cardinality(1..Cap) = Cap
      BY <2>1, FS_Interval
    <2>9. Cardinality(T) \in Nat
      BY <2>6, FS_CardinalityType
    <2> QED
      BY <2>1, <2>7, <2>8, <2>9 DEF T
  <1>13. \A c \in Getters : c # g /\ c \notin Cached => others'[c] = others[c] /\ ident'[c] = ident[c]
    BY <1>1 DEF TypeOK
  <1>14. EvictedByCap'
    <2> SUFFICES ASSUME NEW c \in Getters, ident'[c] # None, c \notin Cached'
                 PROVE  Cardinality(others'[c]) >= Cap
      BY DEF EvictedByCap, Created
    <2>1. \A i \in 1..(Len(lru) + 1 - s) : lru'[i] # c
      BY <1>3 DEF Cached
    <2>2. c # g
      <3>1. Len(lru) + 1 - s \in 1..(Len(lru) + 1 - s)
        <4>1. Len(lru) + 1 - s \in Int /\ Len(lru) + 1 - s >= 1
          <5>1. CASE s = 0
            BY <1>3, <5>1
          <5>2. CASE s = 1
            BY <1>2, <1>3, <5>2, CacheAssumption
          <5> QED
            BY <5>1, <5>2
        <4> QED
          BY <4>1
      <3> QED
        BY <1>2, <2>1, <3>1
    <2>3. CASE c \in Cached
      <3>1. PICK k \in 1..Len(lru) : lru[k] = c
        BY <1>3, <2>3 DEF Cached
      <3>2. ASSUME NEW i \in 1..(Len(lru) - s) PROVE k # i + s
        <4>1. lru'[i] = lru[i + s]
          BY <1>2
        <4>2. i \in 1..(Len(lru) + 1 - s)
          BY <1>2, <1>3
        <4> QED
          BY <2>1, <3>1, <4>1, <4>2
      <3>3. k = 1 /\ s = 1
        <4>1. ~(k - s \in 1..(Len(lru) - s))
          <5>1. k = (k - s) + s
            BY <1>2, <1>3
          <5> QED
            BY <3>2, <5>1
        <4>2. CASE s = 0
          BY <1>3, <4>1, <4>2
        <4>3. CASE s = 1
          BY <1>3, <4>1, <4>3
        <4> QED
          BY <4>2, <4>3
      <3> QED
        BY <1>12, <3>1, <3>3
    <2>4. CASE c \notin Cached
      BY <1>1, <1>3, <1>13, <2>2, <2>4 DEF CacheInv, EvictedByCap, Created, TypeOK
    <2> QED
      BY <2>3, <2>4
  <1> QED
    BY <1>4, <1>5, <1>6, <1>9, <1>11, <1>14 DEF CacheInv

\* A build starts, fails, is dropped, or a filled cell is shared or let go of.
LEMMA CallerStep ==
    ASSUME CacheInv, NEW g \in Getters,
           StartBuild(g) \/ BuildErr(g) \/ Share(g) \/ Dropped(g) \/ Release(g) \/ Die(g)
    PROVE  CacheInv'
  <1>1. UNCHANGED sameCache /\ UNCHANGED <<ready, filled>> /\ TypeOK
    BY DEF CacheInv, sameCache, StartBuild, BuildErr, Share, Dropped, Release, Die
  <1>2. LruDistinct' /\ Recency' /\ OthersFinite' /\ EvictedByCap'
    BY <1>1, CacheFrame
  <1>3. ASSUME NEW x \in Getters
        PROVE  /\ pc'[x] = "idle" <=> pc[x] = "idle"
               /\ pc'[x] = "have" => pc[x] = "have" \/ ready[cell[x]]
    BY <1>1 DEF TypeOK, StartBuild, BuildErr, Share, Dropped, Release, Die
  <1>4. TypeOK'
    <2>1. CASE StartBuild(g)
      BY <1>1, <2>1 DEF TypeOK, StartBuild
    <2>2. CASE BuildErr(g)
      BY <1>1, <2>2 DEF TypeOK, BuildErr
    <2>3. CASE Share(g)
      BY <1>1, <2>3 DEF CacheInv, CellsKnown, TypeOK, Share
    <2>4. CASE Dropped(g)
      BY <1>1, <2>4 DEF TypeOK, Dropped
    <2>5. CASE Release(g)
      BY <1>1, <2>5 DEF TypeOK, Release
    <2>6. CASE Die(g)
      BY <1>1, <2>6 DEF TypeOK, Die
    <2> QED
      BY <2>1, <2>2, <2>3, <2>4, <2>5, <2>6
  <1>5. IdleMadeNothing' /\ CellsKnown'
    BY <1>1, <1>3 DEF CacheInv, IdleMadeNothing, CellsKnown, sameCache
  <1>6. FilledCells'
    BY <1>1, <1>3 DEF CacheInv, FilledCells, sameCache
  <1>7. PermitHeld'
    <2>1. CASE StartBuild(g)
      BY <1>1, <2>1 DEF CacheInv, CellsKnown, PermitHeld, TypeOK, StartBuild
    <2>2. CASE BuildErr(g)
      BY <1>1, <2>2 DEF CacheInv, PermitHeld, TypeOK, BuildErr
    <2>3. CASE Share(g)
      BY <1>1, <2>3 DEF CacheInv, PermitHeld, TypeOK, Share
    <2>4. CASE Dropped(g)
      BY <1>1, <2>4 DEF CacheInv, PermitHeld, TypeOK, Dropped
    <2>5. CASE Release(g)
      BY <1>1, <2>5 DEF CacheInv, PermitHeld, TypeOK, Release
    <2>6. CASE Die(g)
      BY <1>1, <2>6 DEF CacheInv, PermitHeld, TypeOK, Die
    <2> QED
      BY <2>1, <2>2, <2>3, <2>4, <2>5, <2>6
  <1>8. BuildersHold'
    <2>1. CASE StartBuild(g)
      BY <1>1, <2>1, CacheAssumption DEF CacheInv, CellsKnown, BuildersHold, TypeOK, StartBuild
    <2>2. CASE BuildErr(g)
      BY <1>1, <2>2 DEF CacheInv, BuildersHold, TypeOK, BuildErr
    <2>3. CASE Share(g)
      BY <1>1, <2>3 DEF CacheInv, BuildersHold, TypeOK, Share
    <2>4. CASE Dropped(g)
      BY <1>1, <2>4 DEF CacheInv, BuildersHold, TypeOK, Dropped
    <2>5. CASE Release(g)
      BY <1>1, <2>5 DEF CacheInv, BuildersHold, TypeOK, Release
    <2>6. CASE Die(g)
      BY <1>1, <2>6 DEF CacheInv, BuildersHold, TypeOK, Die
    <2> QED
      BY <2>1, <2>2, <2>3, <2>4, <2>5, <2>6
  <1>9. PeersFit'
    <2>1. CASE Share(g)
      BY <1>1, <2>1 DEF CacheInv, PeersFit, TypeOK, Share
    <2>2. CASE StartBuild(g) \/ BuildErr(g) \/ Dropped(g) \/ Release(g) \/ Die(g)
      BY <1>1, <2>2 DEF CacheInv, PeersFit, TypeOK, StartBuild, BuildErr, Dropped, Release, Die
    <2> QED
      BY <2>1, <2>2
  <1> QED
    BY <1>2, <1>4, <1>5, <1>6, <1>7, <1>8, <1>9 DEF CacheInv

\* A build that goes through preserves the invariant.
LEMMA BuildStep ==
    ASSUME CacheInv, NEW g \in Getters, BuildOk(g)
    PROVE  CacheInv'
  <1>1. /\ UNCHANGED sameCache /\ UNCHANGED dead /\ TypeOK
        /\ pc[g] = "building" /\ pc' = [pc EXCEPT ![g] = "have"]
        /\ ready' = [ready EXCEPT ![cell[g]] = TRUE]
        /\ builder' = [builder EXCEPT ![cell[g]] = None]
        /\ filled' = [filled EXCEPT ![cell[g]] = g]
        /\ peer' = [peer EXCEPT ![g] = g]
    BY DEF CacheInv, BuildOk, sameCache
  <1>2. LruDistinct' /\ Recency' /\ OthersFinite' /\ EvictedByCap'
    BY <1>1, CacheFrame
  <1>3. cell[g] \in Getters /\ ident[cell[g]] = key[g] /\ key[g] \in Identities
    BY <1>1 DEF CacheInv, CellsKnown
  <1>4. TypeOK'
    BY <1>1, <1>3 DEF TypeOK, sameCache
  <1>5. IdleMadeNothing' /\ CellsKnown'
    BY <1>1 DEF CacheInv, IdleMadeNothing, CellsKnown, TypeOK, sameCache
  <1>6. FilledCells'
    BY <1>1, <1>3, CacheAssumption DEF CacheInv, FilledCells, CellsKnown, TypeOK, sameCache
  <1>7. PermitHeld'
    BY <1>1, <1>3 DEF CacheInv, PermitHeld, TypeOK, sameCache
  <1>8. ~ready[cell[g]] /\ \A x \in Getters : pc[x] = "building" /\ cell[x] = cell[g] => x = g
    BY <1>1, <1>3, CacheAssumption DEF CacheInv, BuildersHold, PermitHeld
  <1>9. BuildersHold'
    BY <1>1, <1>3, <1>8 DEF CacheInv, BuildersHold, TypeOK, sameCache
  <1>10. PeersFit'
    <2> SUFFICES ASSUME NEW x \in Getters, pc'[x] = "have"
                 PROVE  peer'[x] = filled'[cell[x]]
      BY <1>1 DEF PeersFit, sameCache
    <2>1. CASE x = g
      BY <1>1, <1>3, <2>1 DEF TypeOK
    <2>2. CASE x # g
      <3>1. pc[x] = "have" /\ ready[cell[x]]
        BY <1>1, <2>2 DEF CacheInv, FilledCells, TypeOK
      <3>2. cell[x] # cell[g]
        BY <1>8, <3>1
      <3> QED
        BY <1>1, <2>2, <3>1, <3>2 DEF CacheInv, PeersFit, TypeOK
    <2> QED
      BY <2>1, <2>2
  <1> QED
    BY <1>2, <1>4, <1>5, <1>6, <1>7, <1>9, <1>10 DEF CacheInv

-----------------------------------------------------------------------------
(* Theorems.                                                               *)

\* transport.rs:81-104.  Every reachable state of the cache satisfies the
\* inductive invariant, whoever looks up, builds, fails or is dropped.
THEOREM Invariance == Spec => []CacheInv
  <1>1. CacheInv /\ [Next]_vars => CacheInv'
    <2> SUFFICES ASSUME CacheInv, [Next]_vars PROVE CacheInv'
      OBVIOUS
    <2>1. ASSUME NEW g \in Getters, NEW id \in Identities, NEW h \in Hints, Lookup(g, id, h)
          PROVE  CacheInv'
      BY <2>1, HitStep, MissStep
    <2>2. ASSUME NEW g \in Getters,
                 StartBuild(g) \/ BuildErr(g) \/ Share(g) \/ Dropped(g) \/ Release(g) \/ Die(g)
          PROVE  CacheInv'
      BY <2>2, CallerStep
    <2>3. ASSUME NEW g \in Getters, BuildOk(g) PROVE CacheInv'
      BY <2>3, BuildStep
    <2>4. CASE UNCHANGED vars
      BY <2>4 DEF vars, CacheInv, TypeOK, IdleMadeNothing, CellsKnown, FilledCells,
                  LruDistinct, Recency, OthersFinite, EvictedByCap, PermitHeld,
                  BuildersHold, PeersFit, Created, Cached
    <2> QED
      BY <2>1, <2>2, <2>3, <2>4 DEF Next
  <1> QED
    BY <1>1, InitInv, PTL DEF Spec

\* transport.rs:59-64, 92-94.  The cache never holds more than Cap entries, and
\* every reachable state is well typed.
THEOREM TypeCorrect == Spec => []TypeOK
  <1>1. CacheInv => TypeOK
    BY DEF CacheInv
  <1> QED
    BY <1>1, Invariance, PTL

\* transport.rs:87-96.  All callers of an identity meet in its one cached cell.
THEOREM OneCellTheorem == Spec => []OneCellPerIdentity
  <1>1. CacheInv => OneCellPerIdentity
    BY DEF CacheInv, OneCellPerIdentity, CellsKnown, LruDistinct, Cached
  <1> QED
    BY <1>1, Invariance, PTL

\* transport.rs:41-48, 92-94.  A transport that somebody uses stops only by
\* itself, or once Cap other identities were asked for since its own was.
THEOREM PeerLostTheorem == Spec => []PeerLostOnlyToCapOthers
  <1>1. CacheInv => PeerLostOnlyToCapOthers
    <2> SUFFICES ASSUME CacheInv, NEW g \in Getters, pc[g] = "have"
                 PROVE  \/ Live(cell[g])
                        \/ ready[cell[g]] /\ dead[cell[g]]
                        \/ Cardinality(others[cell[g]]) >= Cap
      BY DEF PeerLostOnlyToCapOthers
    <2>1. ready[cell[g]] /\ cell[g] \in Getters /\ ident[cell[g]] # None
      BY CacheAssumption DEF CacheInv, FilledCells, CellsKnown
    <2>2. CASE cell[g] \in Cached
      BY <2>1, <2>2 DEF Live, Alive
    <2>3. CASE cell[g] \notin Cached
      BY <2>1, <2>3 DEF CacheInv, EvictedByCap, Created
    <2> QED
      BY <2>2, <2>3
  <1> QED
    BY <1>1, Invariance, PTL

\* transport.rs:46-48, 87-96.  A second cell of an identity means that the
\* first was pushed out by Cap other identities.
THEOREM RebuiltTheorem == Spec => []RebuiltOnlyAfterEviction
  <1>1. CacheInv => RebuiltOnlyAfterEviction
    <2> SUFFICES ASSUME CacheInv, NEW c \in Created, NEW d \in Created,
                        c # d, ident[c] = ident[d]
                 PROVE  \E x \in {c, d} : x \notin Cached /\ Cardinality(others[x]) >= Cap
      BY DEF RebuiltOnlyAfterEviction
    <2>1. c \notin Cached \/ d \notin Cached
      BY DEF CacheInv, LruDistinct, Cached
    <2> QED
      BY <2>1 DEF CacheInv, EvictedByCap
  <1> QED
    BY <1>1, Invariance, PTL

\* transport.rs:33-38, 77-80.  Callers that hold Peers of one identity at the
\* same time share one transport, for any number of callers, failed builds and
\* spellings, unless Cap other identities pushed one out.
THEOREM SharedTheorem == Spec => []OneTransportShared
  <1>1. CacheInv => OneTransportShared
    <2> SUFFICES ASSUME CacheInv, NEW g \in Getters, NEW h \in Getters,
                        pc[g] = "have", pc[h] = "have", key[g] = key[h], peer[g] # peer[h]
                 PROVE  \E x \in {cell[g], cell[h]} :
                            x \notin Cached /\ Cardinality(others[x]) >= Cap
      BY DEF OneTransportShared
    <2>1. cell[g] # cell[h]
      BY DEF CacheInv, PeersFit
    <2>2. cell[g] \in Created /\ cell[h] \in Created /\ ident[cell[g]] = ident[cell[h]]
      BY CacheAssumption DEF CacheInv, CellsKnown, Created
    <2>3. cell[g] \notin Cached \/ cell[h] \notin Cached
      BY <2>1, <2>2 DEF CacheInv, LruDistinct, Cached
    <2> QED
      BY <2>2, <2>3 DEF CacheInv, EvictedByCap
  <1> QED
    BY <1>1, Invariance, PTL

\* transport.rs:97-102.  No failed or dropped build keeps the permit.
THEOREM PermitTheorem == Spec => []PermitHeld
  <1>1. CacheInv => PermitHeld
    BY DEF CacheInv
  <1> QED
    BY <1>1, Invariance, PTL
=============================================================================
