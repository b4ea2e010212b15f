-------------------------- MODULE CollectorProofs ---------------------------
(***************************************************************************)
(* The types of the collector and the safety of its traces, for every set  *)
(* of spans, every cache size and every number of reloads. The first part  *)
(* is about the operations of the trace cache: they keep the types of its  *)
(* variables and the agreement of the ring with the map. The second part   *)
(* proves the inductive invariant Inv, which says where unsent traces are: *)
(* in the cache or in the running loop of sends, never in both before Stop *)
(* purges the cache; and that a trace ID has one unsent trace at most,     *)
(* which the sent cache does not know.                                     *)
(***************************************************************************)
EXTENDS Collector, TLAPS

-----------------------------------------------------------------------------
(* The head and the tail of a sequence.                                    *)
LEMMA HeadTailIs ==
    ASSUME NEW S, NEW s \in Seq(S), s # <<>>
    PROVE  /\ Head(s) \in S /\ Tail(s) \in Seq(S) /\ Len(Tail(s)) = Len(s) - 1
           /\ \A i \in 1 .. Len(Tail(s)) : Tail(s)[i] = s[i + 1]
OBVIOUS

(* A sequence with one more element at its end.                            *)
LEMMA AppendIs ==
    ASSUME NEW S, NEW s \in Seq(S), NEW x \in S
    PROVE  /\ Append(s, x) \in Seq(S) /\ Len(Append(s, x)) = Len(s) + 1
           /\ \A i \in 1 .. Len(s) : Append(s, x)[i] = s[i]
           /\ Append(s, x)[Len(s) + 1] = x
OBVIOUS

(* A part of a sequence.                                                   *)
LEMMA SubSeqIs ==
    ASSUME NEW S, NEW s, NEW m \in Int, NEW n \in Int, \A i \in m .. n : s[i] \in S
    PROVE  /\ SubSeq(s, m, n) \in Seq(S)
           /\ Len(SubSeq(s, m, n)) = IF m <= n THEN n - m + 1 ELSE 0
           /\ \A i \in 1 .. n - m + 1 : SubSeq(s, m, n)[i] = s[m + i - 1]
OBVIOUS

(* A listing of a set of traces is a sequence over it that contains each   *)
(* of them once.                                                           *)
LEMMA ListingsProperties ==
    ASSUME CacheTypeOK, NEW S, NEW f \in Listings(S)
    PROVE  /\ f \in Seq(S) /\ Len(f) \in Nat /\ DOMAIN f = 1 .. Len(f)
           /\ \A i \in 1 .. Len(f) : f[i] \in S
           /\ \A t \in S : \E i \in 1 .. Len(f) : f[i] = t
           /\ \A i, j \in 1 .. Len(f) : f[i] = f[j] => i = j
<1>1. PICK n \in 0 .. capacity :
        /\ f \in [1 .. n -> S]
        /\ \A t \in S : \E i \in 1 .. n : f[i] = t
        /\ \A i, j \in 1 .. n : f[i] = f[j] => i = j
      BY DEF Listings
<1>2. n \in Nat
      BY DEF CacheTypeOK
<1>3. f \in Seq(S) /\ Len(f) = n
      BY <1>1, <1>2
<1> QED
      BY <1>1, <1>2, <1>3

(* A listing of a set has the elements of the set.                         *)
LEMMA ListingElems ==
    ASSUME CacheTypeOK, NEW S, NEW f \in Listings(S)
    PROVE  Elems(f) = S
<1>1. /\ DOMAIN f = 1 .. Len(f)
      /\ \A i \in 1 .. Len(f) : f[i] \in S
      /\ \A t \in S : \E i \in 1 .. Len(f) : f[i] = t
      BY Zenon, ListingsProperties
<1> QED
      BY <1>1 DEF Elems

(* The cached traces are spans, as every trace object is named by one.     *)
LEMMA CachedAreSpans ==
    ASSUME CacheTypeOK
    PROVE  Cached \subseteq Spans
BY DEF CacheTypeOK, Cached, Slots

(* A step that leaves the cache alone leaves what is read off it.          *)
LEMMA CacheUnchanged ==
    ASSUME UNCHANGED cacheVars
    PROVE  Slots' = Slots /\ Cached' = Cached /\ (RingMatchesMap => RingMatchesMap')
<1>1. Slots' = Slots
      BY DEF cacheVars, Slots
<1>2. Cached' = Cached
      BY <1>1 DEF cacheVars, Cached
<1> QED
      BY <1>1, <1>2 DEF cacheVars, RingMatchesMap

(* A trace in the ring is the one the map has for its ID.                  *)
LEMMA CachedAreMapped ==
    ASSUME RingMatchesMap
    PROVE  \A u \in Cached : u # Nil /\ cache[TraceOf[u]] = u
<1>1. ASSUME NEW u \in Cached
      PROVE  \E i \in Slots : insertionOrder[i] = u /\ u # Nil
      BY DEF Cached
<1> QED
      BY <1>1 DEF RingMatchesMap

(* Set keeps the types of the cache.                                       *)
LEMMA SetType ==
    ASSUME CacheTypeOK, NEW t \in Spans, Set(t)
    PROVE  CacheTypeOK'
<1>1. SetPoint \in Slots /\ SetPoint + 1 \in 0 .. capacity
      BY DEF CacheTypeOK, SetPoint, Slots
<1>2. Overwritten \in Spans \cup {Nil}
      BY <1>1 DEF CacheTypeOK, Overwritten
<1> QED
      BY <1>1, <1>2, SpansAssumption DEF CacheTypeOK, Set, Slots

(* TakeExpiredTraces and RemoveTraces keep the types of the cache.         *)
LEMMA TakeType ==
    ASSUME CacheTypeOK, NEW S, Take(S)
    PROVE  CacheTypeOK'
BY DEF CacheTypeOK, Take, Slots

(* A cache rebuilt on reload or memory overrun has the types of a cache.   *)
LEMMA RefillType ==
    ASSUME CacheTypeOK, NEW n \in Nat, NEW kept \in Seq(Spans),
           Len(kept) <= Effective(n), Refill(n, kept)
    PROVE  CacheTypeOK'
<1>1. capacity' \in Nat \ {0} /\ capacity' = Effective(n)
      BY DefaultAssumption DEF Refill, Effective
<1>2. cache' \in [TraceIDs -> Spans \cup {Nil}]
  <2>1. \A id \in TraceIDs : (\E i \in DOMAIN kept : TraceOf[kept[i]] = id) =>
            kept[CHOOSE i \in DOMAIN kept : TraceOf[kept[i]] = id] \in Spans
        OBVIOUS
  <2> QED
        BY <2>1 DEF Refill
<1>3. insertionOrder' \in [0 .. Effective(n) - 1 -> Spans \cup {Nil}]
      BY <1>1 DEF Refill
<1>4. insertPoint' \in 0 .. capacity'
      BY <1>1 DEF Refill
<1> QED
      BY Zenon, <1>1, <1>2, <1>3, <1>4 DEF CacheTypeOK, Slots

-----------------------------------------------------------------------------
(* An empty cache: ring and map agree.                                     *)
LEMMA NewCacheRing ==
    ASSUME NEW n \in Nat, NewInMemCache(n)
    PROVE  CacheTypeOK /\ RingMatchesMap /\ Cached = {}
BY DefaultAssumption DEF NewInMemCache, Effective, CacheTypeOK, RingMatchesMap,
                         Cached, Slots

(* Set, called as processSpan does for an ID that is not in the map, keeps *)
(* ring and map in agreement and replaces the overwritten trace.           *)
LEMMA SetRing ==
    ASSUME CacheTypeOK, RingMatchesMap, NEW t \in Spans,
           cache[TraceOf[t]] = Nil, Set(t)
    PROVE  /\ RingMatchesMap' /\ Overwritten # t
           /\ Cached' = (Cached \ {Overwritten}) \cup {t}
           /\ Overwritten # Nil => Overwritten \in Cached
<1> DEFINE p == SetPoint
           o == Overwritten
<1>1. p \in Slots /\ Slots' = Slots /\ o = insertionOrder[p]
      BY DEF CacheTypeOK, SetPoint, Slots, Set, Overwritten
<1>2. \A i \in Slots : insertionOrder'[i] = IF i = p THEN t ELSE insertionOrder[i]
      BY <1>1 DEF Set, CacheTypeOK
<1>3. t # Nil /\ TraceOf[t] \in TraceIDs
      BY SpansAssumption
<1>4. \A i \in Slots : insertionOrder[i] # Nil =>
         /\ insertionOrder[i] \in Spans
         /\ insertionOrder[i] # t
         /\ TraceOf[insertionOrder[i]] \in TraceIDs
         /\ TraceOf[insertionOrder[i]] # TraceOf[t]
      BY <1>3, SpansAssumption DEF RingMatchesMap, CacheTypeOK
<1>5. \A id \in TraceIDs : cache'[id] = IF o # Nil /\ id = TraceOf[o] THEN Nil
                                        ELSE IF id = TraceOf[t] THEN t
                                        ELSE cache[id]
      BY <1>1, <1>3, <1>4 DEF Set, CacheTypeOK
<1>6. Cached' = (Cached \ {o}) \cup {t}
      BY <1>1, <1>2, <1>3, <1>4 DEF Cached, RingMatchesMap
<1>7. \A i \in Slots : insertionOrder'[i] # Nil =>
         cache'[TraceOf[insertionOrder'[i]]] = insertionOrder'[i]
      BY SMT, Z3, <1>1, <1>2, <1>3, <1>4, <1>5 DEF RingMatchesMap
<1>8. \A i, j \in Slots :
         insertionOrder'[i] = insertionOrder'[j] /\ insertionOrder'[i] # Nil => i = j
      BY <1>1, <1>2, <1>4 DEF RingMatchesMap
<1>9. \A id \in TraceIDs : cache'[id] # Nil =>
         cache'[id] \in Cached' /\ TraceOf[cache'[id]] = id
      BY <1>1, <1>3, <1>5, <1>6 DEF RingMatchesMap
<1> QED
      BY ZenonT(40), SMT, <1>1, <1>4, <1>6, <1>7, <1>8, <1>9 DEF RingMatchesMap, Cached

(* TakeExpiredTraces and RemoveTraces take exactly the given traces.       *)
LEMMA TakeRing ==
    ASSUME CacheTypeOK, RingMatchesMap, NEW S \in SUBSET Cached, Take(S)
    PROVE  RingMatchesMap' /\ Cached' = Cached \ S
<1>1. Slots' = Slots /\ Nil \notin S
      BY DEF Take, Slots, Cached
<1>2. \A i \in Slots : insertionOrder'[i] = IF insertionOrder[i] \in S THEN Nil
                                            ELSE insertionOrder[i]
      BY DEF Take
<1>3. \A id \in TraceIDs : cache'[id] = IF \E t \in S : TraceOf[t] = id THEN Nil
                                        ELSE cache[id]
      BY DEF Take
<1>4. \A i \in Slots : insertionOrder[i] # Nil =>
         TraceOf[insertionOrder[i]] \in TraceIDs
      BY SpansAssumption DEF CacheTypeOK
<1>5. \A t \in S : \E i \in Slots : insertionOrder[i] = t
      BY DEF Cached
<1>6. Cached' = Cached \ S
      BY <1>1, <1>2 DEF Cached
<1>7. \A i \in Slots : insertionOrder'[i] # Nil =>
         cache'[TraceOf[insertionOrder'[i]]] = insertionOrder'[i]
      BY <1>1, <1>2, <1>3, <1>4, <1>5 DEF RingMatchesMap
<1>8. \A id \in TraceIDs : cache'[id] # Nil =>
         cache'[id] \in Cached' /\ TraceOf[cache'[id]] = id
      BY <1>1, <1>3, <1>6 DEF RingMatchesMap
<1> QED
      BY <1>1, <1>2, <1>6, <1>7, <1>8 DEF RingMatchesMap

(* RemoveTraces, given the IDs of the traces S, takes the traces S.        *)
LEMMA RemoveIsTake ==
    ASSUME CacheTypeOK, RingMatchesMap, NEW S \in SUBSET Cached,
           RemoveTraces({TraceOf[t] : t \in S})
    PROVE  Take(S)
<1>1. \A t, u \in Cached : TraceOf[t] = TraceOf[u] => t = u
      BY DEF Cached, RingMatchesMap
<1>2. {t \in Cached : TraceOf[t] \in {TraceOf[u] : u \in S}} = S
      BY <1>1
<1> QED
      BY <1>2 DEF RemoveTraces

(* A cache rebuilt from some of the cached traces holds exactly those.     *)
LEMMA RefillRing ==
    ASSUME CacheTypeOK, RingMatchesMap, NEW n \in Nat, NEW kept \in Seq(Cached),
           Len(kept) <= Effective(n), Refill(n, kept),
           \A i, j \in 1 .. Len(kept) : kept[i] = kept[j] => i = j
    PROVE  /\ CacheTypeOK' /\ RingMatchesMap'
           /\ Cached' = {kept[i] : i \in 1 .. Len(kept)}
<1>1. kept \in Seq(Spans) /\ Len(kept) \in Nat /\ DOMAIN kept = 1 .. Len(kept)
      BY CachedAreSpans
<1>2. CacheTypeOK'
      BY <1>1, RefillType
<1>3. Slots' = 0 .. Effective(n) - 1 /\ Effective(n) \in Nat
      BY DefaultAssumption DEF Refill, Slots, Effective
<1>4. \A i \in Slots' : insertionOrder'[i] = IF i < Len(kept) THEN kept[i + 1] ELSE Nil
      BY <1>3 DEF Refill
<1>5. \A i \in 1 .. Len(kept) : kept[i] # Nil /\ kept[i] \in Cached /\ kept[i] \in Spans
      BY <1>1 DEF Cached
<1>6. \A i \in 1 .. Len(kept) : i - 1 \in Slots' /\ insertionOrder'[i - 1] = kept[i]
      BY <1>1, <1>3, <1>4
<1>7. Cached' = {kept[i] : i \in 1 .. Len(kept)}
  <2>1. ASSUME NEW x \in Cached'
        PROVE  \E i \in 1 .. Len(kept) : kept[i] = x
    <3>1. PICK i \in Slots' : insertionOrder'[i] = x /\ x # Nil
          BY <2>1 DEF Cached
    <3>2. i < Len(kept) /\ x = kept[i + 1] /\ i + 1 \in 1 .. Len(kept)
          BY <1>1, <1>3, <1>4, <3>1
    <3> QED
          BY <3>2
  <2>2. ASSUME NEW i \in 1 .. Len(kept)
        PROVE  kept[i] \in Cached'
        BY <1>5, <1>6 DEF Cached
  <2> QED
        BY <2>1, <2>2
<1>8. \A t, u \in Cached : TraceOf[t] = TraceOf[u] => t = u
      BY DEF Cached, RingMatchesMap
<1>9. \A i \in 1 .. Len(kept) : /\ TraceOf[kept[i]] \in TraceIDs
                                /\ cache'[TraceOf[kept[i]]] = kept[i]
  <2> TAKE i \in 1 .. Len(kept)
  <2> DEFINE id == TraceOf[kept[i]]
             j == CHOOSE k \in DOMAIN kept : TraceOf[kept[k]] = id
  <2>1. id \in TraceIDs
        BY <1>5, SpansAssumption
  <2>2. j \in 1 .. Len(kept) /\ TraceOf[kept[j]] = id
        BY <1>1
  <2>3. kept[j] = kept[i]
        BY <1>5, <1>8, <2>2
  <2>4. cache'[id] = kept[j]
        BY Zenon, <1>1, <2>1 DEF Refill
  <2> QED
        BY <2>1, <2>3, <2>4
<1>10. \A id \in TraceIDs : cache'[id] # Nil =>
          cache'[id] \in Cached' /\ TraceOf[cache'[id]] = id
  <2> TAKE id \in TraceIDs
  <2> HAVE cache'[id] # Nil
  <2>1. PICK i \in 1 .. Len(kept) : TraceOf[kept[i]] = id
        BY <1>1 DEF Refill
  <2> QED
        BY <1>7, <1>9, <2>1
<1>11. \A i \in Slots' : insertionOrder'[i] # Nil =>
          i + 1 \in 1 .. Len(kept) /\ insertionOrder'[i] = kept[i + 1]
      BY <1>1, <1>3, <1>4
<1>12. \A i \in Slots' : insertionOrder'[i] # Nil =>
          cache'[TraceOf[insertionOrder'[i]]] = insertionOrder'[i]
      BY <1>9, <1>11
<1>13. \A i, j \in Slots' :
          insertionOrder'[i] = insertionOrder'[j] /\ insertionOrder'[i] # Nil => i = j
      BY <1>3, <1>11
<1> QED
      BY <1>2, <1>7, <1>10, <1>12, <1>13 DEF RingMatchesMap

-----------------------------------------------------------------------------
(* Recording a decision, renewing one and resizing the sent cache keep its *)
(* types.                                                                  *)
LEMMA UseType ==
    ASSUME SentTypeOK, NEW id \in TraceIDs, NEW keep \in BOOLEAN
    PROVE  /\ DOMAIN Use(id, keep) \subseteq DOMAIN lru \cup {id}
           /\ \A j \in DOMAIN Use(id, keep) :
                 Use(id, keep)[j] \in [keep : BOOLEAN, rank : Nat]
<1>1. \A j \in DOMAIN lru \cup {id} : Rank(id, j) \in Nat
      BY DEF SentTypeOK, Rank
<1>2. \A j \in DOMAIN lru : lru[j].keep \in BOOLEAN
      BY DEF SentTypeOK
<1> QED
      BY <1>1, <1>2 DEF Use

(* Recording a decision keeps the types and adds one trace ID at most.     *)
LEMMA RecordType ==
    ASSUME SentTypeOK, NEW id \in TraceIDs, NEW keep \in BOOLEAN, Record(id, keep)
    PROVE  SentTypeOK' /\ DOMAIN lru' \subseteq DOMAIN lru \cup {id}
BY UseType DEF SentTypeOK, Record

(* A hit in the sent cache keeps the types and adds no trace ID.           *)
LEMMA CheckHitType ==
    ASSUME SentTypeOK, NEW id \in TraceIDs, Found(id), CheckHit(id)
    PROVE  SentTypeOK' /\ DOMAIN lru' \subseteq DOMAIN lru
<1>1. lru[id].keep \in BOOLEAN /\ id \in DOMAIN lru
      BY DEF SentTypeOK, Found
<1> QED
      BY <1>1, UseType DEF SentTypeOK, CheckHit

(* Resizing the sent cache keeps the types and adds no trace ID.           *)
LEMMA ResizeType ==
    ASSUME SentTypeOK, NEW n \in Nat, Resize(n)
    PROVE  SentTypeOK' /\ DOMAIN lru' \subseteq DOMAIN lru
BY DEF SentTypeOK, Resize

(* Handing spans on keeps the types of the span sets.                      *)
SpanTypeOK ==
    /\ fresh \subseteq Spans /\ refused \subseteq Spans
    /\ delivered \in [Spans -> Nat]
    /\ discarded \subseteq Spans

(* Settling the spans of a trace, delivered or discarded, keeps the types. *)
LEMMA SettleType ==
    ASSUME SpanTypeOK, NEW S \in SUBSET Spans, NEW b \in BOOLEAN, Settle(S, b)
    PROVE  SpanTypeOK'
BY DEF SpanTypeOK, Settle

(* The state after Start has its type.                                     *)
LEMMA TypeInit ==
    ASSUME Init
    PROVE  TypeOK
<1>1. CacheTypeOK
      BY NewCacheRing, CollectorAssumption DEF Init, Config
<1>2. SentTypeOK
      BY SentCacheAssumption DEF Init, NewSentCache, SentTypeOK
<1>3. trace \in [Spans -> TraceType]
      BY DEF Init, NoTrace, TraceType
<1>4. conf \in Config /\ version \in Nat
      BY CollectorAssumption DEF Init
<1>5. /\ incoming \in Seq(Spans) /\ fromPeer \in Seq(Spans) /\ toSend \in Seq(Spans)
      /\ delivered \in [Spans -> Nat]
      BY DEF Init
<1> QED
      BY Zenon, <1>1, <1>2, <1>3, <1>4, <1>5 DEF Init, TypeOK

(* A span taken from a channel keeps the types, whichever way processSpan  *)
(* goes.                                                                   *)
LEMMA TypeProcessSpan ==
    ASSUME TypeOK, NEW sp \in Spans, LateSpan(sp) \/ NewTrace(sp) \/ JoinTrace(sp)
    PROVE  /\ CacheTypeOK' /\ SentTypeOK' /\ SpanTypeOK'
           /\ trace' \in [Spans -> TraceType] /\ toSend' \in Seq(Spans)
<1> USE DEF TraceType
<1>1. /\ CacheTypeOK /\ SentTypeOK /\ SpanTypeOK
      /\ trace \in [Spans -> TraceType] /\ toSend \in Seq(Spans)
      /\ TraceOf[sp] \in TraceIDs
      BY SpansAssumption DEF TypeOK, SpanTypeOK
<1>2. CASE LateSpan(sp)
  <2>1. SentTypeOK'
        BY ZenonT(40), SMT, <1>1, <1>2, CheckHitType DEF LateSpan
  <2>2. lru[TraceOf[sp]].keep \in BOOLEAN
        BY <1>1, <1>2 DEF LateSpan, Found, SentTypeOK
  <2>3. SpanTypeOK'
        BY Zenon, <1>1, <1>2, <2>2, SettleType
        DEF LateSpan, dealWithSentTrace
  <2> QED
        BY Zenon, <1>1, <1>2, <2>1, <2>3 DEF LateSpan, cacheVars, CacheTypeOK, Slots
<1>3. CASE NewTrace(sp)
  <2>1. CacheTypeOK'
        BY Zenon, <1>1, <1>3, SetType DEF NewTrace
  <2>2. Overwritten \in Spans \cup {Nil}
        BY SMT, Z3, <1>1 DEF CacheTypeOK, Overwritten, SetPoint, Slots
  <2>3. toSend' \in Seq(Spans)
        BY <1>3, <2>2 DEF NewTrace
  <2>4. trace' \in [Spans -> TraceType]
    <3> DEFINE made == [spans |-> {sp}, root |-> sp \in Roots,
                        ttl |-> IF sp \in Roots THEN SendDelay ELSE TraceTimeout,
                        sent |-> FALSE, keep |-> FALSE]
    <3>1. made \in TraceType
          BY SMT, Z3, CollectorAssumption
    <3>2. trace' = [trace EXCEPT ![sp] = made]
          BY Zenon, <1>3 DEF NewTrace
    <3> HIDE DEF made
    <3> QED
          BY ZenonT(40), SMT, <1>1, <3>1, <3>2
  <2> QED
        BY Zenon, <1>1, <1>3, <2>1, <2>3, <2>4
        DEF NewTrace, sentVars, SentTypeOK, spanVars, SpanTypeOK
<1>4. CASE JoinTrace(sp)
  <2> DEFINE t == cache[TraceOf[sp]]
  <2>1. t \in Spans
        BY Zenon, <1>1, <1>4 DEF JoinTrace, CacheTypeOK
  <2>2. trace' \in [Spans -> TraceType]
    <3> DEFINE joined == [spans |-> trace[t].spans \cup {sp},
                          root |-> trace[t].root \/ sp \in Roots,
                          ttl |-> IF sp \in Roots THEN SendDelay ELSE trace[t].ttl,
                          sent |-> trace[t].sent, keep |-> trace[t].keep]
    <3>1. joined \in TraceType
          BY SMT, Z3, <1>1, <2>1, CollectorAssumption DEF TraceType
    <3>2. trace' = [trace EXCEPT ![t] = joined]
          BY <1>4 DEF JoinTrace
    <3> HIDE DEF joined
    <3> QED
          BY ZenonT(40), SMT, <1>1, <3>1, <3>2
  <2>3. trace[t].keep \in BOOLEAN
        BY <1>1, <2>1
  <2>4. SpanTypeOK'
    <3>1. CASE trace[t].sent
          BY ZenonT(40), SMT, <1>1, <1>4, <2>3, <3>1, SettleType
          DEF JoinTrace, dealWithSentTrace
    <3>2. CASE ~trace[t].sent
          BY Zenon, <1>1, <1>4, <3>2 DEF JoinTrace, spanVars, SpanTypeOK
    <3> QED
          BY <3>1, <3>2
  <2> QED
        BY Zenon, <1>1, <1>4, <2>2, <2>4
        DEF JoinTrace, cacheVars, sentVars, CacheTypeOK, SentTypeOK, Slots
<1> QED
      BY <1>2, <1>3, <1>4

(* The sequences that the loops of send calls run over.                    *)
LEMMA RingOrderSeq ==
    ASSUME CacheTypeOK, NEW S \in SUBSET Cached, NEW f \in InRingOrder(S)
    PROVE  f \in Listings(S) /\ f \in Seq(Spans)
<1>1. f \in Listings(S)
      BY DEF InRingOrder
<1> QED
      BY <1>1, ListingsProperties, CachedAreSpans

(* The traces in the order of their deadlines are a sequence of the cached *)
(* trace objects.                                                          *)
LEMMA BySendBySeq ==
    ASSUME CacheTypeOK, NEW f \in BySendBy(Cached)
    PROVE  f \in Listings(Cached) /\ f \in Seq(Spans)
<1>1. f \in Listings(Cached)
      BY DEF BySendBy
<1> QED
      BY <1>1, ListingsProperties, CachedAreSpans

(* A listing of the cache, cut in two after its first k traces.            *)
LEMMA CutListing ==
    ASSUME CacheTypeOK, NEW f \in Listings(Cached), NEW k \in 0 .. Len(f)
    PROVE  /\ SubSeq(f, 1, k) \in Seq(Cached) /\ Len(SubSeq(f, 1, k)) = k
           /\ \A i \in 1 .. k : SubSeq(f, 1, k)[i] = f[i]
           /\ SubSeq(f, k + 1, Len(f)) \in Seq(Cached)
           /\ Len(SubSeq(f, k + 1, Len(f))) = Len(f) - k
           /\ \A i \in 1 .. Len(f) - k : SubSeq(f, k + 1, Len(f))[i] = f[k + i]
<1>1. Len(f) \in Nat /\ \A i \in 1 .. Len(f) : f[i] \in Cached
      BY ListingsProperties
<1>2. k \in Nat /\ k <= Len(f)
      BY <1>1
<1>3. \A i \in 1 .. k : f[i] \in Cached
      BY <1>1, <1>2
<1>4. \A i \in k + 1 .. Len(f) : f[i] \in Cached
      BY <1>1, <1>2
<1>5. /\ SubSeq(f, 1, k) \in Seq(Cached)
      /\ Len(SubSeq(f, 1, k)) = IF 1 <= k THEN k - 1 + 1 ELSE 0
      /\ \A i \in 1 .. k - 1 + 1 : SubSeq(f, 1, k)[i] = f[1 + i - 1]
      BY <1>2, <1>3, SubSeqIs
<1>6. /\ SubSeq(f, k + 1, Len(f)) \in Seq(Cached)
      /\ Len(SubSeq(f, k + 1, Len(f))) =
            IF k + 1 <= Len(f) THEN Len(f) - (k + 1) + 1 ELSE 0
      /\ \A i \in 1 .. Len(f) - (k + 1) + 1 :
            SubSeq(f, k + 1, Len(f))[i] = f[(k + 1) + i - 1]
      BY <1>1, <1>2, <1>4, SubSeqIs
<1> QED
      BY <1>1, <1>2, <1>5, <1>6

(* Memory overrun keeps the types of the cache and of the loop of sends.   *)
LEMMA TypeCheckAlloc ==
    ASSUME TypeOK, CheckAlloc
    PROVE  CacheTypeOK' /\ toSend' \in Seq(Spans)
<1>1. CacheTypeOK /\ toSend \in Seq(Spans)
      BY DEF TypeOK
<1>2. CASE UNCHANGED <<cacheVars, toSend>>
      BY <1>1, <1>2 DEF cacheVars, CacheTypeOK, Slots
<1>3. CASE oldCheckAlloc
  <2>1. PICK f \in BySendBy(Cached) :
          LET n == Len(f)
              newCap == (9 * n) \div 10
          IN  /\ toSend' = SubSeq(f, 1, n - newCap)
              /\ Refill(newCap, SubSeq(f, n - newCap + 1, n))
        BY <1>3 DEF oldCheckAlloc
  <2> DEFINE n == Len(f)
             newCap == (9 * n) \div 10
             kept == SubSeq(f, n - newCap + 1, n)
  <2>2. f \in Listings(Cached) /\ n \in Nat
        BY <1>1, BySendBySeq, ListingsProperties
  <2>3. newCap \in Nat /\ newCap <= n /\ n - newCap \in 0 .. n
        BY <2>2
  <2>a. toSend' = SubSeq(f, 1, n - newCap)
        BY <2>1
  <2> HIDE DEF newCap
  <2>4. kept \in Seq(Cached) /\ Len(kept) = newCap /\ toSend' \in Seq(Cached)
    <3> DEFINE k == n - newCap
    <3>1. k \in 0 .. Len(f) /\ Len(f) - k = newCap
          BY <2>2, <2>3
    <3> HIDE DEF k
    <3>2. /\ SubSeq(f, 1, k) \in Seq(Cached)
          /\ SubSeq(f, k + 1, Len(f)) \in Seq(Cached)
          /\ Len(SubSeq(f, k + 1, Len(f))) = Len(f) - k
          BY <1>1, <2>2, <3>1, CutListing
    <3> QED
          BY <2>a, <3>1, <3>2 DEF k
  <2>5. kept \in Seq(Spans) /\ toSend' \in Seq(Spans)
        BY <1>1, <2>4, CachedAreSpans
  <2>6. Len(kept) <= Effective(newCap)
        BY <2>3, <2>4, DefaultAssumption DEF Effective
  <2>7. Refill(newCap, kept)
        BY <2>1 DEF newCap
  <2> QED
        BY Zenon, <1>1, <2>3, <2>5, <2>6, <2>7, RefillType
<1>4. CASE newCheckAlloc
  <2>1. PICK S \in SUBSET Cached :
          toSend' \in Listings(S) /\ RemoveTraces({TraceOf[t] : t \in S})
        BY Zenon, <1>4 DEF newCheckAlloc
  <2>2. toSend' \in Seq(Spans)
        BY <1>1, <2>1, ListingsProperties, CachedAreSpans
  <2>3. CacheTypeOK'
        BY <1>1, <2>1, TakeType DEF RemoveTraces
  <2> QED
        BY <2>2, <2>3
<1> QED
      BY <1>2, <1>3, <1>4 DEF CheckAlloc

(* reloadConfigs keeps the types of the cache and of the loop of sends.    *)
LEMMA TypeReload ==
    ASSUME TypeOK, reloadConfigs
    PROVE  CacheTypeOK' /\ toSend' \in Seq(Spans)
<1>1. CacheTypeOK /\ toSend \in Seq(Spans) /\ conf.capacity \in Nat
      BY DEF TypeOK, Config
<1>2. CASE conf.capacity = capacity
      BY <1>1, <1>2 DEF reloadConfigs, cacheVars, CacheTypeOK, Slots
<1>3. CASE conf.capacity # capacity
  <2>1. PICK f \in InRingOrder(Cached) :
          LET fit == IF Len(f) < conf.capacity THEN Len(f) ELSE conf.capacity
          IN  /\ Refill(conf.capacity, SubSeq(f, 1, fit))
              /\ toSend' = SubSeq(f, fit + 1, Len(f))
        BY <1>3 DEF reloadConfigs, RestAfter
  <2> DEFINE fit == IF Len(f) < conf.capacity THEN Len(f) ELSE conf.capacity
             kept == SubSeq(f, 1, fit)
  <2>2. f \in Listings(Cached) /\ Len(f) \in Nat
        BY <1>1, RingOrderSeq, ListingsProperties
  <2>3. fit \in 0 .. Len(f) /\ fit <= conf.capacity
        BY SMT, Z3, <1>1, <2>2
  <2> HIDE DEF fit
  <2>4. kept \in Seq(Cached) /\ Len(kept) = fit /\ toSend' \in Seq(Cached)
        BY Zenon, <1>1, <2>1, <2>2, <2>3, CutListing DEF fit
  <2>5. kept \in Seq(Spans) /\ toSend' \in Seq(Spans)
        BY <1>1, <2>4, CachedAreSpans
  <2>6. Len(kept) <= Effective(conf.capacity)
        BY <1>1, <2>3, <2>4, DefaultAssumption DEF Effective
  <2>7. Refill(conf.capacity, kept)
        BY <2>1 DEF fit
  <2> QED
        BY Zenon, <1>1, <2>5, <2>6, <2>7, RefillType
<1> QED
      BY <1>2, <1>3

(* Sending the next trace of the loop keeps the types.                     *)
LEMMA TypeSend ==
    ASSUME TypeOK, send
    PROVE  TypeOK'
<1> DEFINE t == Head(toSend)
<1>1. t \in Spans /\ Tail(toSend) \in Seq(Spans) /\ TraceOf[t] \in TraceIDs
      BY SMT, Z3, SpansAssumption DEF TypeOK, send
<1>2. CASE UNCHANGED <<trace, samplers, sentVars, spanVars>>
      BY ZenonT(40), SMT, <1>1, <1>2 DEF TypeOK, send, sentVars, spanVars, chanVars, cacheVars,
                        SentTypeOK, CacheTypeOK, Slots
<1>3. ASSUME NEW keep \in BOOLEAN, Decide(t, keep)
      PROVE  TypeOK'
  <2>1. SentTypeOK'
        BY <1>1, <1>3, RecordType DEF TypeOK, Decide
  <2>2. trace[t] \in TraceType
        BY Zenon, <1>1 DEF TypeOK
  <2>3. trace' \in [Spans -> TraceType]
        BY Zenon, <1>1, <1>3, <2>2 DEF TypeOK, Decide, TraceType
  <2>4. SpanTypeOK'
    <3>1. trace[t].spans \in SUBSET Spans
          BY <2>2 DEF TraceType
    <3>2. SpanTypeOK
          BY ZenonT(40), SMT DEF TypeOK, SpanTypeOK
    <3> QED
          BY Zenon, <1>3, <3>1, <3>2, SettleType DEF Decide
  <2>5. /\ DOMAIN samplers' \subseteq SamplerKeys
        /\ \A k \in DOMAIN samplers' : samplers'[k] \in Nat
    <3>1. SamplerKeyOf[TraceOf[t]] \in SamplerKeys /\ version \in Nat
          BY <1>1, CollectorAssumption DEF TypeOK
    <3> QED
          BY <1>3, <3>1 DEF TypeOK, Decide
  <2> QED
        BY ZenonT(40), SMT, <1>1, <2>1, <2>3, <2>4, <2>5
        DEF TypeOK, SpanTypeOK, send, chanVars, cacheVars, CacheTypeOK, Slots
<1> QED
      BY <1>2, <1>3 DEF send

(* Every step keeps the types.                                             *)
LEMMA TypeNext ==
    ASSUME TypeOK, [Next]_vars
    PROVE  TypeOK'
<1> USE DEF spanVars, chanVars, confVars, cacheVars, sentVars
<1>0. CacheTypeOK /\ SentTypeOK /\ SpanTypeOK
      BY DEF TypeOK, SpanTypeOK
<1>1. CASE AddSpan
  <2>1. PICK s \in fresh : add(s, incoming) /\ UNCHANGED fromPeer
        BY <1>1 DEF AddSpan
  <2>2. s \in Spans /\ Append(incoming, s) \in Seq(Spans)
        BY <2>1 DEF TypeOK
  <2> QED
        BY Zenon, <2>1, <2>2 DEF TypeOK, add, CacheTypeOK, SentTypeOK, Slots
<1>2. CASE AddSpanFromPeer
  <2>1. PICK s \in fresh : add(s, fromPeer) /\ UNCHANGED incoming
        BY <1>2 DEF AddSpanFromPeer
  <2>2. s \in Spans /\ Append(fromPeer, s) \in Seq(Spans)
        BY SMT, Z3, <2>1 DEF TypeOK
  <2> QED
        BY ZenonT(40), SMT, <2>1, <2>2 DEF TypeOK, add, CacheTypeOK, SentTypeOK, Slots
<1>3. CASE Elapse
  <2>1. \A t \in Spans : trace[t] \in TraceType /\ Aged(t) \in TraceType
        BY DEF TypeOK, TraceType, Aged
  <2>2. trace' \in [Spans -> TraceType]
        BY Zenon, <1>3, <2>1 DEF Elapse
  <2> QED
        BY ZenonT(40), SMT, <1>3, <2>2 DEF TypeOK, Elapse, CacheTypeOK, SentTypeOK, Slots
<1>4. CASE ChangeConfig
  <2>1. conf' \in Config /\ version' \in Nat
        BY <1>4, CollectorAssumption DEF TypeOK, ChangeConfig
  <2> QED
        BY ZenonT(40), SMT, <1>4, <2>1 DEF TypeOK, ChangeConfig, CacheTypeOK, SentTypeOK, Slots
<1>5. CASE sendReloadSignal
      BY Zenon, <1>5 DEF TypeOK, sendReloadSignal, CacheTypeOK, SentTypeOK, Slots
<1>6. CASE CycleFilter
      BY ZenonT(40), SMT, <1>6 DEF TypeOK, CycleFilter, Cycle, CacheTypeOK, SentTypeOK, Slots
<1>7. CASE send
      BY <1>7, TypeSend
<1>8. CASE FromPeer
  <2>1. Head(fromPeer) \in Spans /\ Tail(fromPeer) \in Seq(Spans)
        BY <1>8 DEF TypeOK, FromPeer
  <2>2. /\ CacheTypeOK' /\ SentTypeOK' /\ SpanTypeOK'
        /\ trace' \in [Spans -> TraceType] /\ toSend' \in Seq(Spans)
        BY Zenon, <1>8, <2>1, TypeProcessSpan DEF FromPeer, processSpan
  <2> QED
        BY Zenon, <1>8, <2>1, <2>2 DEF TypeOK, SpanTypeOK, FromPeer, processSpan
<1>9. CASE NoPeerSpan
      BY ZenonT(40), SMT, <1>9 DEF TypeOK, NoPeerSpan, CacheTypeOK, SentTypeOK, Slots
<1>10. CASE FromIncoming
  <2>1. Head(incoming) \in Spans /\ Tail(incoming) \in Seq(Spans)
        BY <1>10 DEF TypeOK, FromIncoming
  <2>2. /\ CacheTypeOK' /\ SentTypeOK' /\ SpanTypeOK'
        /\ trace' \in [Spans -> TraceType] /\ toSend' \in Seq(Spans)
        BY Zenon, <1>10, <2>1, TypeProcessSpan DEF FromIncoming, processSpan
  <2> QED
        BY Zenon, <1>10, <2>1, <2>2 DEF TypeOK, SpanTypeOK, FromIncoming, processSpan
<1>11. CASE IncomingClosed
      BY Zenon, <1>11 DEF TypeOK, IncomingClosed, CacheTypeOK, SentTypeOK, Slots
<1>12. CASE Tick
  <2>1. toSend' \in Seq(Spans)
        BY <1>0, <1>12, RingOrderSeq DEF Tick, Expired
  <2>2. CacheTypeOK'
        BY ZenonT(40), SMT, <1>0, <1>12, TakeType DEF Tick
  <2> QED
        BY ZenonT(40), SMT, <1>12, <2>1, <2>2 DEF TypeOK, Tick, SentTypeOK
<1>13. CASE CheckAlloc
  <2>1. CacheTypeOK' /\ toSend' \in Seq(Spans)
        BY ZenonT(40), SMT, <1>13, TypeCheckAlloc
  <2> QED
        BY <1>13, <2>1 DEF TypeOK, CheckAlloc, SentTypeOK
<1>14. CASE Relock
      BY <1>14 DEF TypeOK, Relock, CacheTypeOK, SentTypeOK, Slots
<1>15. CASE reloadConfigs
  <2>1. CacheTypeOK' /\ toSend' \in Seq(Spans)
        BY Zenon, <1>15, TypeReload
  <2> QED
        BY ZenonT(40), SMT, <1>15, <2>1 DEF TypeOK, reloadConfigs, SentTypeOK
<1>16. CASE EndReload
  <2>1. SentTypeOK'
        BY Zenon, <1>0, <1>16, ResizeType DEF TypeOK, Config, EndReload
  <2> QED
        BY <1>16, <2>1 DEF TypeOK, EndReload, CacheTypeOK, Slots
<1>17. CASE Stop
      BY Zenon, <1>17 DEF TypeOK, Stop, CacheTypeOK, SentTypeOK, Slots
<1>18. CASE Purge
  <2>1. toSend' \in Seq(Spans)
        BY Zenon, <1>0, <1>18, RingOrderSeq DEF Purge
  <2> QED
        BY Zenon, <1>18, <2>1 DEF TypeOK, Purge, CacheTypeOK, SentTypeOK, Slots
<1>19. CASE EndStop
      BY Zenon, <1>19 DEF TypeOK, EndStop, CacheTypeOK, SentTypeOK, Slots
<1>20. CASE UNCHANGED vars
      BY ZenonT(40), SMT, <1>20 DEF TypeOK, vars, CacheTypeOK, SentTypeOK, Slots
<1> QED
      BY ZenonT(40), SMT, <1>1, <1>2, <1>3, <1>4, <1>5, <1>6, <1>7, <1>8, <1>9, <1>10, <1>11, <1>12,
         <1>13, <1>14, <1>15, <1>16, <1>17, <1>18, <1>19, <1>20 DEF Next

(* Every variable of the collector keeps its type.                         *)
THEOREM TypeCorrect == Spec => []TypeOK
<1>1. Init => TypeOK
      BY TypeInit
<1>2. TypeOK /\ [Next]_vars => TypeOK'
      BY TypeNext
<1> QED
      BY <1>1, <1>2, PTL DEF Spec

-----------------------------------------------------------------------------
(* The invariant, without the types.                                       *)
Idle == pc = "select" => toSend = <<>>

Allocated == \A t \in Cached \cup Elems(toSend) : trace[t].spans # {}

Apart == stopPc \in {"running", "locking"} => Elems(toSend) \cap Cached = {}

OneTrace == \A t, u \in Pending : TraceOf[t] = TraceOf[u] => t = u

LegacyOneVerdict == SentCacheType = "legacy" => OneVerdict

Safe == /\ RingMatchesMap /\ NothingStranded /\ OnlyUnsentCached
        /\ Idle /\ Allocated /\ Apart /\ OneTrace /\ LegacyOneVerdict

Inv == TypeOK /\ Safe

-----------------------------------------------------------------------------
(* The running loop of sends holds trace objects made for spans.           *)
LEMMA SendingSpans ==
    ASSUME TypeOK
    PROVE  Elems(toSend) \subseteq Spans
BY SMT, Z3 DEF TypeOK, Elems

(* Start leaves nothing cached, sending or decided, so Safe holds.         *)
LEMMA SafeInit ==
    ASSUME Init
    PROVE  Safe
<1>1. RingMatchesMap /\ Cached = {}
      BY Zenon, NewCacheRing, CollectorAssumption DEF Init, Config
<1>2. Pending = {}
      BY DEF Init, Pending, NoTrace
<1>3. Elems(toSend) = {}
      BY SMT, Z3 DEF Init, Elems
<1> QED
      BY <1>1, <1>2, <1>3
      DEF Safe, NothingStranded, OnlyUnsentCached, Idle, Allocated, Apart,
          OneTrace, LegacyOneVerdict, OneVerdict, Init

(* Steps that leave the traces, the cache and the loop of sends alone.     *)
LEMMA QuietStep ==
    ASSUME Inv, UNCHANGED <<cacheVars, trace, toSend>>,
           DOMAIN lru' \subseteq DOMAIN lru,
           pc' = "select" => toSend = <<>>,
           stopPc' \in {"running", "locking"} => stopPc \in {"running", "locking"}
    PROVE  Safe'
<1>1. /\ Slots' = Slots /\ Cached' = Cached /\ Pending' = Pending
      /\ Elems(toSend)' = Elems(toSend)
      BY Zenon DEF cacheVars, Slots, Cached, Pending, Elems
<1>2. RingMatchesMap'
      BY ZenonT(40), SMT, <1>1 DEF Inv, Safe, RingMatchesMap, cacheVars
<1>3. NothingStranded' /\ OnlyUnsentCached' /\ Allocated' /\ Apart' /\ OneTrace'
      BY <1>1 DEF Inv, Safe, NothingStranded, OnlyUnsentCached, Allocated, Apart,
                  OneTrace
<1>4. LegacyOneVerdict'
      BY <1>1 DEF Inv, Safe, LegacyOneVerdict, OneVerdict
<1> QED
      BY <1>2, <1>3, <1>4 DEF Safe, Idle

(* Steps that move traces from the cache to the loop of sends: the ticker, *)
(* memory overrun and reload.                                              *)
LEMMA MovingStep ==
    ASSUME Inv, toSend = <<>>, UNCHANGED <<trace, lru, stopPc>>, pc' # "select",
           RingMatchesMap',
           Cached' \cup Elems(toSend') = Cached, Cached' \cap Elems(toSend') = {}
    PROVE  Safe'
<1>1. Pending' = Pending /\ Elems(toSend) = {} /\ Elems(toSend)' = Elems(toSend')
      BY SMT, Z3 DEF Pending, Elems
<1>2. NothingStranded' /\ OnlyUnsentCached' /\ Allocated' /\ Apart' /\ OneTrace'
      BY <1>1 DEF Inv, Safe, NothingStranded, OnlyUnsentCached, Allocated, Apart,
                  OneTrace
<1>3. LegacyOneVerdict'
      BY <1>1 DEF Inv, Safe, LegacyOneVerdict, OneVerdict
<1> QED
      BY Zenon, <1>2, <1>3 DEF Safe, Idle

(* The two parts of a cut listing share the cached traces.                 *)
LEMMA CutCached ==
    ASSUME CacheTypeOK, NEW f \in Listings(Cached), NEW k \in 0 .. Len(f)
    PROVE  LET a == SubSeq(f, 1, k)
               b == SubSeq(f, k + 1, Len(f))
           IN  /\ Elems(a) \cup Elems(b) = Cached /\ Elems(a) \cap Elems(b) = {}
               /\ Elems(a) = {a[i] : i \in 1 .. Len(a)}
               /\ Elems(b) = {b[i] : i \in 1 .. Len(b)}
               /\ \A i, j \in 1 .. Len(a) : a[i] = a[j] => i = j
               /\ \A i, j \in 1 .. Len(b) : b[i] = b[j] => i = j
<1> DEFINE a == SubSeq(f, 1, k)
           b == SubSeq(f, k + 1, Len(f))
<1>1. /\ Len(f) \in Nat /\ k \in Nat /\ k <= Len(f)
      /\ \A i \in 1 .. Len(f) : f[i] \in Cached
      /\ \A t \in Cached : \E i \in 1 .. Len(f) : f[i] = t
      /\ \A i, j \in 1 .. Len(f) : f[i] = f[j] => i = j
      BY ListingsProperties
<1>2. /\ a \in Seq(Cached) /\ Len(a) = k /\ \A i \in 1 .. k : a[i] = f[i]
      /\ b \in Seq(Cached) /\ Len(b) = Len(f) - k
      /\ \A i \in 1 .. Len(f) - k : b[i] = f[k + i]
      BY CutListing
<1> HIDE DEF a, b
<1>3. Elems(a) = {a[i] : i \in 1 .. k} /\ Elems(b) = {b[i] : i \in 1 .. Len(f) - k}
  <2>1. DOMAIN a = 1 .. Len(a) /\ DOMAIN b = 1 .. Len(b)
        BY <1>2
  <2> QED
        BY <1>2, <2>1, Zenon DEF Elems
<1>4. ASSUME NEW t \in Cached
      PROVE  t \in Elems(a) \cup Elems(b)
  <2>1. PICK i \in 1 .. Len(f) : f[i] = t
        BY ZenonT(40), SMT, <1>1
  <2>2. CASE i <= k
        BY SMT, Z3, <1>1, <1>2, <1>3, <2>1, <2>2
  <2>3. CASE i > k
    <3>1. i - k \in 1 .. Len(f) - k /\ b[i - k] = f[k + (i - k)] /\ k + (i - k) = i
          BY SMT, Z3, <1>1, <1>2, <2>1, <2>3
    <3> QED
          BY Zenon, <1>3, <2>1, <3>1
  <2> QED
        BY <1>1, <2>2, <2>3
<1>5. Elems(a) \cup Elems(b) \subseteq Cached
      BY SMT, Z3, <1>1, <1>2, <1>3
<1>6. ASSUME NEW i \in 1 .. k, NEW j \in 1 .. Len(f) - k, a[i] = b[j]
      PROVE  FALSE
  <2>1. i \in 1 .. Len(f) /\ k + j \in 1 .. Len(f) /\ i # k + j
        BY SMT, Z3, <1>1
  <2>2. f[i] = f[k + j]
        BY Zenon, <1>2, <1>6
  <2> QED
        BY Zenon, <1>1, <2>1, <2>2
<1>7. \A i, j \in 1 .. k : a[i] = a[j] => i = j
      BY SMT, Z3, <1>1, <1>2
<1>8. ASSUME NEW i \in 1 .. Len(f) - k, NEW j \in 1 .. Len(f) - k, b[i] = b[j]
      PROVE  i = j
  <2>1. k + i \in 1 .. Len(f) /\ k + j \in 1 .. Len(f) /\ f[k + i] = f[k + j]
        BY SMTT(20), Z3T(20), <1>1, <1>2, <1>8
  <2>2. k + i = k + j
        BY <1>1, <2>1
  <2> QED
        BY <1>1, <2>2
<1>9. Elems(a) \cap Elems(b) = {}
      BY <1>3, <1>6
<1> QED
      BY Zenon, <1>2, <1>3, <1>4, <1>5, <1>7, <1>8, <1>9 DEF a, b

-----------------------------------------------------------------------------
(* sendTracesInCache moves expired traces from the cache to the loop of    *)
(* sends.                                                                  *)
LEMMA SafeTick ==
    ASSUME Inv, Tick
    PROVE  Safe' /\ Cached' \subseteq Cached
<1>1. CacheTypeOK /\ RingMatchesMap /\ toSend = <<>>
      BY ZenonT(40), SMT DEF Inv, TypeOK, Safe, Idle, Tick
<1>2. Expired \in SUBSET Cached /\ Take(Expired) /\ toSend' \in Listings(Expired)
      BY DEF Expired, Tick, InRingOrder
<1>3. RingMatchesMap' /\ Cached' = Cached \ Expired
      BY <1>1, <1>2, TakeRing
<1>4. Elems(toSend') = Expired
      BY Zenon, <1>1, <1>2, ListingElems
<1>5. Cached' \cup Elems(toSend') = Cached /\ Cached' \cap Elems(toSend') = {}
      BY <1>2, <1>3, <1>4
<1> QED
      BY <1>1, <1>3, <1>5, MovingStep DEF Tick, sentVars

(* Memory overrun moves traces from the cache, or from the old ring, to    *)
(* the loop of sends and rebuilds the rest.                                *)
LEMMA SafeCheckAlloc ==
    ASSUME Inv, CheckAlloc
    PROVE  Safe' /\ Cached' \subseteq Cached
<1>1. CacheTypeOK /\ RingMatchesMap /\ toSend = <<>>
      BY DEF Inv, TypeOK, Safe, CheckAlloc
<1>2. UNCHANGED <<trace, lru, stopPc>> /\ pc' # "select"
      BY DEF CheckAlloc, sentVars
<1>3. CASE UNCHANGED <<cacheVars, toSend>>
      BY Zenon, <1>2, <1>3, QuietStep, CacheUnchanged DEF CheckAlloc
<1>4. CASE oldCheckAlloc
  <2>1. PICK f \in BySendBy(Cached) :
          LET n == Len(f)
              newCap == (9 * n) \div 10
          IN  /\ toSend' = SubSeq(f, 1, n - newCap)
              /\ Refill(newCap, SubSeq(f, n - newCap + 1, n))
        BY <1>4 DEF oldCheckAlloc
  <2> DEFINE n == Len(f)
             newCap == (9 * n) \div 10
             k == n - newCap
             kept == SubSeq(f, k + 1, n)
  <2>2. f \in Listings(Cached) /\ n \in Nat
        BY <1>1, BySendBySeq, ListingsProperties
  <2>3. newCap \in Nat /\ k \in 0 .. n /\ n - k = newCap
        BY <2>2
  <2>4. toSend' = SubSeq(f, 1, k) /\ Refill(newCap, kept)
        BY Zenon, <2>1
  <2> HIDE DEF newCap, k
  <2>5. kept \in Seq(Cached) /\ Len(kept) = newCap
        BY <1>1, <2>2, <2>3, CutListing
  <2>6. /\ Elems(toSend') \cup Elems(kept) = Cached
        /\ Elems(toSend') \cap Elems(kept) = {}
        /\ Elems(kept) = {kept[i] : i \in 1 .. Len(kept)}
        /\ \A i, j \in 1 .. Len(kept) : kept[i] = kept[j] => i = j
        BY Zenon, <1>1, <2>2, <2>3, <2>4, CutCached
  <2>7. Len(kept) <= Effective(newCap)
        BY <2>3, <2>5, DefaultAssumption DEF Effective
  <2>8. RingMatchesMap' /\ Cached' = Elems(kept)
        BY Zenon, <1>1, <2>3, <2>4, <2>5, <2>6, <2>7, RefillRing
  <2> QED
        BY Zenon, <1>1, <1>2, <2>6, <2>8, MovingStep
<1>5. CASE newCheckAlloc
  <2>1. PICK S \in SUBSET Cached :
          toSend' \in Listings(S) /\ RemoveTraces({TraceOf[t] : t \in S})
        BY Zenon, <1>5 DEF newCheckAlloc
  <2>2. RingMatchesMap' /\ Cached' = Cached \ S
        BY Zenon, <1>1, <2>1, RemoveIsTake, TakeRing
  <2>3. Elems(toSend') = S
        BY Zenon, <1>1, <2>1, ListingElems
  <2> QED
        BY <1>1, <1>2, <2>2, <2>3, MovingStep
<1> QED
      BY Zenon, <1>3, <1>4, <1>5 DEF CheckAlloc

(* reloadConfigs carries every cached trace over to the new ring or sends  *)
(* it.                                                                     *)
LEMMA SafeReload ==
    ASSUME Inv, reloadConfigs
    PROVE  Safe' /\ Cached' \subseteq Cached
<1>1. CacheTypeOK /\ RingMatchesMap /\ toSend = <<>> /\ conf.capacity \in Nat
      BY DEF Inv, TypeOK, Config, Safe, Idle, reloadConfigs
<1>2. UNCHANGED <<trace, lru, stopPc>> /\ pc' # "select"
      BY DEF reloadConfigs, sentVars
<1>3. CASE conf.capacity = capacity
      BY ZenonT(40), SMT, <1>2, <1>3, QuietStep, CacheUnchanged DEF reloadConfigs
<1>4. CASE conf.capacity # capacity
  <2>1. PICK f \in InRingOrder(Cached) :
          LET fit == IF Len(f) < conf.capacity THEN Len(f) ELSE conf.capacity
          IN  /\ Refill(conf.capacity, SubSeq(f, 1, fit))
              /\ toSend' = SubSeq(f, fit + 1, Len(f))
        BY <1>4 DEF reloadConfigs, RestAfter
  <2> DEFINE fit == IF Len(f) < conf.capacity THEN Len(f) ELSE conf.capacity
             kept == SubSeq(f, 1, fit)
  <2>2. f \in Listings(Cached) /\ Len(f) \in Nat
        BY <1>1, RingOrderSeq, ListingsProperties
  <2>3. fit \in 0 .. Len(f) /\ fit <= conf.capacity
        BY <1>1, <2>2
  <2>4. Refill(conf.capacity, kept) /\ toSend' = SubSeq(f, fit + 1, Len(f))
        BY <2>1
  <2> HIDE DEF fit
  <2>5. kept \in Seq(Cached) /\ Len(kept) = fit
        BY Zenon, <1>1, <2>2, <2>3, CutListing
  <2>6. /\ Elems(kept) \cup Elems(toSend') = Cached
        /\ Elems(kept) \cap Elems(toSend') = {}
        /\ Elems(kept) = {kept[i] : i \in 1 .. Len(kept)}
        /\ \A i, j \in 1 .. Len(kept) : kept[i] = kept[j] => i = j
        BY Zenon, <1>1, <2>2, <2>3, <2>4, CutCached
  <2>7. Len(kept) <= Effective(conf.capacity)
        BY <1>1, <2>3, <2>5, DefaultAssumption DEF Effective
  <2>8. RingMatchesMap' /\ Cached' = Elems(kept)
        BY Zenon, <1>1, <2>4, <2>5, <2>6, <2>7, RefillRing
  <2> QED
        BY Zenon, <1>1, <1>2, <2>6, <2>8, MovingStep
<1> QED
      BY ZenonT(40), SMT, <1>3, <1>4

(* A step that changes nothing of the traces but their deadlines.          *)
LEMMA SafeElapse ==
    ASSUME Inv, Elapse
    PROVE  Safe'
<1>1. \A t \in Spans : /\ trace'[t].spans = trace[t].spans
                       /\ trace'[t].sent = trace[t].sent
      BY DEF Elapse, Aged, Inv, TypeOK
<1>2. /\ Slots' = Slots /\ Cached' = Cached /\ Cached \subseteq Spans
      /\ Pending' = Pending /\ Elems(toSend)' = Elems(toSend)
      /\ Elems(toSend) \subseteq Spans
      BY ZenonT(40), SMT, <1>1, CachedAreSpans, SendingSpans
      DEF Inv, TypeOK, Elapse, cacheVars, Slots, Cached, Pending, Elems
<1>3. RingMatchesMap'
      BY Zenon, <1>2 DEF Elapse, Inv, Safe, RingMatchesMap, cacheVars
<1>4. NothingStranded' /\ OnlyUnsentCached' /\ Allocated' /\ Apart' /\ OneTrace'
      BY ZenonT(40), SMT, <1>1, <1>2 DEF Elapse, Inv, Safe, NothingStranded, OnlyUnsentCached,
                        Allocated, Apart, OneTrace
<1>5. LegacyOneVerdict' /\ Idle'
      BY Zenon, <1>2 DEF Elapse, sentVars, Inv, Safe, LegacyOneVerdict, OneVerdict, Idle
<1> QED
      BY ZenonT(40), SMT, <1>3, <1>4, <1>5 DEF Safe

(* One call of send: the trace is unsent no longer, and it was not in the  *)
(* cache unless Stop is purging.                                           *)
LEMMA SafeSend ==
    ASSUME Inv, send
    PROVE  Safe'
<1> DEFINE t == Head(toSend)
<1>1. /\ t \in Spans /\ Tail(toSend) \in Seq(Spans) /\ toSend \in Seq(Spans)
      /\ Len(toSend) > 0 /\ Len(Tail(toSend)) = Len(toSend) - 1
      /\ \A i \in 1 .. Len(toSend) - 1 : Tail(toSend)[i] = toSend[i + 1]
      BY SMT, Z3, HeadTailIs DEF Inv, TypeOK, send
<1>2. Elems(toSend) = Elems(toSend') \cup {t} /\ Elems(toSend)' = Elems(toSend')
  <2>1. toSend' = Tail(toSend)
        BY DEF send
  <2>2. ASSUME NEW x \in Elems(toSend), x # t
        PROVE  x \in Elems(toSend')
    <3>1. PICK i \in 1 .. Len(toSend) : x = toSend[i]
          BY <1>1 DEF Elems
    <3>2. i # 1 /\ i - 1 \in 1 .. Len(toSend) - 1
          BY SMT, Z3, <1>1, <2>2, <3>1
    <3>3. Tail(toSend)[i - 1] = x
          BY SMT, Z3, <1>1, <3>1, <3>2
    <3>4. DOMAIN Tail(toSend) = 1 .. Len(toSend) - 1
          BY SMT, Z3, <1>1
    <3> QED
          BY <2>1, <3>2, <3>3, <3>4, Zenon DEF Elems
  <2>3. ASSUME NEW x \in Elems(toSend')
        PROVE  x \in Elems(toSend)
    <3>1. PICK i \in 1 .. Len(toSend) - 1 : x = Tail(toSend)[i]
          BY SMT, Z3, <1>1, <2>1 DEF Elems
    <3> QED
          BY <1>1, <3>1 DEF Elems
  <2>4. t \in Elems(toSend)
        BY <1>1 DEF Elems
  <2> QED
        BY <2>2, <2>3, <2>4 DEF Elems
<1>3. /\ UNCHANGED <<pc, stopPc>> /\ Slots' = Slots /\ Cached' = Cached
      /\ RingMatchesMap'
      BY CacheUnchanged DEF send, Inv, Safe
<1>4. Cached \subseteq Spans
      BY ZenonT(40), SMT, CachedAreSpans DEF Inv, TypeOK
<1>5. CASE trace[t].sent
  <2>1. UNCHANGED <<trace, lru>>
        BY ZenonT(40), SMT, <1>5 DEF send, sentVars
  <2>2. Pending' = Pending /\ t \notin Pending
        BY <1>5, <2>1 DEF Pending
  <2> QED
        BY Zenon, <1>2, <1>3, <2>1, <2>2
        DEF Inv, Safe, NothingStranded, OnlyUnsentCached, Idle, Allocated, Apart,
            OneTrace, LegacyOneVerdict, OneVerdict, send
<1>6. CASE ~trace[t].sent
  <2>1. PICK keep \in BOOLEAN : Decide(t, keep)
        BY Zenon, <1>6 DEF send
  <2>2. /\ trace'[t].sent /\ trace'[t].spans = trace[t].spans
        /\ \A u \in Spans : u # t => trace'[u] = trace[u]
        BY ZenonT(40), SMT, <1>1, <2>1 DEF Decide, Inv, TypeOK
  <2>3. Pending' = Pending \ {t}
        BY <1>1, <2>2 DEF Pending
  <2>4. DOMAIN lru' \subseteq DOMAIN lru \cup {TraceOf[t]}
        BY ZenonT(40), <1>1, <2>1, RecordType, SpansAssumption DEF Inv, TypeOK, Decide
  <2>0. TypeOK
        BY DEF Inv
  <2>5. NothingStranded' /\ OneTrace' /\ Apart' /\ Idle'
        BY Zenon, <1>2, <1>3, <2>3
        DEF Inv, Safe, NothingStranded, OneTrace, Apart, Idle, send
  <2>6. OnlyUnsentCached'
        BY ZenonT(40), SMT, <1>2, <1>3, <1>4, <2>2 DEF Inv, Safe, Apart, OnlyUnsentCached
  <2>7. Allocated'
        BY Zenon, <1>2, <1>3, <1>4, <2>0, <2>2, SendingSpans DEF Inv, Safe, Allocated
  <2>8. LegacyOneVerdict'
    <3> SUFFICES ASSUME SentCacheType = "legacy", NEW u \in Pending'
                 PROVE  TraceOf[u] \notin DOMAIN lru'
          BY DEF LegacyOneVerdict, OneVerdict
    <3>1. u \in Pending /\ u # t /\ TraceOf[u] \notin DOMAIN lru
          BY <2>3 DEF Inv, Safe, LegacyOneVerdict, OneVerdict
    <3>2. CASE t \in Pending
          BY Zenon, <2>4, <3>1, <3>2 DEF Inv, Safe, OneTrace
    <3>3. CASE t \notin Pending
      <4>1. trace[t].spans = {}
            BY Zenon, <1>1, <1>6, <3>3 DEF Pending
      <4> QED
            BY Zenon, <1>2, <4>1 DEF Inv, Safe, Allocated
    <3> QED
          BY <3>2, <3>3
  <2> QED
        BY <1>3, <2>5, <2>6, <2>7, <2>8 DEF Safe
<1> QED
      BY Zenon, <1>5, <1>6

(* A new trace takes the slot of the overwritten one, which is sent next.  *)
LEMMA SafeNewTrace ==
    ASSUME Inv, NEW sp \in Spans, toSend = <<>>, NewTrace(sp),
           pc' = "top", UNCHANGED stopPc
    PROVE  Safe'
<1>1. /\ RingMatchesMap' /\ Overwritten # sp
      /\ Cached' = (Cached \ {Overwritten}) \cup {sp}
      /\ Overwritten # Nil => Overwritten \in Cached
      BY Zenon, SetRing DEF Inv, TypeOK, Safe, NewTrace
<1>2. Cached \subseteq Spans /\ Elems(toSend) = {} /\ Nil \notin Cached
  <2>1. Cached \subseteq Spans
        BY CachedAreSpans DEF Inv, TypeOK
  <2>2. Elems(toSend) = {}
        BY DEF Elems
  <2>3. Nil \notin Cached
        BY DEF Cached
  <2> QED
        BY Zenon, <2>1, <2>2, <2>3
<1>3. /\ trace'[sp].spans = {sp} /\ ~trace'[sp].sent
      /\ \A u \in Spans : u # sp => trace'[u] = trace[u]
  <2>1. trace \in [Spans -> TraceType]
        BY DEF Inv, TypeOK
  <2> QED
        BY Zenon, <2>1 DEF NewTrace
<1>a. RingMatchesMap /\ cache[TraceOf[sp]] = Nil
      BY Zenon DEF Inv, Safe, NewTrace
<1>b. \A u \in Cached : u # Nil /\ cache[TraceOf[u]] = u
      BY Zenon, <1>a, CachedAreMapped
<1>4. sp \notin Cached
      BY <1>a, <1>b
<1>5. Elems(toSend') = IF Overwritten # Nil /\ ~trace[Overwritten].sent
                       THEN {Overwritten} ELSE {}
  <2>1. Elems(<<Overwritten>>) = {Overwritten} /\ Elems(<<>>) = {}
        BY DEF Elems
  <2> QED
        BY Zenon, <2>1 DEF NewTrace
<1>6. Pending \subseteq Cached
      BY Zenon, <1>2 DEF Inv, Safe, NothingStranded
<1>7. Pending' = Pending \cup {sp}
      BY Zenon, <1>3 DEF Pending
<1>8. Elems(toSend)' = Elems(toSend')
      BY DEF Elems
<1>9. NothingStranded'
  <2>1. \A u \in Pending : ~trace[u].sent /\ u # Nil
        BY Zenon, <1>2, <1>6 DEF Pending
  <2> QED
        BY Zenon, <1>1, <1>5, <1>6, <1>7, <1>8, <2>1 DEF NothingStranded
<1>10. OnlyUnsentCached' /\ Apart' /\ Allocated'
      BY ZenonT(40), SMT, <1>1, <1>2, <1>3, <1>4, <1>5, <1>8
      DEF Inv, Safe, OnlyUnsentCached, Apart, Allocated
<1>11. \A u \in Pending : TraceOf[u] # TraceOf[sp]
      BY <1>6, <1>a, <1>b
<1>12. OneTrace'
      BY Zenon, <1>7, <1>11 DEF Inv, Safe, OneTrace
<1>13. LegacyOneVerdict'
      BY Zenon, <1>7 DEF Inv, Safe, LegacyOneVerdict, OneVerdict, NewTrace, Found, sentVars
<1> QED
      BY <1>1, <1>9, <1>10, <1>12, <1>13 DEF Safe, Idle

(* A span joins the trace of its ID, sent or not.                          *)
LEMMA SafeJoinTrace ==
    ASSUME Inv, NEW sp \in Spans, toSend = <<>>, JoinTrace(sp),
           pc' = "top", UNCHANGED stopPc
    PROVE  Safe'
<1> DEFINE t == cache[TraceOf[sp]]
<1>1. t \in Cached /\ TraceOf[sp] \in TraceIDs
      BY Zenon, SpansAssumption DEF JoinTrace, Inv, Safe, RingMatchesMap
<1>2. Cached \subseteq Spans /\ Elems(toSend) = {}
      BY SMT, Z3, CachedAreSpans DEF Inv, TypeOK, Elems
<1>3. \A u \in Spans : /\ trace'[u].sent = trace[u].sent
                       /\ trace[u].spans # {} => trace'[u].spans # {}
                       /\ u # t => trace'[u] = trace[u]
  <2>1. trace \in [Spans -> TraceType] /\ t \in Spans
        BY <1>1, <1>2 DEF Inv, TypeOK
  <2> QED
        BY ZenonT(40), SMT, <2>1 DEF JoinTrace
<1>4. /\ Slots' = Slots /\ Cached' = Cached /\ UNCHANGED <<toSend, lru>>
      /\ RingMatchesMap' /\ Elems(toSend)' = {}
  <2>1. UNCHANGED <<toSend, lru>> /\ UNCHANGED cacheVars
        BY Zenon DEF JoinTrace, sentVars
  <2>2. RingMatchesMap
        BY DEF Inv, Safe
  <2>3. Elems(toSend)' = Elems(toSend)
        BY ZenonT(40), SMT, <2>1 DEF Elems
  <2> QED
        BY ZenonT(40), SMT, <1>2, <2>1, <2>2, <2>3, CacheUnchanged
<1>5. trace[t].spans # {}
      BY Zenon, <1>1 DEF Inv, Safe, Allocated
<1>6. Pending' = Pending
      BY Zenon, <1>1, <1>2, <1>3, <1>5 DEF Pending
<1> QED
      BY ZenonT(40), SMT, <1>2, <1>3, <1>4, <1>6
      DEF Inv, Safe, NothingStranded, OnlyUnsentCached, Idle, Allocated, Apart,
          OneTrace, LegacyOneVerdict, OneVerdict

(* processSpan, whichever way it goes.                                     *)
LEMMA SafeProcessSpan ==
    ASSUME Inv, NEW sp \in Spans, processSpan(sp)
    PROVE  Safe'
<1>1. toSend = <<>> /\ pc' = "top" /\ UNCHANGED stopPc
      BY DEF processSpan
<1>2. CASE LateSpan(sp)
  <2>1. DOMAIN lru' \subseteq DOMAIN lru
        BY Zenon, <1>2, CheckHitType, SpansAssumption DEF Inv, TypeOK, LateSpan
  <2> QED
        BY Zenon, <1>1, <1>2, <2>1, QuietStep DEF LateSpan
<1> QED
      BY <1>1, <1>2, SafeNewTrace, SafeJoinTrace DEF processSpan

(* Stop queues every cached trace for sending and leaves it in the cache.  *)
LEMMA SafePurge ==
    ASSUME Inv, Purge
    PROVE  Safe'
<1>1. CacheTypeOK /\ RingMatchesMap /\ toSend = <<>> /\ Elems(toSend) = {}
      BY DEF Inv, TypeOK, Safe, Purge, Elems
<1>2. Elems(toSend') = Cached
  <2>1. toSend' \in Listings(Cached)
        BY Zenon DEF Purge, InRingOrder
  <2>2. /\ DOMAIN toSend' = 1 .. Len(toSend')
        /\ \A i \in 1 .. Len(toSend') : toSend'[i] \in Cached
        /\ \A t \in Cached : \E i \in 1 .. Len(toSend') : toSend'[i] = t
        BY ZenonT(40), SMT, <1>1, <2>1, ListingsProperties
  <2> QED
        BY ZenonT(40), <2>2 DEF Elems
<1>3. /\ Slots' = Slots /\ Cached' = Cached /\ Pending' = Pending
      /\ RingMatchesMap' /\ Elems(toSend)' = Elems(toSend')
  <2>1. UNCHANGED cacheVars /\ trace' = trace
        BY DEF Purge
  <2>2. Pending' = Pending
        BY Zenon, <2>1 DEF Pending
  <2>3. Elems(toSend)' = Elems(toSend')
        BY DEF Elems
  <2> QED
        BY Zenon, <1>1, <2>1, <2>2, <2>3, CacheUnchanged
<1> QED
      BY ZenonT(40), SMT, <1>1, <1>2, <1>3
      DEF Inv, Safe, Purge, sentVars, NothingStranded, OnlyUnsentCached, Idle,
          Allocated, Apart, OneTrace, LegacyOneVerdict, OneVerdict

(* Every step of the collector, its clients and Stop preserves Safe.       *)
LEMMA SafeNext ==
    ASSUME Inv, [Next]_vars
    PROVE  Safe'
<1>1. CASE AddSpan \/ AddSpanFromPeer
      BY Zenon, <1>1, QuietStep DEF AddSpan, AddSpanFromPeer, add, sentVars, Inv, Safe, Idle
<1>2. CASE Elapse
      BY Zenon, <1>2, SafeElapse
<1>3. CASE ChangeConfig \/ sendReloadSignal
      BY ZenonT(40), SMT, <1>3, QuietStep DEF ChangeConfig, sendReloadSignal, sentVars, Inv, Safe, Idle
<1>4. CASE CycleFilter
      BY <1>4, QuietStep DEF CycleFilter, Cycle, Inv, Safe, Idle
<1>5. CASE send
      BY <1>5, SafeSend
<1>6. CASE FromPeer
  <2>1. Head(fromPeer) \in Spans
        BY <1>6 DEF FromPeer, Inv, TypeOK
  <2> QED
        BY Zenon, <1>6, <2>1, SafeProcessSpan DEF FromPeer
<1>7. CASE FromIncoming
  <2>1. Head(incoming) \in Spans
        BY SMT, Z3, <1>7 DEF FromIncoming, Inv, TypeOK
  <2> QED
        BY Zenon, <1>7, <2>1, SafeProcessSpan DEF FromIncoming
<1>8. CASE NoPeerSpan \/ IncomingClosed \/ Relock
      BY <1>8, QuietStep DEF NoPeerSpan, IncomingClosed, Relock, sentVars
<1>9. CASE Tick
      BY <1>9, SafeTick
<1>10. CASE CheckAlloc
      BY Zenon, <1>10, SafeCheckAlloc
<1>11. CASE reloadConfigs
      BY <1>11, SafeReload
<1>12. CASE EndReload
  <2>1. DOMAIN lru' \subseteq DOMAIN lru
        BY Zenon, <1>12, ResizeType DEF Inv, TypeOK, Config, EndReload
  <2> QED
        BY Zenon, <1>12, <2>1, QuietStep DEF EndReload
<1>13. CASE Stop \/ EndStop
      BY ZenonT(40), SMT, <1>13, QuietStep DEF Stop, EndStop, sentVars, Inv, Safe, Idle
<1>14. CASE Purge
      BY <1>14, SafePurge
<1>15. CASE UNCHANGED vars
      BY <1>15, QuietStep DEF vars, sentVars, Inv, Safe, Idle
<1> QED
      BY Zenon, <1>1, <1>2, <1>3, <1>4, <1>5, <1>6, <1>7, <1>8, <1>9, <1>10, <1>11, <1>12,
         <1>13, <1>14, <1>15 DEF Next

(* The inductive invariant of the collector.                               *)
THEOREM Invariance == Spec => []Inv
<1>1. Init => Inv
      BY TypeInit, SafeInit DEF Inv
<1>2. Inv /\ [Next]_vars => Inv'
      BY TypeNext, SafeNext DEF Inv
<1> QED
      BY <1>1, <1>2, PTL DEF Spec

-----------------------------------------------------------------------------
(* Ring and map of the trace cache always agree.                           *)
THEOREM CacheConsistent == Spec => []RingMatchesMap
BY Invariance, PTL DEF Inv, Safe

(* No trace that holds spans is ever let go of without being sent.         *)
THEOREM TracesNotStranded == Spec => []NothingStranded
BY Invariance, PTL DEF Inv, Safe

(* Until Stop purges the cache, it holds unsent traces only.               *)
THEOREM CacheHoldsUnsent == Spec => []OnlyUnsentCached
BY Invariance, PTL DEF Inv, Safe

(* With the legacy sent cache a remembered decision is final.              *)
THEOREM VerdictFinal == Spec => [](SentCacheType = "legacy" => OneVerdict)
BY Invariance, PTL DEF Inv, Safe, LegacyOneVerdict

-----------------------------------------------------------------------------
(* The samplers.  This invariant is inductive as it stands.                *)
LEMMA SamplersNext ==
    ASSUME TypeOK, SamplersCurrent, [Next]_vars
    PROVE  SamplersCurrent'
<1> USE DEF SamplersCurrent, confVars
<1>1. CASE AddSpan \/ AddSpanFromPeer
      BY Zenon, <1>1 DEF AddSpan, AddSpanFromPeer, add
<1>2. CASE Elapse \/ ChangeConfig \/ sendReloadSignal \/ CycleFilter
      BY Zenon, <1>2 DEF Elapse, ChangeConfig, sendReloadSignal, CycleFilter
<1>3. CASE send
  <2>1. CASE UNCHANGED samplers
        BY <1>3, <2>1 DEF send
  <2>2. ASSUME NEW keep \in BOOLEAN, Decide(Head(toSend), keep)
        PROVE  SamplersCurrent'
        BY Zenon, <1>3, <2>2 DEF send, Decide
  <2> QED
        BY ZenonT(40), SMT, <1>3, <2>1, <2>2 DEF send
<1>4. CASE FromPeer \/ FromIncoming
      BY Zenon, <1>4 DEF FromPeer, FromIncoming, processSpan
<1>5. CASE NoPeerSpan \/ IncomingClosed \/ Tick \/ CheckAlloc \/ Relock
      BY Zenon, <1>5 DEF NoPeerSpan, IncomingClosed, Tick, CheckAlloc, Relock
<1>6. CASE reloadConfigs \/ EndReload
      BY ZenonT(40), SMT, <1>6 DEF reloadConfigs, EndReload
<1>7. CASE Stop \/ Purge \/ EndStop
      BY Zenon, <1>7 DEF Stop, Purge, EndStop
<1>8. CASE UNCHANGED vars
      BY <1>8 DEF vars
<1> QED
      BY Zenon, <1>1, <1>2, <1>3, <1>4, <1>5, <1>6, <1>7, <1>8 DEF Next

(* No trace is decided by a sampler of an older configuration once no      *)
(* reload is outstanding.                                                  *)
THEOREM SamplersFollowConfig == Spec => []SamplersCurrent
<1>1. Init => SamplersCurrent
      BY DEF Init, SamplersCurrent
<1>2. TypeOK /\ SamplersCurrent /\ [Next]_vars => SamplersCurrent'
      BY SamplersNext
<1> QED
      BY <1>1, <1>2, TypeCorrect, PTL DEF Spec

=============================================================================
