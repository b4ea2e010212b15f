----------------------- MODULE CollectorSafetyProofs ------------------------
(***************************************************************************)
(* What follows from the inductive invariant Inv of the collector: it      *)
(* accounts for every span, each being in exactly one place; and, with the *)
(* legacy sent cache, it implements TraceVerdicts, which has neither       *)
(* queues nor caches nor loops of sends: every step of the collector is a  *)
(* step of TraceVerdicts or none.                                          *)
(***************************************************************************)
EXTENDS CollectorProofs

-----------------------------------------------------------------------------
(* The collector accounts for every span.                                  *)

(* A span stays where it is if nothing that says where it is changes.      *)
LEMMA Unmoved ==
    ASSUME NEW s, InOnePlace(s),
           s \in fresh' <=> s \in fresh,
           s \in refused' <=> s \in refused,
           s \in Elems(incoming)' <=> s \in Elems(incoming),
           s \in Elems(fromPeer)' <=> s \in Elems(fromPeer),
           Held(s)' <=> Held(s),
           delivered'[s] = delivered[s],
           s \in discarded' <=> s \in discarded
    PROVE  InOnePlace(s)'
<1>1. \A q \in Places : At(s, q)' <=> At(s, q)
      BY DEF At, Places
<1>2. Places' = Places
      BY DEF Places
<1> QED
      BY <1>1, <1>2 DEF InOnePlace

(* A span in one place is in no other.                                     *)
LEMMA OnlyThere ==
    ASSUME NEW s, InOnePlace(s), NEW p \in Places, At(s, p)
    PROVE  \A q \in Places : At(s, q) => q = p
BY DEF InOnePlace

(* Steps that leave the spans, the channels and what traces hold alone.    *)
LEMMA SpansQuiet ==
    ASSUME SpanAccounting, UNCHANGED <<fresh, refused, delivered, discarded>>,
           UNCHANGED <<incoming, fromPeer>>, Pending' = Pending,
           \A t \in Pending : trace'[t].spans = trace[t].spans
    PROVE  SpanAccounting'
<1>1. \A s : Held(s)' <=> Held(s)
      BY DEF Held
<1>2. Elems(incoming)' = Elems(incoming) /\ Elems(fromPeer)' = Elems(fromPeer)
      BY DEF Elems
<1>3. \A s \in Spans : InOnePlace(s)'
      BY <1>1, <1>2, Unmoved DEF SpanAccounting
<1> QED
      BY <1>3 DEF SpanAccounting, Distinct

(* Taking the head of a channel without duplicates.                        *)
LEMMA TailElems ==
    ASSUME NEW S, NEW q \in Seq(S), q # <<>>, Distinct(q)
    PROVE  /\ Distinct(Tail(q)) /\ Head(q) \in Elems(q)
           /\ Elems(Tail(q)) = Elems(q) \ {Head(q)}
<1>1. /\ Tail(q) \in Seq(S) /\ Len(Tail(q)) = Len(q) - 1 /\ Len(q) \in Nat \ {0}
      /\ \A i \in 1 .. Len(q) - 1 : Tail(q)[i] = q[i + 1]
      /\ Head(q) = q[1] /\ DOMAIN q = 1 .. Len(q)
      BY HeadTailIs
<1>2. DOMAIN Tail(q) = 1 .. Len(q) - 1
      BY <1>1
<1>3. \A i, j \in 1 .. Len(q) : q[i] = q[j] => i = j
      BY <1>1 DEF Distinct
<1>4. Distinct(Tail(q))
      BY <1>1, <1>2, <1>3 DEF Distinct
<1>5. ASSUME NEW x \in Elems(q), x # Head(q)
      PROVE  x \in Elems(Tail(q))
  <2>1. PICK i \in 1 .. Len(q) : x = q[i]
        BY <1>1 DEF Elems
  <2>2. i - 1 \in 1 .. Len(q) - 1 /\ Tail(q)[i - 1] = x
        BY <1>1, <1>5, <2>1
  <2> QED
        BY <1>2, <2>2, Zenon DEF Elems
<1>6. ASSUME NEW x \in Elems(Tail(q))
      PROVE  x \in Elems(q) /\ x # Head(q)
  <2>1. PICK i \in 1 .. Len(q) - 1 : x = Tail(q)[i]
        BY <1>2 DEF Elems
  <2>2. i + 1 \in 1 .. Len(q) /\ x = q[i + 1] /\ i + 1 # 1
        BY <1>1, <2>1
  <2> QED
        BY <1>1, <1>3, <2>2 DEF Elems
<1>7. Head(q) \in Elems(q)
      BY <1>1 DEF Elems
<1> QED
      BY <1>4, <1>5, <1>6, <1>7

(* Adding to a channel a span that is not in it.                           *)
LEMMA AppendElems ==
    ASSUME NEW S, NEW q \in Seq(S), NEW x \in S, Distinct(q), x \notin Elems(q)
    PROVE  Distinct(Append(q, x)) /\ Elems(Append(q, x)) = Elems(q) \cup {x}
<1>1. /\ Append(q, x) \in Seq(S) /\ Len(Append(q, x)) = Len(q) + 1
      /\ \A i \in 1 .. Len(q) : Append(q, x)[i] = q[i]
      /\ Append(q, x)[Len(q) + 1] = x
      /\ Len(q) \in Nat /\ DOMAIN q = 1 .. Len(q)
      BY AppendIs
<1>2. DOMAIN Append(q, x) = 1 .. Len(q) + 1
      BY <1>1
<1>3. \A i \in 1 .. Len(q) : q[i] \in Elems(q)
      BY <1>1 DEF Elems
<1>4. Distinct(Append(q, x))
      BY <1>1, <1>2, <1>3 DEF Distinct
<1>5. Elems(Append(q, x)) \subseteq Elems(q) \cup {x}
      BY <1>1, <1>2, <1>3 DEF Elems
<1>6. ASSUME NEW y \in Elems(q)
      PROVE  y \in Elems(Append(q, x))
  <2>1. PICK i \in 1 .. Len(q) : y = q[i]
        BY <1>1 DEF Elems
  <2>2. i \in 1 .. Len(q) + 1 /\ Append(q, x)[i] = y
        BY <1>1, <2>1
  <2> QED
        BY <1>2, <2>2, Zenon DEF Elems
<1>7. x \in Elems(Append(q, x))
  <2>1. Len(q) + 1 \in 1 .. Len(q) + 1
        BY <1>1
  <2> QED
        BY <1>1, <1>2, <2>1, Zenon DEF Elems
<1> QED
      BY <1>4, <1>5, <1>6, <1>7

-----------------------------------------------------------------------------
(* A client's span is queued or refused.                                   *)
LEMMA SpansAddIncoming ==
    ASSUME TypeOK, SpanAccounting, AddSpan
    PROVE  SpanAccounting'
<1>1. PICK x \in fresh : add(x, incoming) /\ UNCHANGED fromPeer
      BY DEF AddSpan
<1>2. x \in Spans /\ fresh' = fresh \ {x} /\ InOnePlace(x)
      BY <1>1 DEF TypeOK, add, SpanAccounting
<1>3. /\ x \notin refused /\ x \notin Elems(incoming) /\ x \notin Elems(fromPeer)
      /\ ~Held(x) /\ ~(delivered[x] > 0) /\ x \notin discarded
      BY <1>2, OnlyThere DEF At, Places
<1>4. UNCHANGED <<trace, delivered, discarded, fromPeer>>
      BY Zenon, <1>1 DEF add
<1>5. /\ Pending' = Pending /\ Elems(fromPeer)' = Elems(fromPeer)
      /\ Elems(incoming)' = Elems(incoming')
      /\ \A s : Held(s)' <=> Held(s)
      BY <1>4 DEF Pending, Elems, Held
<1>6. \/ /\ refused' = refused /\ Elems(incoming') = Elems(incoming) \cup {x}
         /\ Distinct(incoming')
      \/ /\ refused' = refused \cup {x} /\ incoming' = incoming
  <2>1. incoming \in Seq(Spans) /\ Distinct(incoming)
        BY DEF TypeOK, SpanAccounting
  <2>2. /\ Distinct(Append(incoming, x))
        /\ Elems(Append(incoming, x)) = Elems(incoming) \cup {x}
        BY <1>2, <1>3, <2>1, AppendElems
  <2>3. \/ incoming' = Append(incoming, x) /\ refused' = refused
        \/ incoming' = incoming /\ refused' = refused \cup {x}
        BY <1>1 DEF add
  <2> QED
        BY <2>2, <2>3, Zenon
<1>7. ASSUME NEW s \in Spans
      PROVE  InOnePlace(s)'
  <2>1. CASE s # x
        BY Zenon, <1>2, <1>4, <1>5, <1>6, <2>1, Unmoved DEF SpanAccounting
  <2>2. CASE s = x
        BY ZenonT(40), SMT, <1>2, <1>3, <1>4, <1>5, <1>6, <2>2 DEF InOnePlace, At, Places
  <2> QED
        BY Zenon, <2>1, <2>2
<1> QED
      BY <1>4, <1>5, <1>6, <1>7 DEF SpanAccounting, Distinct

(* A peer's span is queued or refused.                                     *)
LEMMA SpansAddFromPeer ==
    ASSUME TypeOK, SpanAccounting, AddSpanFromPeer
    PROVE  SpanAccounting'
<1>1. PICK x \in fresh : add(x, fromPeer) /\ UNCHANGED incoming
      BY DEF AddSpanFromPeer
<1>2. x \in Spans /\ fresh' = fresh \ {x} /\ InOnePlace(x)
      BY Zenon, <1>1 DEF TypeOK, add, SpanAccounting
<1>3. /\ x \notin refused /\ x \notin Elems(incoming) /\ x \notin Elems(fromPeer)
      /\ ~Held(x) /\ ~(delivered[x] > 0) /\ x \notin discarded
      BY <1>2, OnlyThere DEF At, Places
<1>4. UNCHANGED <<trace, delivered, discarded, incoming>>
      BY <1>1 DEF add
<1>5. /\ Pending' = Pending /\ Elems(incoming)' = Elems(incoming)
      /\ Elems(fromPeer)' = Elems(fromPeer')
      /\ \A s : Held(s)' <=> Held(s)
      BY <1>4 DEF Pending, Elems, Held
<1>6. \/ /\ refused' = refused /\ Elems(fromPeer') = Elems(fromPeer) \cup {x}
         /\ Distinct(fromPeer')
      \/ /\ refused' = refused \cup {x} /\ fromPeer' = fromPeer
  <2>1. fromPeer \in Seq(Spans) /\ Distinct(fromPeer)
        BY DEF TypeOK, SpanAccounting
  <2>2. /\ Distinct(Append(fromPeer, x))
        /\ Elems(Append(fromPeer, x)) = Elems(fromPeer) \cup {x}
        BY SMT, Z3, <1>2, <1>3, <2>1, AppendElems
  <2>3. \/ fromPeer' = Append(fromPeer, x) /\ refused' = refused
        \/ fromPeer' = fromPeer /\ refused' = refused \cup {x}
        BY <1>1 DEF add
  <2> QED
        BY <2>2, <2>3, Zenon
<1>7. ASSUME NEW s \in Spans
      PROVE  InOnePlace(s)'
  <2>1. CASE s # x
        BY Zenon, <1>2, <1>4, <1>5, <1>6, <2>1, Unmoved DEF SpanAccounting
  <2>2. CASE s = x
        BY <1>2, <1>3, <1>4, <1>5, <1>6, <2>2 DEF InOnePlace, At, Places
  <2> QED
        BY <2>1, <2>2
<1> QED
      BY Zenon, <1>4, <1>5, <1>6, <1>7 DEF SpanAccounting, Distinct

(* The spans of a trace are handed on when it is sent, and are held by no  *)
(* other unsent trace.                                                     *)
LEMMA SpansSend ==
    ASSUME Inv, SpanAccounting, send
    PROVE  SpanAccounting'
<1> DEFINE t == Head(toSend)
<1>1. t \in Spans /\ t \in Elems(toSend)
      BY HeadTailIs DEF Inv, TypeOK, send, Elems
<1>2. UNCHANGED <<incoming, fromPeer>>
      BY DEF send, chanVars
<1>3. CASE trace[t].sent
      BY <1>2, <1>3, SpansQuiet DEF send, spanVars, Pending
<1>4. CASE ~trace[t].sent
  <2> DEFINE S == trace[t].spans
  <2>1. PICK keep \in BOOLEAN : Decide(t, keep)
        BY Zenon, <1>4 DEF send
  <2>2. /\ trace'[t].sent
        /\ \A u \in Spans : u # t => trace'[u] = trace[u]
        BY Zenon, <1>1, <2>1 DEF Decide, Inv, TypeOK
  <2>3. Pending' = Pending \ {t} /\ t \in Pending
        BY <1>1, <1>4, <2>2 DEF Pending, Inv, Safe, Allocated
  <2>4. S \subseteq Spans /\ Pending \subseteq Spans
        BY <1>1 DEF Inv, TypeOK, TraceType, Pending
  <2>5. \A u \in Pending' : u \in Pending /\ u # t /\ trace'[u].spans = trace[u].spans
        BY Zenon, <2>2, <2>3, <2>4
  <2>6. \A s \in S : Held(s) /\ ~Held(s)'
        BY <2>3, <2>5 DEF Held, SpanAccounting
  <2>7. \A s \in Spans \ S : Held(s)' <=> Held(s)
        BY Zenon, <2>3, <2>5 DEF Held
  <2>8. \A s \in S : /\ s \notin fresh /\ s \notin refused /\ s \notin Elems(incoming)
                     /\ s \notin Elems(fromPeer) /\ ~(delivered[s] > 0)
                     /\ s \notin discarded
        BY <2>4, <2>6, OnlyThere DEF SpanAccounting, At, Places
  <2>9. delivered \in [Spans -> Nat]
        BY DEF Inv, TypeOK
  <2>10. /\ UNCHANGED <<fresh, refused>>
         /\ \/ /\ \A s \in Spans : delivered'[s] = IF s \in S THEN delivered[s] + 1
                                                              ELSE delivered[s]
               /\ discarded' = discarded
            \/ /\ discarded' = discarded \cup S
               /\ delivered' = delivered
        BY <2>1, <2>9 DEF Decide, Settle
  <2>11. Elems(incoming)' = Elems(incoming) /\ Elems(fromPeer)' = Elems(fromPeer)
        BY <1>2 DEF Elems
  <2>12. ASSUME NEW s \in Spans
         PROVE  InOnePlace(s)'
    <3>1. CASE s \notin S
          BY <2>7, <2>10, <2>11, <3>1, Unmoved DEF SpanAccounting
    <3>2. CASE s \in S
      <4>1. delivered[s] = 0
            BY SMT, Z3, <2>8, <2>9, <3>2
      <4>2. \/ delivered'[s] > 0 /\ s \notin discarded'
            \/ ~(delivered'[s] > 0) /\ s \in discarded'
            BY SMT, Z3, <2>8, <2>10, <3>2, <4>1
      <4>3. /\ s \notin fresh' /\ s \notin refused' /\ s \notin Elems(incoming)'
            /\ s \notin Elems(fromPeer)' /\ ~Held(s)'
            BY Zenon, <2>6, <2>8, <2>10, <2>11, <3>2
      <4> QED
            BY <4>2, <4>3 DEF InOnePlace, At, Places
    <3> QED
          BY ZenonT(40), SMT, <3>1, <3>2
  <2>13. \A s \in Spans : delivered'[s] <= 1
        BY SMT, Z3, <2>8, <2>9, <2>10 DEF SpanAccounting
  <2> QED
        BY <1>2, <2>5, <2>12, <2>13 DEF SpanAccounting, Distinct
<1> QED
      BY <1>3, <1>4

(* Where processSpan puts the span it took from a channel; no other span   *)
(* moves.                                                                  *)
Landed(sp) ==
    /\ UNCHANGED <<fresh, refused>>
    /\ \A s \in Spans \ {sp} : /\ Held(s)' <=> Held(s)
                               /\ delivered'[s] = delivered[s]
                               /\ s \in discarded' <=> s \in discarded
    /\ \/ Held(sp)' /\ delivered'[sp] = 0 /\ sp \notin discarded'
       \/ ~Held(sp)' /\ delivered'[sp] = 1 /\ sp \notin discarded'
       \/ ~Held(sp)' /\ delivered'[sp] = 0 /\ sp \in discarded'
    /\ \A t, u \in Pending' : t # u => trace'[t].spans \cap trace'[u].spans = {}

(* A span that follows a decision made before.                             *)
LEMMA DealLands ==
    ASSUME TypeOK, SpanAccounting, NEW sp \in Spans, NEW keep,
           ~Held(sp), delivered[sp] = 0, sp \notin discarded,
           dealWithSentTrace(keep, sp),
           Pending' = Pending, \A t \in Pending : trace'[t].spans = trace[t].spans
    PROVE  Landed(sp)
<1>1. \A s : Held(s)' <=> Held(s)
      BY Zenon DEF Held
<1>2. delivered \in [Spans -> Nat]
      BY DEF TypeOK
<1>3. /\ UNCHANGED <<fresh, refused>>
      /\ \/ /\ \A s \in Spans : delivered'[s] = IF s \in {sp} THEN delivered[s] + 1
                                                              ELSE delivered[s]
            /\ discarded' = discarded
         \/ /\ discarded' = discarded \cup {sp}
            /\ delivered' = delivered
      BY <1>2 DEF dealWithSentTrace, Settle
<1>4. UNCHANGED <<fresh, refused>> /\ ~Held(sp)'
      BY <1>1, <1>3
<1>5. \A t, u \in Pending' : t # u => trace'[t].spans \cap trace'[u].spans = {}
      BY Zenon DEF SpanAccounting
<1>6. CASE /\ \A s \in Spans : delivered'[s] = IF s \in {sp} THEN delivered[s] + 1
                                                            ELSE delivered[s]
           /\ discarded' = discarded
  <2>1. delivered'[sp] = 1 /\ \A s \in Spans : s # sp => delivered'[s] = delivered[s]
        BY SMT, Z3, <1>6
  <2> QED
        BY ZenonT(40), SMT, <1>1, <1>4, <1>5, <1>6, <2>1 DEF Landed
<1>7. CASE discarded' = discarded \cup {sp} /\ delivered' = delivered
      BY <1>1, <1>4, <1>5, <1>7 DEF Landed
<1> QED
      BY <1>3, <1>6, <1>7

(* processSpan leaves a span in exactly one place: with its trace,         *)
(* delivered or discarded.                                                 *)
LEMMA ProcessLands ==
    ASSUME Inv, SpanAccounting, NEW sp \in Spans, processSpan(sp),
           ~Held(sp), delivered[sp] = 0, sp \notin discarded
    PROVE  Landed(sp)
<1>1. TypeOK /\ toSend = <<>>
      BY ZenonT(40), SMT DEF Inv, processSpan
<1>2. CASE LateSpan(sp)
  <2>1. UNCHANGED trace
        BY <1>2 DEF LateSpan
  <2>2. Pending' = Pending /\ \A t \in Pending : trace'[t].spans = trace[t].spans
        BY Zenon, <2>1 DEF Pending
  <2> QED
        BY <1>1, <1>2, <2>2, DealLands DEF LateSpan
<1>3. CASE NewTrace(sp)
  <2>1. /\ trace'[sp].spans = {sp} /\ ~trace'[sp].sent
        /\ \A u \in Spans : u # sp => trace'[u] = trace[u]
        BY <1>1, <1>3 DEF NewTrace, TypeOK
  <2>2. sp \notin Pending
    <3>1. Elems(toSend) = {}
          BY SMT, Z3, <1>1 DEF Elems
    <3>2. sp \notin Cached
          BY Zenon, <1>3, CachedAreMapped DEF NewTrace, Inv, Safe
    <3> QED
          BY <3>1, <3>2 DEF Inv, Safe, NothingStranded
  <2>3. Pending' = Pending \cup {sp} /\ Pending \subseteq Spans
        BY Zenon, <2>1 DEF Pending
  <2>4. \A u \in Pending : trace'[u].spans = trace[u].spans
        BY <2>1, <2>2, <2>3
  <2>5. \A s : Held(s)' <=> Held(s) \/ s = sp
        BY <2>1, <2>3, <2>4 DEF Held
  <2>6. \A u \in Pending : sp \notin trace[u].spans
        BY DEF Held
  <2>7. \A t, u \in Pending' : t # u => trace'[t].spans \cap trace'[u].spans = {}
    <3>1. \A t, u \in Pending : t # u => trace'[t].spans \cap trace'[u].spans = {}
          BY Zenon, <2>4 DEF SpanAccounting
    <3>2. \A u \in Pending : trace'[sp].spans \cap trace'[u].spans = {}
          BY Zenon, <2>1, <2>4, <2>6
    <3> QED
          BY Zenon, <2>3, <3>1, <3>2
  <2> QED
        BY ZenonT(40), SMT, <1>3, <2>5, <2>7 DEF Landed, NewTrace, spanVars
<1>4. CASE JoinTrace(sp)
  <2> DEFINE t == cache[TraceOf[sp]]
  <2>1. t \in Spans /\ t \in Cached
        BY ZenonT(40), SMT, <1>1, <1>4, CachedAreSpans, SpansAssumption
        DEF JoinTrace, Inv, TypeOK, Safe, RingMatchesMap
  <2>2. /\ trace'[t].spans = trace[t].spans \cup {sp} /\ trace'[t].sent = trace[t].sent
        /\ \A u \in Spans : u # t => trace'[u] = trace[u]
        BY <1>1, <1>4, <2>1 DEF JoinTrace, TypeOK
  <2>3. trace[t].spans # {}
        BY Zenon, <2>1 DEF Inv, Safe, Allocated
  <2>4. Pending' = Pending /\ Pending \subseteq Spans
        BY Zenon, <2>1, <2>2, <2>3 DEF Pending
  <2>5. CASE trace[t].sent
    <3>1. t \notin Pending
          BY Zenon, <2>5 DEF Pending
    <3> QED
          BY Zenon, <1>1, <1>4, <2>2, <2>4, <2>5, <3>1, DealLands DEF JoinTrace
  <2>6. CASE ~trace[t].sent
    <3>1. t \in Pending
          BY Zenon, <2>1, <2>3, <2>6 DEF Pending
    <3>2. \A s : Held(s)' <=> Held(s) \/ s = sp
          BY Zenon, <2>2, <2>4, <3>1 DEF Held
    <3>3. \A u \in Pending : sp \notin trace[u].spans
          BY DEF Held
    <3>4. \A v, u \in Pending' : v # u => trace'[v].spans \cap trace'[u].spans = {}
      <4>1. \A v, u \in Pending : v # u => trace[v].spans \cap trace[u].spans = {}
            BY DEF SpanAccounting
      <4>2. \A u \in Pending : trace'[u].spans = IF u = t THEN trace[u].spans \cup {sp}
                                                          ELSE trace[u].spans
            BY Zenon, <2>2, <2>4
      <4>3. ASSUME NEW v \in Pending, NEW u \in Pending, v # u
            PROVE  trace'[v].spans \cap trace'[u].spans = {}
        <5>1. trace[v].spans \cap trace[u].spans = {}
              BY Zenon, <4>1, <4>3
        <5>2. sp \notin trace[v].spans /\ sp \notin trace[u].spans
              BY <3>3
        <5>3. CASE v = t
              BY Zenon, <4>2, <4>3, <5>1, <5>2, <5>3
        <5>4. CASE v # t
              BY Zenon, <4>2, <4>3, <5>1, <5>2, <5>4
        <5> QED
              BY <5>3, <5>4
      <4> QED
            BY ZenonT(40), SMT, <2>4, <4>3
    <3> QED
          BY Zenon, <1>4, <2>6, <3>2, <3>4 DEF Landed, JoinTrace, spanVars
  <2> QED
        BY <2>5, <2>6
<1> QED
      BY <1>2, <1>3, <1>4 DEF processSpan

(* The collector takes a span from the peer channel and processes it.      *)
LEMMA SpansFromPeer ==
    ASSUME Inv, SpanAccounting, FromPeer
    PROVE  SpanAccounting'
<1>1. /\ fromPeer \in Seq(Spans) /\ fromPeer # <<>> /\ Distinct(fromPeer)
      /\ delivered \in [Spans -> Nat]
      BY DEF Inv, TypeOK, FromPeer, SpanAccounting
<1>a. PICK sp \in Spans : sp = Head(fromPeer)
      BY <1>1, HeadTailIs
<1>2. /\ sp \in Elems(fromPeer) /\ Distinct(fromPeer')
      /\ Elems(fromPeer') = Elems(fromPeer) \ {sp} /\ incoming' = incoming
      BY ZenonT(40), SMT, <1>1, <1>a, TailElems DEF FromPeer
<1>3. /\ sp \notin fresh /\ sp \notin refused /\ sp \notin Elems(incoming)
      /\ ~Held(sp) /\ ~(delivered[sp] > 0) /\ sp \notin discarded
      BY <1>2, OnlyThere DEF SpanAccounting, At, Places
<1>4. delivered[sp] = 0
      BY <1>1, <1>2, <1>3
<1>5. Landed(sp)
      BY ZenonT(40), SMT, <1>a, <1>3, <1>4, ProcessLands DEF FromPeer
<1>6. /\ Elems(fromPeer)' = Elems(fromPeer') /\ Elems(incoming)' = Elems(incoming)
      BY <1>2 DEF Elems
<1>7. ASSUME NEW s \in Spans
      PROVE  InOnePlace(s)' /\ delivered'[s] <= 1
  <2>1. CASE s # sp
        BY Zenon, <1>2, <1>5, <1>6, <2>1, Unmoved DEF SpanAccounting, Landed
  <2>2. CASE s = sp
    <3>1. /\ sp \notin fresh' /\ sp \notin refused'
          /\ sp \notin Elems(incoming)' /\ sp \notin Elems(fromPeer)'
          BY <1>2, <1>3, <1>5, <1>6 DEF Landed
    <3>2. CASE Held(sp)' /\ delivered'[sp] = 0 /\ sp \notin discarded'
          BY <2>2, <3>1, <3>2 DEF InOnePlace, At, Places
    <3>3. CASE ~Held(sp)' /\ delivered'[sp] = 1 /\ sp \notin discarded'
          BY SMT, Z3, <2>2, <3>1, <3>3 DEF InOnePlace, At, Places
    <3>4. CASE ~Held(sp)' /\ delivered'[sp] = 0 /\ sp \in discarded'
          BY SMT, Z3, <2>2, <3>1, <3>4 DEF InOnePlace, At, Places
    <3> QED
          BY ZenonT(40), SMT, <1>5, <3>2, <3>3, <3>4 DEF Landed
  <2> QED
        BY Zenon, <2>1, <2>2
<1> QED
      BY ZenonT(40), SMT, <1>2, <1>5, <1>7 DEF SpanAccounting, Landed, Distinct

(* The collector takes a span from the channel of client spans and         *)
(* processes it.                                                           *)
LEMMA SpansFromIncoming ==
    ASSUME Inv, SpanAccounting, FromIncoming
    PROVE  SpanAccounting'
<1>1. /\ incoming \in Seq(Spans) /\ incoming # <<>> /\ Distinct(incoming)
      /\ delivered \in [Spans -> Nat]
      BY DEF Inv, TypeOK, FromIncoming, SpanAccounting
<1>a. PICK sp \in Spans : sp = Head(incoming)
      BY <1>1, HeadTailIs
<1>2. /\ sp \in Elems(incoming) /\ Distinct(incoming')
      /\ Elems(incoming') = Elems(incoming) \ {sp} /\ fromPeer' = fromPeer
      BY ZenonT(40), SMT, <1>1, <1>a, TailElems DEF FromIncoming
<1>3. /\ sp \notin fresh /\ sp \notin refused /\ sp \notin Elems(fromPeer)
      /\ ~Held(sp) /\ ~(delivered[sp] > 0) /\ sp \notin discarded
      BY <1>2, OnlyThere DEF SpanAccounting, At, Places
<1>4. delivered[sp] = 0
      BY <1>1, <1>2, <1>3
<1>5. Landed(sp)
      BY Zenon, <1>a, <1>3, <1>4, ProcessLands DEF FromIncoming
<1>6. /\ Elems(incoming)' = Elems(incoming') /\ Elems(fromPeer)' = Elems(fromPeer)
      BY <1>2 DEF Elems
<1>7. ASSUME NEW s \in Spans
      PROVE  InOnePlace(s)' /\ delivered'[s] <= 1
  <2>1. CASE s # sp
        BY ZenonT(40), SMT, <1>2, <1>5, <1>6, <2>1, Unmoved DEF SpanAccounting, Landed
  <2>2. CASE s = sp
    <3>1. /\ sp \notin fresh' /\ sp \notin refused'
          /\ sp \notin Elems(incoming)' /\ sp \notin Elems(fromPeer)'
          BY ZenonT(40), SMT, <1>2, <1>3, <1>5, <1>6 DEF Landed
    <3>2. CASE Held(sp)' /\ delivered'[sp] = 0 /\ sp \notin discarded'
          BY <2>2, <3>1, <3>2 DEF InOnePlace, At, Places
    <3>3. CASE ~Held(sp)' /\ delivered'[sp] = 1 /\ sp \notin discarded'
          BY <2>2, <3>1, <3>3 DEF InOnePlace, At, Places
    <3>4. CASE ~Held(sp)' /\ delivered'[sp] = 0 /\ sp \in discarded'
          BY <2>2, <3>1, <3>4 DEF InOnePlace, At, Places
    <3> QED
          BY <1>5, <3>2, <3>3, <3>4 DEF Landed
  <2> QED
        BY <2>1, <2>2
<1> QED
      BY ZenonT(40), SMT, <1>2, <1>5, <1>7 DEF SpanAccounting, Landed, Distinct

(* Every step of the collector, its clients and Stop accounts for every    *)
(* span.                                                                   *)
LEMMA SpansNext ==
    ASSUME Inv, SpanAccounting, [Next]_vars
    PROVE  SpanAccounting'
<1>1. CASE AddSpan \/ AddSpanFromPeer
      BY <1>1, SpansAddIncoming, SpansAddFromPeer DEF Inv
<1>2. CASE Elapse
  <2>1. \A t \in Spans : /\ trace'[t].spans = trace[t].spans
                         /\ trace'[t].sent = trace[t].sent
        BY <1>2 DEF Elapse, Aged, Inv, TypeOK
  <2>2. Pending' = Pending /\ Pending \subseteq Spans
        BY Zenon, <2>1 DEF Pending
  <2> QED
        BY ZenonT(40), SMT, <1>2, <2>1, <2>2, SpansQuiet DEF Elapse, spanVars, chanVars
<1>3. CASE send
      BY <1>3, SpansSend
<1>4. CASE FromPeer \/ FromIncoming
      BY <1>4, SpansFromPeer, SpansFromIncoming
<1>5. ASSUME UNCHANGED <<spanVars, incoming, fromPeer, trace>>
      PROVE  SpanAccounting'
  <2>1. Pending' = Pending /\ \A t \in Pending : trace'[t].spans = trace[t].spans
        BY Zenon, <1>5 DEF Pending
  <2> QED
        BY <1>5, <2>1, SpansQuiet DEF spanVars
<1>6. CASE \/ ChangeConfig \/ sendReloadSignal \/ CycleFilter \/ NoPeerSpan
           \/ IncomingClosed \/ Tick \/ CheckAlloc \/ Relock
      BY ZenonT(40), SMT, <1>5, <1>6 DEF ChangeConfig, sendReloadSignal, CycleFilter, NoPeerSpan,
                        IncomingClosed, Tick, CheckAlloc, Relock, chanVars
<1>7. CASE reloadConfigs \/ EndReload \/ Stop \/ Purge \/ EndStop \/ UNCHANGED vars
      BY <1>5, <1>7 DEF reloadConfigs, EndReload, Stop, Purge, EndStop, vars, chanVars
<1> QED
      BY <1>1, <1>2, <1>3, <1>4, <1>6, <1>7 DEF Next

(* At Start no client has sent any span.                                   *)
LEMMA SpansInit ==
    ASSUME Init
    PROVE  SpanAccounting
<1>1. Pending = {} /\ Elems(incoming) = {} /\ Elems(fromPeer) = {}
      BY DEF Init, Pending, NoTrace, Elems
<1>2. ASSUME NEW s \in Spans
      PROVE  InOnePlace(s) /\ delivered[s] <= 1
  <2>1. s \in fresh /\ s \notin refused /\ delivered[s] = 0 /\ s \notin discarded
        BY DEF Init
  <2>2. \A q \in Places : At(s, q) <=> "fresh" = q
        BY <1>1, <2>1 DEF At, Places, Held
  <2> QED
        BY <2>1, <2>2 DEF InOnePlace, Places
<1>3. Distinct(incoming) /\ Distinct(fromPeer)
      BY DEF Init, Distinct
<1> QED
      BY Zenon, <1>1, <1>2, <1>3 DEF SpanAccounting

(* Every span is in exactly one place: none is lost, delivered twice, or   *)
(* both delivered and dropped.                                             *)
THEOREM SpansAccountedFor == Spec => []SpanAccounting
<1>1. Init => SpanAccounting
      BY SpansInit
<1>2. Inv /\ SpanAccounting /\ [Next]_vars => SpanAccounting'
      BY Zenon, SpansNext
<1> QED
      BY <1>1, <1>2, Invariance, PTL DEF Spec

-----------------------------------------------------------------------------
(* The collector implements TraceVerdicts.  What the mapping needs of the  *)
(* remembered decisions: a trace to be sent shares its ID with no sent     *)
(* trace in the cache; a trace holds spans of its own ID only; a sent      *)
(* trace that Stop left in the cache and the sent cache say the same of an *)
(* ID; and the ranks of the LRU stay below its size.                       *)
Sole == \A t \in Pending : cache[TraceOf[t]] # Nil => ~trace[cache[TraceOf[t]]].sent

OwnSpans == \A t \in Spans : \A s \in trace[t].spans : TraceOf[s] = TraceOf[t]

Agree == \A t \in Cached : trace[t].sent /\ TraceOf[t] \in DOMAIN lru =>
                              (lru[TraceOf[t]].keep <=> trace[t].keep)

Fits == \A id \in DOMAIN lru : lru[id].rank < sentSize

Memory == Sole /\ OwnSpans /\ (SentCacheType = "legacy" => Agree /\ Fits)

(* At Start there is no trace and no decision.                             *)
LEMMA MemoryInit ==
    ASSUME Init
    PROVE  Memory
<1>1. Pending = {} /\ Cached = {}
      BY ZenonT(40), SMT, NewCacheRing, CollectorAssumption DEF Init, Config, Pending, NoTrace
<1>2. OwnSpans
      BY DEF Init, NoTrace, OwnSpans
<1>3. Fits
      BY DEF Init, NewSentCache, Fits
<1> QED
      BY Zenon, <1>1, <1>2, <1>3 DEF Memory, Sole, Agree

(* Traces keep what they hold and how they were decided.                   *)
SameTraces == \A t \in Spans : /\ trace'[t].spans = trace[t].spans
                               /\ trace'[t].sent <=> trace[t].sent
                               /\ trace'[t].keep <=> trace[t].keep

(* Traces may leave the cache, and none comes in.                          *)
CacheShrinks == /\ Cached' \subseteq Cached
                /\ \A id \in TraceIDs : cache'[id] \in {cache[id], Nil}

(* A step that brings no trace into the cache leaves an ID its trace or    *)
(* none.                                                                   *)
LEMMA Shrinks ==
    ASSUME TypeOK, TypeOK', RingMatchesMap, RingMatchesMap', Cached' \subseteq Cached
    PROVE  CacheShrinks
<1>1. ASSUME NEW id \in TraceIDs, cache'[id] # Nil
      PROVE  cache'[id] = cache[id]
  <2>1. cache'[id] \in Cached' /\ TraceOf[cache'[id]] = id
        BY <1>1 DEF RingMatchesMap
  <2>2. cache[TraceOf[cache'[id]]] = cache'[id]
        BY <2>1, CachedAreMapped
  <2> QED
        BY ZenonT(40), SMT, <2>1, <2>2
<1> QED
      BY <1>1 DEF CacheShrinks

(* Steps that decide nothing: clients, timers, configuration, expiry,      *)
(* memory overrun and reload.                                              *)
LEMMA MemoryMoves ==
    ASSUME Inv, Memory, SameTraces, CacheShrinks, UNCHANGED <<lru, sentSize>>
    PROVE  Memory'
<1>1. Cached \subseteq Spans /\ Pending \subseteq Spans
      BY ZenonT(40), SMT, CachedAreSpans DEF Inv, TypeOK, Pending
<1>2. Pending' = Pending
      BY Zenon DEF SameTraces, Pending
<1>3. OwnSpans'
      BY Zenon DEF Memory, OwnSpans, SameTraces
<1>4. Sole'
  <2> SUFFICES ASSUME NEW t \in Pending', cache'[TraceOf[t]] # Nil
               PROVE  ~trace'[cache'[TraceOf[t]]].sent
        BY DEF Sole
  <2>1. TraceOf[t] \in TraceIDs /\ t \in Pending
        BY <1>1, <1>2, SpansAssumption
  <2>2. cache'[TraceOf[t]] = cache[TraceOf[t]]
        BY Zenon, <2>1 DEF CacheShrinks
  <2>3. cache[TraceOf[t]] \in Spans
        BY Zenon, <2>1, <2>2 DEF Inv, TypeOK, CacheTypeOK
  <2>4. ~trace[cache[TraceOf[t]]].sent
        BY Zenon, <2>1, <2>2 DEF Memory, Sole
  <2> QED
        BY Zenon, <2>2, <2>3, <2>4 DEF SameTraces
<1>5. SentCacheType = "legacy" => Agree' /\ Fits'
      BY Zenon, <1>1 DEF Memory, Agree, Fits, SameTraces, CacheShrinks
<1> QED
      BY <1>3, <1>4, <1>5 DEF Memory

(* A trace is sent: the one trace to be sent that has its ID, and so the   *)
(* only one in the cache with that ID if there is one.                     *)
LEMMA SentTrace ==
    ASSUME Inv, send, NEW t, t = Head(toSend), ~trace[t].sent
    PROVE  /\ t \in Spans /\ t \in Pending /\ TraceOf[t] \in TraceIDs
           /\ cache[TraceOf[t]] # Nil /\ ~trace[cache[TraceOf[t]]].sent =>
                 cache[TraceOf[t]] = t
<1>1. t \in Spans /\ t \in Elems(toSend)
      BY SMT, Z3, HeadTailIs DEF Inv, TypeOK, send, Elems
<1>2. t \in Pending /\ TraceOf[t] \in TraceIDs
      BY <1>1, SpansAssumption DEF Inv, Safe, Allocated, Pending
<1>3. ASSUME cache[TraceOf[t]] # Nil, ~trace[cache[TraceOf[t]]].sent
      PROVE  cache[TraceOf[t]] = t
  <2> DEFINE u == cache[TraceOf[t]]
  <2>1. u \in Cached /\ TraceOf[u] = TraceOf[t]
        BY <1>2, <1>3 DEF Inv, Safe, RingMatchesMap
  <2>2. u \in Pending
        BY ZenonT(40), SMT, <1>3, <2>1, CachedAreSpans DEF Inv, TypeOK, Safe, Allocated, Pending
  <2> QED
        BY ZenonT(40), SMT, <1>2, <2>1, <2>2 DEF Inv, Safe, OneTrace
<1> QED
      BY ZenonT(40), SMT, <1>1, <1>2, <1>3

(* What recording a decision and looking one up do to the LRU.             *)
LEMMA UseKeeps ==
    ASSUME SentTypeOK, Fits, NEW id \in TraceIDs, NEW keep \in BOOLEAN
    PROVE  /\ id \in DOMAIN Use(id, keep) /\ (Use(id, keep)[id].keep <=> keep)
           /\ \A j \in DOMAIN Use(id, keep) : Use(id, keep)[j].rank < sentSize
           /\ \A j \in DOMAIN Use(id, keep) : j # id =>
                 j \in DOMAIN lru /\ (Use(id, keep)[j].keep <=> lru[j].keep)
           /\ id \in DOMAIN lru => DOMAIN Use(id, keep) = DOMAIN lru
<1>1. sentSize \in Nat \ {0} /\ \A j \in DOMAIN lru : lru[j].rank \in Nat
      BY DEF SentTypeOK
<1>2. Rank(id, id) = 0
      BY DEF Rank
<1>3. ASSUME id \in DOMAIN lru, NEW j \in DOMAIN lru
      PROVE  Rank(id, j) < sentSize
      BY <1>1, <1>3 DEF Rank, Fits
<1>4. id \in DOMAIN lru => DOMAIN Use(id, keep) = DOMAIN lru
      BY ZenonT(40), SMT, <1>3 DEF Use
<1>5. id \in DOMAIN Use(id, keep) /\ (Use(id, keep)[id].keep <=> keep)
      BY <1>1, <1>2 DEF Use
<1>6. \A j \in DOMAIN Use(id, keep) : Use(id, keep)[j].rank < sentSize
      BY ZenonT(40), SMT DEF Use
<1>7. \A j \in DOMAIN Use(id, keep) : j # id =>
                 j \in DOMAIN lru /\ (Use(id, keep)[j].keep <=> lru[j].keep)
      BY DEF Use
<1> QED
      BY Zenon, <1>4, <1>5, <1>6, <1>7

(* send keeps the memory: what it records of an ID agrees with the trace   *)
(* it decides.                                                             *)
LEMMA MemorySend ==
    ASSUME Inv, Memory, send
    PROVE  Memory'
<1> PICK t : t = Head(toSend)
      BY Zenon
<1>0. UNCHANGED cacheVars /\ Cached' = Cached /\ Cached \subseteq Spans
      BY CacheUnchanged, CachedAreSpans DEF send, Inv, TypeOK, Safe
<1>1. CASE trace[t].sent
  <2>1. UNCHANGED <<trace, lru, sentSize>>
        BY <1>1 DEF send, sentVars
  <2>2. SameTraces /\ CacheShrinks
        BY <1>0, <2>1 DEF SameTraces, CacheShrinks, cacheVars
  <2> QED
        BY <2>1, <2>2, MemoryMoves
<1>2. CASE ~trace[t].sent
  <2>1. /\ t \in Spans /\ t \in Pending /\ TraceOf[t] \in TraceIDs
        /\ cache[TraceOf[t]] # Nil /\ ~trace[cache[TraceOf[t]]].sent =>
              cache[TraceOf[t]] = t
        BY <1>2, SentTrace
  <2>2. PICK keep \in BOOLEAN : Decide(t, keep)
        BY Zenon, <1>2 DEF send
  <2>3. /\ trace'[t].sent /\ (trace'[t].keep <=> keep) /\ trace'[t].spans = trace[t].spans
        /\ \A u \in Spans : u # t => trace'[u] = trace[u]
        BY ZenonT(40), SMT, <2>1, <2>2 DEF Decide, Inv, TypeOK
  <2>4. Pending' = Pending \ {t}
        BY <2>1, <2>3 DEF Pending
  <2>5. OwnSpans'
        BY ZenonT(40), SMT, <2>3 DEF OwnSpans, Memory
  <2>6. Sole'
    <3> SUFFICES ASSUME NEW u \in Pending', cache'[TraceOf[u]] # Nil
                 PROVE  ~trace'[cache'[TraceOf[u]]].sent
          BY Zenon DEF Sole
    <3>1. u \in Pending /\ u # t /\ u \in Spans /\ TraceOf[u] # TraceOf[t]
          BY Zenon, <2>1, <2>4 DEF Pending, Inv, Safe, OneTrace
    <3>2. TraceOf[u] \in TraceIDs /\ cache'[TraceOf[u]] = cache[TraceOf[u]]
          BY <1>0, <3>1, SpansAssumption DEF cacheVars
    <3>3. ~trace[cache[TraceOf[u]]].sent
          BY ZenonT(40), SMT, <3>1, <3>2 DEF Memory, Sole
    <3>4. cache[TraceOf[u]] \in Spans /\ TraceOf[cache[TraceOf[u]]] = TraceOf[u]
          BY Zenon, <3>2, CachedAreSpans DEF Inv, TypeOK, Safe, RingMatchesMap
    <3> QED
          BY <2>3, <3>1, <3>2, <3>3, <3>4
  <2>7. ASSUME SentCacheType = "legacy"
        PROVE  Agree' /\ Fits'
    <3>1. lru' = Use(TraceOf[t], keep) /\ sentSize' = sentSize
          BY <2>2, <2>7 DEF Decide, Record
    <3>2. SentTypeOK /\ Fits /\ Agree
          BY Zenon, <2>7 DEF Inv, TypeOK, Memory
    <3>3. /\ TraceOf[t] \in DOMAIN lru' /\ (lru'[TraceOf[t]].keep <=> keep)
          /\ \A j \in DOMAIN lru' : lru'[j].rank < sentSize
          /\ \A j \in DOMAIN lru' : j # TraceOf[t] =>
                j \in DOMAIN lru /\ (lru'[j].keep <=> lru[j].keep)
          BY ZenonT(40), SMT, <2>1, <3>1, <3>2, UseKeeps
    <3>4. Fits'
          BY Zenon, <3>1, <3>3 DEF Fits
    <3>5. ASSUME NEW u \in Cached, trace'[u].sent, TraceOf[u] \in DOMAIN lru'
          PROVE  lru'[TraceOf[u]].keep <=> trace'[u].keep
      <4>1. CASE u = t
            BY Zenon, <2>3, <3>3, <4>1
      <4>2. CASE u # t
        <5>1. trace'[u] = trace[u] /\ trace[u].sent
              BY Zenon, <1>0, <2>3, <3>5, <4>2
        <5>2. cache[TraceOf[u]] = u /\ u # Nil
              BY Zenon, CachedAreMapped DEF Inv, Safe
        <5>3. TraceOf[u] # TraceOf[t]
              BY ZenonT(40), SMT, <2>1, <5>1, <5>2 DEF Memory, Sole
        <5> QED
              BY Zenon, <3>2, <3>3, <3>5, <5>1, <5>3 DEF Agree
      <4> QED
            BY Zenon, <4>1, <4>2
    <3> QED
          BY ZenonT(40), SMT, <1>0, <3>4, <3>5 DEF Agree
  <2> QED
        BY ZenonT(40), SMT, <2>5, <2>6, <2>7 DEF Memory
<1> QED
      BY <1>1, <1>2

(* A late span renews the record of its ID and pushes none out.            *)
LEMMA LateKeeps ==
    ASSUME SentTypeOK, Fits, NEW id \in TraceIDs, Found(id), CheckHit(id)
    PROVE  /\ DOMAIN lru' = DOMAIN lru
           /\ \A j \in DOMAIN lru : lru'[j].keep <=> lru[j].keep
           /\ Fits'
<1>1. id \in DOMAIN lru /\ lru[id].keep \in BOOLEAN
      BY DEF SentTypeOK, Found
<1>2. lru' = Use(id, lru[id].keep) /\ sentSize' = sentSize
      BY ZenonT(40), SMT DEF CheckHit
<1>3. /\ DOMAIN lru' = DOMAIN lru
      /\ \A j \in DOMAIN lru' : lru'[j].rank < sentSize
      /\ \A j \in DOMAIN lru' : lru'[j].keep <=> lru[j].keep
      BY <1>1, <1>2, UseKeeps
<1> QED
      BY ZenonT(40), SMT, <1>2, <1>3 DEF Fits

(* So a late span keeps the memory.                                        *)
LEMMA MemoryLate ==
    ASSUME Inv, Memory, NEW sp \in Spans, LateSpan(sp)
    PROVE  Memory'
<1>1. UNCHANGED cacheVars /\ UNCHANGED trace /\ Cached' = Cached /\ Pending' = Pending
      BY Zenon, CacheUnchanged DEF LateSpan, Pending
<1>2. Sole' /\ OwnSpans'
      BY Zenon, <1>1 DEF Memory, Sole, OwnSpans, cacheVars
<1>3. ASSUME SentCacheType = "legacy"
      PROVE  Agree' /\ Fits'
  <2>1. /\ DOMAIN lru' = DOMAIN lru /\ Fits'
        /\ \A j \in DOMAIN lru : lru'[j].keep <=> lru[j].keep
        BY Zenon, <1>3, LateKeeps, SpansAssumption DEF Memory, Inv, TypeOK, LateSpan
  <2> QED
        BY Zenon, <1>1, <1>3, <2>1 DEF Memory, Agree
<1> QED
      BY Zenon, <1>2, <1>3 DEF Memory

(* A new trace is unsent, and the one it overwrites leaves the cache.      *)
LEMMA NewTraceIs ==
    ASSUME Inv, NEW sp \in Spans, NewTrace(sp)
    PROVE  /\ trace'[sp].spans = {sp} /\ ~trace'[sp].sent
           /\ \A u \in Spans : u # sp => trace'[u] = trace[u]
           /\ RingMatchesMap' /\ sp \notin Cached /\ Cached' \subseteq Cached \cup {sp}
           /\ \A id \in TraceIDs : cache'[id] \in {cache[id], sp, Nil}
<1>1. trace \in [Spans -> TraceType] /\ CacheTypeOK /\ RingMatchesMap
      BY DEF Inv, TypeOK, Safe
<1>2. /\ trace'[sp].spans = {sp} /\ ~trace'[sp].sent
      /\ \A u \in Spans : u # sp => trace'[u] = trace[u]
      BY Zenon, <1>1 DEF NewTrace
<1>3. RingMatchesMap' /\ Cached' = (Cached \ {Overwritten}) \cup {sp}
      BY Zenon, <1>1, SetRing DEF NewTrace
<1>4. sp \notin Cached
      BY Zenon, <1>1, CachedAreMapped DEF NewTrace
<1>5. ASSUME NEW id \in TraceIDs, cache'[id] # Nil, cache'[id] # sp
      PROVE  cache'[id] = cache[id]
  <2>1. cache'[id] \in Cached /\ TraceOf[cache'[id]] = id
        BY <1>3, <1>5 DEF RingMatchesMap
  <2> QED
        BY ZenonT(40), SMT, <1>1, <2>1, CachedAreMapped
<1> QED
      BY Zenon, <1>2, <1>3, <1>4, <1>5

(* A span with which a trace begins keeps the memory.                      *)
LEMMA MemoryNew ==
    ASSUME Inv, Memory, NEW sp \in Spans, toSend = <<>>, NewTrace(sp)
    PROVE  Memory'
<1>1. /\ trace'[sp].spans = {sp} /\ ~trace'[sp].sent
      /\ \A u \in Spans : u # sp => trace'[u] = trace[u]
      /\ RingMatchesMap' /\ sp \notin Cached /\ Cached' \subseteq Cached \cup {sp}
      /\ \A id \in TraceIDs : cache'[id] \in {cache[id], sp, Nil}
      BY NewTraceIs
<1>2. Cached \subseteq Spans
      BY ZenonT(40), SMT, CachedAreSpans DEF Inv, TypeOK
<1>3. OwnSpans'
      BY Zenon, <1>1 DEF Memory, OwnSpans
<1>4. Sole'
  <2> SUFFICES ASSUME NEW t \in Pending', cache'[TraceOf[t]] # Nil
               PROVE  ~trace'[cache'[TraceOf[t]]].sent
        BY Zenon DEF Sole
  <2>1. TraceOf[t] \in TraceIDs /\ t \in Spans
        BY SpansAssumption DEF Pending
  <2>2. CASE cache'[TraceOf[t]] = sp
        BY ZenonT(40), SMT, <1>1, <2>2
  <2>3. CASE cache'[TraceOf[t]] # sp
    <3>1. /\ cache'[TraceOf[t]] = cache[TraceOf[t]]
          /\ cache[TraceOf[t]] \in Cached /\ cache[TraceOf[t]] \in Spans
          BY ZenonT(40), SMT, <1>1, <1>2, <2>1, <2>3 DEF Inv, Safe, RingMatchesMap
    <3>2. t # sp
          BY Zenon, <3>1 DEF NewTrace
    <3>3. t \in Pending
          BY Zenon, <1>1, <2>1, <3>2 DEF Pending
    <3>4. ~trace[cache[TraceOf[t]]].sent
          BY ZenonT(40), SMT, <3>1, <3>3 DEF Memory, Sole
    <3> QED
          BY Zenon, <1>1, <2>3, <3>1, <3>4
  <2> QED
        BY Zenon, <2>2, <2>3
<1>5. ASSUME SentCacheType = "legacy"
      PROVE  Agree' /\ Fits'
  <2>1. UNCHANGED <<lru, sentSize>>
        BY ZenonT(40) DEF NewTrace, sentVars
  <2> QED
        BY <1>1, <1>2, <1>5, <2>1 DEF Memory, Agree, Fits
<1> QED
      BY ZenonT(40), SMT, <1>3, <1>4, <1>5 DEF Memory

(* A span joins the trace of its ID.                                       *)
Joined(sp, t) ==
    /\ t \in Cached /\ t \in Spans /\ TraceOf[t] = TraceOf[sp]
    /\ trace'[t].spans = trace[t].spans \cup {sp}
    /\ \A u \in Spans : u # t => trace'[u].spans = trace[u].spans
    /\ \A u \in Spans : /\ trace'[u].sent <=> trace[u].sent
                        /\ trace'[u].keep <=> trace[u].keep
    /\ UNCHANGED <<cacheVars, sentVars>>

(* That is what JoinTrace does.                                            *)
LEMMA JoinIs ==
    ASSUME Inv, NEW sp \in Spans, JoinTrace(sp), NEW t, t = cache[TraceOf[sp]]
    PROVE  Joined(sp, t)
<1>1. t \in Cached /\ TraceOf[t] = TraceOf[sp] /\ t \in Spans
      BY Zenon, SpansAssumption, CachedAreSpans
      DEF JoinTrace, Inv, TypeOK, Safe, RingMatchesMap
<1>2. trace \in [Spans -> TraceType]
      BY Zenon DEF Inv, TypeOK
<1> QED
      BY Zenon, <1>1, <1>2 DEF JoinTrace, Joined

(* A span that joins a trace keeps the memory.                             *)
LEMMA MemoryJoin ==
    ASSUME Inv, Memory, NEW sp \in Spans, JoinTrace(sp)
    PROVE  Memory'
<1> PICK t : t = cache[TraceOf[sp]]
      OBVIOUS
<1>1. /\ t \in Cached /\ t \in Spans /\ TraceOf[t] = TraceOf[sp]
      /\ trace'[t].spans = trace[t].spans \cup {sp}
      /\ \A u \in Spans : u # t => trace'[u].spans = trace[u].spans
      /\ \A u \in Spans : /\ trace'[u].sent <=> trace[u].sent
                          /\ trace'[u].keep <=> trace[u].keep
      /\ UNCHANGED <<cacheVars, sentVars>>
  <2>1. Joined(sp, t)
        BY Zenon, JoinIs
  <2> QED
        BY Zenon, <2>1 DEF Joined
<1>2. Cached' = Cached /\ Cached \subseteq Spans
      BY Zenon, <1>1, CacheUnchanged, CachedAreSpans DEF Inv, TypeOK
<1>3. Pending' = Pending
  <2>1. trace[t].spans # {}
        BY Zenon, <1>1 DEF Inv, Safe, Allocated
  <2> QED
        BY Zenon, <1>1, <2>1 DEF Pending
<1>4. OwnSpans'
      BY ZenonT(40), SMT, <1>1 DEF Memory, OwnSpans
<1>5. Sole'
  <2>1. \A u \in Pending : TraceOf[u] \in TraceIDs
        BY Zenon, SpansAssumption DEF Pending
  <2>2. \A id \in TraceIDs : cache[id] # Nil => cache[id] \in Spans
        BY DEF Inv, TypeOK, CacheTypeOK
  <2> QED
        BY Zenon, <1>1, <1>3, <2>1, <2>2 DEF Memory, Sole, cacheVars
<1>6. SentCacheType = "legacy" => Agree' /\ Fits'
      BY Zenon, <1>1, <1>2 DEF Memory, Agree, Fits, sentVars
<1> QED
      BY Zenon, <1>4, <1>5, <1>6 DEF Memory

(* Steps that only age traces or let them leave the cache.                 *)
Moves == SameTraces /\ CacheShrinks /\ UNCHANGED <<lru, sentSize>>

(* The steps that take a span from a channel and process it.               *)
Process == FromPeer \/ FromIncoming

(* Steps that leave traces, cache and decisions alone are such steps.      *)
LEMMA QuietMoves ==
    ASSUME UNCHANGED <<cacheVars, trace, lru, sentSize>>
    PROVE  Moves
<1>1. Cached' = Cached
      BY CacheUnchanged
<1> QED
      BY <1>1 DEF Moves, SameTraces, CacheShrinks, cacheVars

(* Every step but sending and processing a span is such a step.            *)
LEMMA OthersMove ==
    ASSUME SentCacheType = "legacy", Inv, Inv', [Next]_vars, ~send, ~Process
    PROVE  Moves
<1>1. CASE AddSpan \/ AddSpanFromPeer
      BY <1>1, QuietMoves DEF AddSpan, AddSpanFromPeer, add, sentVars
<1>2. CASE Elapse
  <2>1. SameTraces
        BY ZenonT(40), SMT, <1>2 DEF Elapse, Aged, SameTraces, Inv, TypeOK
  <2>2. CacheShrinks /\ UNCHANGED <<lru, sentSize>>
        BY Zenon, <1>2, CacheUnchanged DEF Elapse, CacheShrinks, cacheVars, sentVars
  <2> QED
        BY Zenon, <2>1, <2>2 DEF Moves
<1>3. CASE ChangeConfig \/ sendReloadSignal
      BY <1>3, QuietMoves DEF ChangeConfig, sendReloadSignal, sentVars
<1>4. CASE CycleFilter
      BY Zenon, <1>4 DEF CycleFilter, Cycle
<1>5. CASE NoPeerSpan \/ IncomingClosed \/ Relock
      BY Zenon, <1>5, QuietMoves DEF NoPeerSpan, IncomingClosed, Relock, sentVars
<1>6. CASE EndReload
      BY Zenon, <1>6, QuietMoves DEF EndReload, Resize
<1>7. CASE Stop \/ Purge \/ EndStop
      BY Zenon, <1>7, QuietMoves DEF Stop, Purge, EndStop, sentVars
<1>8. CASE UNCHANGED vars
      BY Zenon, <1>8, QuietMoves DEF vars, sentVars
<1>9. CASE Tick \/ CheckAlloc \/ reloadConfigs
  <2>1. Cached' \subseteq Cached
        BY Zenon, <1>9, SafeTick, SafeCheckAlloc, SafeReload
  <2>2. CacheShrinks
        BY ZenonT(40), SMT, <2>1, Shrinks DEF Inv, Safe
  <2>3. UNCHANGED <<trace, lru, sentSize>>
        BY <1>9 DEF Tick, CheckAlloc, reloadConfigs, sentVars
  <2> QED
        BY Zenon, <2>2, <2>3 DEF Moves, SameTraces
<1> QED
      BY ZenonT(40), SMT, <1>1, <1>2, <1>3, <1>4, <1>5, <1>6, <1>7, <1>8, <1>9 DEF Next, Process

(* The span that a select takes from a channel.                            *)
LEMMA Processed ==
    ASSUME Inv, Process
    PROVE  \E sp \in Spans : /\ processSpan(sp)
                             /\ sp \in Elems(incoming) \/ sp \in Elems(fromPeer)
<1>1. CASE FromPeer
  <2>1. Head(fromPeer) \in Spans /\ Head(fromPeer) \in Elems(fromPeer)
        BY SMT, Z3, <1>1, HeadTailIs DEF FromPeer, Inv, TypeOK, Elems
  <2> QED
        BY Zenon, <1>1, <2>1 DEF FromPeer
<1>2. CASE FromIncoming
  <2>1. Head(incoming) \in Spans /\ Head(incoming) \in Elems(incoming)
        BY SMT, Z3, <1>2, HeadTailIs DEF FromIncoming, Inv, TypeOK, Elems
  <2> QED
        BY Zenon, <1>2, <2>1 DEF FromIncoming
<1> QED
      BY <1>1, <1>2 DEF Process

(* Every step keeps the memory.                                            *)
LEMMA MemoryNext ==
    ASSUME SentCacheType = "legacy", Inv, Inv', Memory, [Next]_vars
    PROVE  Memory'
<1>1. CASE send
      BY Zenon, <1>1, MemorySend
<1>2. CASE Process
  <2>1. PICK sp \in Spans : processSpan(sp)
        BY <1>2, Processed
  <2> QED
        BY Zenon, <2>1, MemoryLate, MemoryNew, MemoryJoin DEF processSpan
<1>3. CASE ~send /\ ~Process
      BY Zenon, <1>3, OthersMove, MemoryMoves DEF Moves
<1> QED
      BY <1>1, <1>2, <1>3

-----------------------------------------------------------------------------
(* The mapping.  What the status of a span depends on.                     *)
LEMMA StatusHeld ==
    ASSUME NEW s \in Spans, delivered[s] \in Nat
    PROVE  (statusOf[s] = "held") <=> /\ s \notin fresh /\ s \notin refused
                                      /\ s \notin discarded /\ delivered[s] = 0
BY DEF statusOf

(* The status of a span stays if what it depends on does.                  *)
LEMMA StatusStays ==
    ASSUME NEW s \in Spans,
           s \in fresh' <=> s \in fresh, s \in refused' <=> s \in refused,
           s \in discarded' <=> s \in discarded, delivered'[s] = delivered[s]
    PROVE  statusOf'[s] = statusOf[s]
BY SMT, Z3 DEF statusOf

(* Settled spans that were held have the status of their fate.             *)
LEMMA StatusSettled ==
    ASSUME TypeOK, NEW S \in SUBSET Spans, NEW keep \in BOOLEAN,
           \A s \in S : statusOf[s] = "held", Settle(S, keep \/ conf.dryRun)
    PROVE  statusOf' = [s \in Spans |->
                           IF s \in S
                           THEN IF keep \/ conf.dryRun THEN "delivered" ELSE "discarded"
                           ELSE statusOf[s]]
<1>1. delivered \in [Spans -> Nat]
      BY DEF TypeOK
<1>2. UNCHANGED <<fresh, refused>>
      BY DEF Settle
<1>3. ASSUME NEW s \in Spans, s \notin S
      PROVE  statusOf'[s] = statusOf[s]
  <2>1. delivered'[s] = delivered[s] /\ (s \in discarded' <=> s \in discarded)
        BY ZenonT(40), SMT, <1>1, <1>3 DEF Settle
  <2> QED
        BY Zenon, <1>2, <2>1, StatusStays
<1>4. ASSUME NEW s \in S
      PROVE  statusOf'[s] = IF keep \/ conf.dryRun THEN "delivered" ELSE "discarded"
  <2>1. s \notin fresh /\ s \notin refused /\ s \notin discarded /\ delivered[s] = 0
        BY <1>1, StatusHeld
  <2>2. CASE keep \/ conf.dryRun
    <3>1. delivered'[s] = 1 /\ discarded' = discarded
          BY SMT, Z3, <1>1, <2>1, <2>2 DEF Settle
    <3> QED
          BY SMT, Z3, <1>2, <2>1, <2>2, <3>1 DEF statusOf
  <2>3. CASE ~(keep \/ conf.dryRun)
    <3>1. s \in discarded' /\ delivered'[s] = 0
          BY Zenon, <2>1, <2>3 DEF Settle
    <3>2. statusOf'[s] = "discarded"
          BY Zenon, <1>2, <2>1, <3>1 DEF statusOf
    <3> QED
          BY ZenonT(40), SMT, <2>3, <3>2
  <2> QED
        BY Zenon, <2>2, <2>3
<1>5. statusOf' = [s \in Spans |-> statusOf'[s]]
      BY SMT, Z3 DEF statusOf
<1> QED
      BY Zenon, <1>3, <1>4, <1>5

(* A verdict is that of the sent trace in the cache or of the sent cache.  *)
LEMMA VerdictSent ==
    ASSUME NEW id \in TraceIDs, cache[id] # Nil, trace[cache[id]].sent
    PROVE  verdictOf[id] = IF trace[cache[id]].keep THEN "keep" ELSE "drop"
BY Zenon DEF verdictOf

(* The verdict of an ID without a sent trace in the cache is that of the   *)
(* sent cache.                                                             *)
LEMMA VerdictRecorded ==
    ASSUME NEW id \in TraceIDs, cache[id] = Nil \/ ~trace[cache[id]].sent
    PROVE  verdictOf[id] = IF id \notin DOMAIN lru THEN "none"
                           ELSE IF lru[id].keep THEN "keep" ELSE "drop"
BY Zenon DEF verdictOf

(* The same after a step.                                                  *)
LEMMA VerdictSentNext ==
    ASSUME NEW id \in TraceIDs, cache'[id] # Nil, trace'[cache'[id]].sent
    PROVE  verdictOf'[id] = IF trace'[cache'[id]].keep THEN "keep" ELSE "drop"
BY Zenon DEF verdictOf

(* The same after a step.                                                  *)
LEMMA VerdictRecordedNext ==
    ASSUME NEW id \in TraceIDs, cache'[id] = Nil \/ ~trace'[cache'[id]].sent
    PROVE  verdictOf'[id] = IF id \notin DOMAIN lru' THEN "none"
                            ELSE IF lru'[id].keep THEN "keep" ELSE "drop"
BY DEF verdictOf

(* A verdict that a step neither makes nor changes stays or is forgotten.  *)
Remembered(id) ==
    /\ \/ cache'[id] = Nil
       \/ cache'[id] = cache[id] /\ (trace'[cache[id]].sent <=> trace[cache[id]].sent)
                                 /\ (trace'[cache[id]].keep <=> trace[cache[id]].keep)
       \/ ~trace'[cache'[id]].sent /\ cache[id] = Nil
    /\ id \in DOMAIN lru' => id \in DOMAIN lru /\ (lru'[id].keep <=> lru[id].keep)

(* Its verdict after the step is the one before, or none.                  *)
LEMMA VerdictKept ==
    ASSUME Inv, SentCacheType = "legacy", Memory, NEW id \in TraceIDs, Remembered(id)
    PROVE  verdictOf'[id] = verdictOf[id] \/ verdictOf'[id] = "none"
<1>1. cache[id] # Nil => cache[id] \in Cached /\ TraceOf[cache[id]] = id
      BY DEF Inv, Safe, RingMatchesMap
<1>2. Agree
      BY Zenon DEF Memory
<1>3. CASE cache'[id] # Nil /\ trace'[cache'[id]].sent
  <2>1. /\ cache'[id] = cache[id] /\ cache[id] # Nil /\ trace[cache[id]].sent
        /\ trace'[cache'[id]].keep <=> trace[cache[id]].keep
        BY Zenon, <1>3 DEF Remembered
  <2>2. verdictOf[id] = IF trace[cache[id]].keep THEN "keep" ELSE "drop"
        BY Zenon, <2>1, VerdictSent
  <2>3. verdictOf'[id] = IF trace'[cache'[id]].keep THEN "keep" ELSE "drop"
        BY Zenon, <1>3, VerdictSentNext
  <2> QED
        BY Zenon, <2>1, <2>2, <2>3
<1>4. CASE cache'[id] = Nil \/ ~trace'[cache'[id]].sent
  <2>1. verdictOf'[id] = IF id \notin DOMAIN lru' THEN "none"
                         ELSE IF lru'[id].keep THEN "keep" ELSE "drop"
        BY Zenon, <1>4, VerdictRecordedNext
  <2>2. CASE id \notin DOMAIN lru'
        BY Zenon, <2>1, <2>2
  <2>3. CASE id \in DOMAIN lru'
    <3>1. id \in DOMAIN lru /\ (lru'[id].keep <=> lru[id].keep)
          BY Zenon, <2>3 DEF Remembered
    <3>2. CASE cache[id] # Nil /\ trace[cache[id]].sent
      <4>1. verdictOf[id] = IF trace[cache[id]].keep THEN "keep" ELSE "drop"
            BY Zenon, <3>2, VerdictSent
      <4>2. lru[id].keep <=> trace[cache[id]].keep
            BY Zenon, <1>1, <1>2, <3>1, <3>2 DEF Agree
      <4> QED
            BY Zenon, <2>1, <2>3, <3>1, <4>1, <4>2
    <3>3. CASE cache[id] = Nil \/ ~trace[cache[id]].sent
      <4>1. verdictOf[id] = IF lru[id].keep THEN "keep" ELSE "drop"
            BY Zenon, <3>1, <3>3, VerdictRecorded
      <4> QED
            BY ZenonT(40), SMT, <2>1, <2>3, <3>1, <4>1
    <3> QED
          BY Zenon, <3>2, <3>3
  <2> QED
        BY Zenon, <2>2, <2>3
<1> QED
      BY ZenonT(40), SMT, <1>3, <1>4

(* The mapped verdicts and statuses are functions.                         *)
LEMMA VerdictFunction ==
    /\ verdictOf = [id \in TraceIDs |-> verdictOf[id]]
    /\ verdictOf' = [id \in TraceIDs |-> verdictOf'[id]]
    /\ statusOf = [s \in Spans |-> statusOf[s]]
    /\ statusOf' = [s \in Spans |-> statusOf'[s]]
BY DEF verdictOf, statusOf

(* Such a step forgets.                                                    *)
LEMMA Forgets ==
    ASSUME Inv, SentCacheType = "legacy", Memory, UNCHANGED conf,
           UNCHANGED <<fresh, refused, discarded, delivered>>,
           \A id \in TraceIDs : Remembered(id)
    PROVE  TV!Forget
<1> DEFINE forgotten == {id \in TraceIDs : verdictOf'[id] # verdictOf[id]}
<1>1. \A id \in TraceIDs :
         verdictOf'[id] = IF id \in forgotten THEN "none" ELSE verdictOf[id]
      BY ZenonT(40), SMT, VerdictKept
<1>2. verdictOf' = [id \in TraceIDs |-> IF id \in forgotten THEN "none" ELSE verdictOf[id]]
      BY Zenon, <1>1, VerdictFunction
<1>3. statusOf' = statusOf
  <2>1. \A s \in Spans : statusOf'[s] = statusOf[s]
        BY Zenon, StatusStays
  <2> QED
        BY <2>1, VerdictFunction
<1>4. forgotten \in SUBSET TraceIDs
      BY Zenon
<1> HIDE DEF forgotten
<1> QED
      BY ZenonT(40), SMT, <1>2, <1>3, <1>4 DEF TV!Forget

(* The steps that decide nothing, as far as verdicts go.                   *)
LEMMA MovesRemember ==
    ASSUME Inv, Moves, NEW id \in TraceIDs
    PROVE  Remembered(id)
<1>1. cache[id] # Nil => cache[id] \in Spans
      BY DEF Inv, TypeOK, CacheTypeOK
<1> QED
      BY ZenonT(40), SMT, <1>1 DEF Moves, SameTraces, CacheShrinks, Remembered

(* A client sends a span: it is held or refused.                           *)
LEMMA AddSubmits ==
    ASSUME Inv, SpanAccounting, AddSpan \/ AddSpanFromPeer
    PROVE  \E s \in Spans : TV!Submit(s)
<1>1. PICK s \in fresh : add(s, incoming) \/ add(s, fromPeer)
      BY Zenon DEF AddSpan, AddSpanFromPeer
<1>2. s \in Spans
      BY DEF Inv, TypeOK
<1>3. /\ s \notin refused /\ s \notin discarded /\ delivered[s] = 0
  <2>1. delivered \in [Spans -> Nat] /\ InOnePlace(s)
        BY ZenonT(40), SMT, <1>2 DEF Inv, TypeOK, SpanAccounting
  <2>2. At(s, "fresh") /\ "fresh" \in Places
        BY DEF At, Places
  <2>3. \A q \in Places : At(s, q) => q = "fresh"
        BY Zenon, <2>1, <2>2, OnlyThere
  <2>4. ~At(s, "refused") /\ ~At(s, "discarded") /\ ~At(s, "delivered")
        BY <2>3 DEF Places
  <2>5. s \notin refused /\ s \notin discarded /\ ~(delivered[s] > 0)
        BY ZenonT(40), SMT, <2>4 DEF At
  <2> QED
        BY SMT, Z3, <1>2, <2>1, <2>5
<1>4. /\ fresh' = fresh \ {s}
      /\ refused' = refused \/ refused' = refused \cup {s}
      /\ UNCHANGED <<discarded, delivered>>
      BY <1>1 DEF add
<1>5. statusOf[s] = "new"
      BY SMT, Z3, <1>2, <1>3 DEF statusOf
<1>6. PICK r \in {"held", "refused"} : statusOf'[s] = r
  <2>1. CASE refused' = refused
        BY SMT, Z3, <1>2, <1>3, <1>4, <2>1 DEF statusOf
  <2>2. CASE refused' = refused \cup {s}
        BY SMT, Z3, <1>2, <1>3, <1>4, <2>2 DEF statusOf
  <2> QED
        BY <1>4, <2>1, <2>2
<1>7. ASSUME NEW u \in Spans, u # s
      PROVE  statusOf'[u] = statusOf[u]
      BY <1>4, <1>7, StatusStays
<1>8. statusOf' = [statusOf EXCEPT ![s] = r]
      BY Zenon, <1>2, <1>6, <1>7, VerdictFunction
<1>9. UNCHANGED <<verdictOf, conf.dryRun>>
      BY ZenonT(40), SMT, <1>1 DEF add, confVars, cacheVars, sentVars, verdictOf
<1> QED
      BY Zenon, <1>2, <1>5, <1>8, <1>9 DEF TV!Submit

(* A reload may switch dry run on or off.                                  *)
LEMMA ChangeSwitches ==
    ASSUME Inv, ChangeConfig
    PROVE  TV!SwitchDryRun \/ UNCHANGED TV!vars
<1>1. UNCHANGED <<statusOf, verdictOf>>
      BY SMT, Z3 DEF ChangeConfig, spanVars, cacheVars, sentVars, statusOf, verdictOf
<1>2. conf.dryRun \in BOOLEAN /\ conf'.dryRun \in BOOLEAN
      BY Zenon, CollectorAssumption DEF Inv, TypeOK, Config, ChangeConfig
<1>3. CASE conf'.dryRun = conf.dryRun
      BY <1>1, <1>3 DEF TV!vars
<1>4. CASE conf'.dryRun # conf.dryRun
      BY ZenonT(40), SMT, <1>1, <1>2, <1>4 DEF TV!SwitchDryRun
<1> QED
      BY <1>3, <1>4

(* A span that a channel or a pending trace holds has the status "held".   *)
LEMMA InsideHeld ==
    ASSUME TypeOK, SpanAccounting, NEW s \in Spans,
           s \in Elems(incoming) \/ s \in Elems(fromPeer) \/ Held(s)
    PROVE  statusOf[s] = "held"
<1>1. delivered[s] \in Nat /\ InOnePlace(s)
      BY Zenon DEF TypeOK, SpanAccounting
<1>2. PICK p \in {"incoming", "fromPeer", "held"} : At(s, p)
      BY Zenon DEF At
<1>3. \A q \in Places : At(s, q) => q = p
      BY <1>1, <1>2, OnlyThere DEF Places
<1>4. ~At(s, "fresh") /\ ~At(s, "refused") /\ ~At(s, "discarded") /\ ~At(s, "delivered")
      BY ZenonT(40), SMT, <1>2, <1>3 DEF Places
<1>5. s \notin fresh /\ s \notin refused /\ s \notin discarded /\ ~(delivered[s] > 0)
      BY Zenon, <1>4 DEF At
<1>6. delivered[s] = 0
      BY <1>1, <1>5
<1> QED
      BY Zenon, <1>1, <1>5, <1>6, StatusHeld

(* One call of send judges its trace, or finds it judged.                  *)
LEMMA SendJudges ==
    ASSUME SentCacheType = "legacy", Inv, SpanAccounting, Memory, send
    PROVE  (\E id \in TraceIDs : TV!Judge(id)) \/ UNCHANGED TV!vars
<1> PICK t : t = Head(toSend)
      BY Zenon
<1>0. UNCHANGED <<conf, cacheVars>>
      BY DEF send
<1>1. CASE trace[t].sent
  <2>1. UNCHANGED <<trace, sentVars, spanVars>>
        BY ZenonT(40), SMT, <1>1 DEF send
  <2> QED
        BY <1>0, <2>1 DEF TV!vars, statusOf, verdictOf, spanVars, sentVars, cacheVars
<1>2. CASE ~trace[t].sent
  <2> PICK id : id = TraceOf[t]
        BY Zenon
  <2>1. /\ t \in Spans /\ t \in Pending /\ id \in TraceIDs
        /\ cache[id] # Nil /\ ~trace[cache[id]].sent => cache[id] = t
        BY ZenonT(40), SMT, <1>2, SentTrace
  <2>2. PICK keep \in BOOLEAN : Decide(t, keep)
        BY <1>2 DEF send
  <2> PICK v \in {"keep", "drop"} : v = IF keep THEN "keep" ELSE "drop"
        BY Zenon
  <2> PICK S \in SUBSET Spans : S = trace[t].spans
        BY Zenon, <2>1 DEF Inv, TypeOK, TraceType
  <2>3. /\ trace'[t].sent /\ (trace'[t].keep <=> keep)
        /\ \A u \in Spans : u # t => trace'[u] = trace[u]
        BY Zenon, <2>1, <2>2 DEF Decide, Inv, TypeOK
  <2>4. S # {} /\ \A s \in S : TraceOf[s] = id /\ statusOf[s] = "held"
    <3>1. S # {} /\ \A s \in S : Held(s)
          BY Zenon, <2>1 DEF Pending, Held
    <3>2. \A s \in S : TraceOf[s] = id
          BY Zenon, <2>1 DEF Memory, OwnSpans
    <3> QED
          BY Zenon, <3>1, <3>2, InsideHeld DEF Inv
  <2>5. statusOf' = [s \in Spans |-> IF s \in S THEN TV!Fate(v) ELSE statusOf[s]]
    <3>1. Settle(S, keep \/ conf.dryRun)
          BY <2>2 DEF Decide
    <3>2. statusOf' = [s \in Spans |->
                           IF s \in S
                           THEN IF keep \/ conf.dryRun THEN "delivered" ELSE "discarded"
                           ELSE statusOf[s]]
          BY ZenonT(40), SMT, <2>4, <3>1, StatusSettled DEF Inv
    <3>3. TV!Fate(v) = IF keep \/ conf.dryRun THEN "delivered" ELSE "discarded"
          BY Zenon DEF TV!Fate
    <3> QED
          BY ZenonT(40), SMT, <3>2, <3>3
  <2>6. cache[id] = Nil \/ ~trace[cache[id]].sent
        BY Zenon, <2>1 DEF Memory, Sole
  <2>7. verdictOf[id] = "none"
    <3>1. id \notin DOMAIN lru
          BY Zenon, <2>1 DEF Inv, Safe, LegacyOneVerdict, OneVerdict
    <3> QED
          BY Zenon, <2>1, <2>6, <3>1, VerdictRecorded
  <2>8. /\ id \in DOMAIN lru' /\ (lru'[id].keep <=> keep)
        /\ \A j \in DOMAIN lru' : j # id =>
              j \in DOMAIN lru /\ (lru'[j].keep <=> lru[j].keep)
    <3>1. lru' = Use(id, keep)
          BY Zenon, <2>2 DEF Decide, Record
    <3>2. SentTypeOK /\ Fits
          BY Zenon DEF Inv, TypeOK, Memory
    <3>3. /\ id \in DOMAIN Use(id, keep) /\ (Use(id, keep)[id].keep <=> keep)
          /\ \A j \in DOMAIN Use(id, keep) : j # id =>
                j \in DOMAIN lru /\ (Use(id, keep)[j].keep <=> lru[j].keep)
          BY ZenonT(40), SMT, <2>1, <3>2, UseKeeps
    <3> QED
          BY Zenon, <3>1, <3>3
  <2>9. verdictOf'[id] = v
    <3>0. cache'[id] = cache[id]
          BY Zenon, <1>0 DEF cacheVars
    <3>1. CASE cache[id] = Nil
      <4>1. verdictOf'[id] = IF lru'[id].keep THEN "keep" ELSE "drop"
            BY ZenonT(40), SMT, <2>1, <2>8, <3>0, <3>1, VerdictRecordedNext
      <4> QED
            BY Zenon, <2>8, <4>1
    <3>2. CASE cache[id] # Nil
      <4>1. cache'[id] = t /\ cache'[id] # Nil
            BY ZenonT(40), SMT, <2>1, <2>6, <3>0, <3>2
      <4>2. verdictOf'[id] = IF trace'[t].keep THEN "keep" ELSE "drop"
            BY ZenonT(40), SMT, <2>1, <2>3, <4>1, VerdictSentNext
      <4> QED
            BY Zenon, <2>3, <4>2
    <3> QED
          BY Zenon, <3>1, <3>2
  <2>10. ASSUME NEW j \in TraceIDs, j # id
         PROVE  Remembered(j)
    <3>1. cache'[j] = cache[j]
          BY Zenon, <1>0 DEF cacheVars
    <3>2. cache[j] # Nil => cache[j] \in Spans /\ cache[j] # t
          BY ZenonT(40), SMT, <2>10, CachedAreSpans DEF Inv, TypeOK, Safe, RingMatchesMap
    <3>3. cache[j] # Nil => trace'[cache[j]] = trace[cache[j]]
          BY Zenon, <2>3, <3>2
    <3> QED
          BY ZenonT(40), SMT, <2>8, <2>10, <3>1, <3>3 DEF Remembered
  <2> DEFINE forgotten == {j \in TraceIDs \ {id} : verdictOf'[j] # verdictOf[j]}
  <2>11. \A j \in TraceIDs : verdictOf'[j] = IF j = id THEN v
                                             ELSE IF j \in forgotten THEN "none"
                                             ELSE verdictOf[j]
         BY Zenon, <2>9, <2>10, VerdictKept
  <2>12. verdictOf' = [j \in TraceIDs |-> IF j = id THEN v
                                          ELSE IF j \in forgotten THEN "none"
                                          ELSE verdictOf[j]]
         BY Zenon, <2>11, VerdictFunction
  <2>13. forgotten \in SUBSET (TraceIDs \ {id})
         BY Zenon
  <2> HIDE DEF forgotten
  <2>14. S \in SUBSET {s \in Spans : TraceOf[s] = id /\ statusOf[s] = "held"}
         BY Zenon, <2>4
  <2>15. TV!Judge(id)
    <3>1. \E w \in {"keep", "drop"}, F \in SUBSET (TraceIDs \ {id}),
             R \in SUBSET {s \in Spans : TraceOf[s] = id /\ statusOf[s] = "held"} :
             /\ R # {}
             /\ statusOf' = [s \in Spans |-> IF s \in R THEN TV!Fate(w) ELSE statusOf[s]]
             /\ verdictOf' = [j \in TraceIDs |-> IF j = id THEN w
                                                 ELSE IF j \in F THEN "none"
                                                 ELSE verdictOf[j]]
      <4> WITNESS v \in {"keep", "drop"}, forgotten \in SUBSET (TraceIDs \ {id}),
                  S \in SUBSET {s \in Spans : TraceOf[s] = id /\ statusOf[s] = "held"}
      <4> QED
          BY ZenonT(40), SMT, <2>4, <2>5, <2>12
    <3>2. UNCHANGED conf.dryRun
          BY Zenon, <1>0
    <3> QED
          BY Zenon, <2>7, <3>1, <3>2 DEF TV!Judge
  <2> QED
         BY <2>1, <2>15
<1> QED
      BY <1>1, <1>2

(* A span of a decided trace follows the verdict.                          *)
LEMMA DealFollows ==
    ASSUME Inv, NEW sp \in Spans, NEW keep \in BOOLEAN, dealWithSentTrace(keep, sp),
           TraceOf[sp] \in TraceIDs, statusOf[sp] = "held", UNCHANGED conf,
           verdictOf[TraceOf[sp]] = IF keep THEN "keep" ELSE "drop",
           \A id \in TraceIDs : verdictOf'[id] = verdictOf[id]
    PROVE  TV!Follow(sp)
<1> Settle({sp}, keep \/ conf.dryRun)
      BY Zenon DEF dealWithSentTrace
<1>1. statusOf' = [s \in Spans |->
                      IF s \in {sp}
                      THEN IF keep \/ conf.dryRun THEN "delivered" ELSE "discarded"
                      ELSE statusOf[s]]
  <2>1. TypeOK /\ {sp} \in SUBSET Spans
        BY Zenon DEF Inv
  <2>2. \A s \in {sp} : statusOf[s] = "held"
        BY Zenon
  <2> QED
        BY Zenon, <2>1, <2>2, StatusSettled
<1>2. TV!Fate(verdictOf[TraceOf[sp]]) =
         IF keep \/ conf.dryRun THEN "delivered" ELSE "discarded"
      BY Zenon DEF TV!Fate
<1>3. statusOf' = [statusOf EXCEPT ![sp] = TV!Fate(verdictOf[TraceOf[sp]])]
      BY ZenonT(40), SMT, <1>1, <1>2, VerdictFunction
<1>4. verdictOf' = verdictOf
      BY VerdictFunction
<1> QED
      BY Zenon, <1>3, <1>4 DEF TV!Follow

(* A late span follows the verdict of the sent cache.                      *)
LEMMA LateFollows ==
    ASSUME SentCacheType = "legacy", Inv, Memory, NEW sp \in Spans, LateSpan(sp),
           statusOf[sp] = "held", UNCHANGED conf
    PROVE  TV!Follow(sp)
<1> PICK id : id = TraceOf[sp]
      BY ZenonT(40), SMT
<1>1. id \in TraceIDs /\ SentTypeOK /\ Fits
      BY SpansAssumption DEF Inv, TypeOK, Memory
<1>2. cache[id] = Nil /\ Found(id) /\ CheckHit(id) /\ UNCHANGED <<cacheVars, trace>>
      BY Zenon DEF LateSpan
<1>3. id \in DOMAIN lru /\ lru[id].keep \in BOOLEAN
      BY Zenon, <1>1, <1>2 DEF Found, SentTypeOK
<1>4. verdictOf[id] = IF lru[id].keep THEN "keep" ELSE "drop"
      BY Zenon, <1>1, <1>2, <1>3, VerdictRecorded
<1>5. DOMAIN lru' = DOMAIN lru /\ \A j \in DOMAIN lru : lru'[j].keep <=> lru[j].keep
      BY Zenon, <1>1, <1>2, LateKeeps
<1>6. \A j \in TraceIDs : verdictOf'[j] = verdictOf[j]
      BY ZenonT(40), SMT, <1>2, <1>5 DEF verdictOf, cacheVars
<1> QED
      BY ZenonT(40), SMT, <1>1, <1>3, <1>4, <1>6, DealFollows DEF LateSpan

(* A span of an ID with a trace in the cache joins it, or follows the      *)
(* verdict if that trace was sent.                                         *)
LEMMA JoinFollows ==
    ASSUME Inv, NEW sp \in Spans, JoinTrace(sp), statusOf[sp] = "held", UNCHANGED conf
    PROVE  TV!Follow(sp) \/ UNCHANGED TV!vars
<1> PICK t : t = cache[TraceOf[sp]]
      BY Zenon
<1>1. /\ t \in Spans /\ TraceOf[t] = TraceOf[sp] /\ t # Nil /\ TraceOf[sp] \in TraceIDs
      /\ \A u \in Spans : /\ trace'[u].sent <=> trace[u].sent
                          /\ trace'[u].keep <=> trace[u].keep
      /\ UNCHANGED <<cacheVars, sentVars>>
      BY Zenon, JoinIs, SpansAssumption DEF JoinTrace, Joined
<1>2. \A id \in TraceIDs : cache[id] # Nil => cache[id] \in Spans
      BY Zenon DEF Inv, TypeOK, CacheTypeOK
<1>3. \A id \in TraceIDs : verdictOf'[id] = verdictOf[id]
      BY Zenon, <1>1, <1>2 DEF verdictOf, cacheVars, sentVars
<1>4. CASE trace[t].sent
  <2>1. trace[t].keep \in BOOLEAN
        BY Zenon, <1>1 DEF Inv, TypeOK, TraceType
  <2>2. verdictOf[TraceOf[sp]] = IF trace[t].keep THEN "keep" ELSE "drop"
        BY ZenonT(40), SMT, <1>1, <1>4, VerdictSent
  <2>3. dealWithSentTrace(trace[t].keep, sp)
        BY Zenon, <1>4 DEF JoinTrace
  <2> QED
        BY ZenonT(40), SMT, <1>1, <1>3, <2>1, <2>2, <2>3, DealFollows
<1>5. CASE ~trace[t].sent
  <2>1. UNCHANGED spanVars
        BY Zenon, <1>5 DEF JoinTrace
  <2>2. statusOf' = statusOf
        BY <2>1 DEF spanVars, statusOf
  <2>3. verdictOf' = verdictOf
        BY <1>3, VerdictFunction
  <2> QED
        BY <2>2, <2>3 DEF TV!vars
<1> QED
      BY <1>4, <1>5

(* A span with which a trace begins changes no status, and a verdict whose *)
(* trace is overwritten in the cache is forgotten.                         *)
LEMMA NewForgets ==
    ASSUME SentCacheType = "legacy", Inv, Memory, NEW sp \in Spans, NewTrace(sp),
           UNCHANGED conf
    PROVE  TV!Forget
<1>1. /\ ~trace'[sp].sent /\ \A u \in Spans : u # sp => trace'[u] = trace[u]
      /\ RingMatchesMap' /\ sp \notin Cached
      /\ \A id \in TraceIDs : cache'[id] \in {cache[id], sp, Nil}
      BY NewTraceIs
<1>2. UNCHANGED <<lru, fresh, refused, discarded, delivered>>
      BY Zenon DEF NewTrace, sentVars, spanVars
<1>3. ASSUME NEW id \in TraceIDs
      PROVE  Remembered(id)
  <2>1. cache[id] # Nil => cache[id] \in Cached /\ cache[id] \in Spans
        BY ZenonT(40), SMT, CachedAreSpans DEF Inv, TypeOK, Safe, RingMatchesMap
  <2>2. CASE cache'[id] = sp /\ sp # Nil
    <3>1. id = TraceOf[sp]
          BY Zenon, <1>1, <2>2 DEF RingMatchesMap
    <3> QED
          BY ZenonT(40), SMT, <1>1, <1>2, <2>2, <3>1 DEF Remembered, NewTrace
  <2>3. CASE cache'[id] = Nil
        BY Zenon, <1>2, <2>3 DEF Remembered
  <2>4. CASE cache'[id] = cache[id] /\ cache[id] # Nil
        BY ZenonT(40), SMT, <1>1, <1>2, <2>1, <2>4 DEF Remembered
  <2>5. sp # Nil
        BY SpansAssumption
  <2> QED
        BY ZenonT(40), SMT, <1>1, <2>2, <2>3, <2>4, <2>5
<1> QED
      BY Zenon, <1>2, <1>3, Forgets

-----------------------------------------------------------------------------
(* Every step of the collector is a step of TraceVerdicts or none.         *)
LEMMA StepImplements ==
    ASSUME SentCacheType = "legacy", Inv, Inv', SpanAccounting, Memory, [Next]_vars
    PROVE  [TV!Next]_TV!vars
<1>1. CASE AddSpan \/ AddSpanFromPeer
      BY Zenon, <1>1, AddSubmits DEF TV!Next
<1>2. CASE ChangeConfig
      BY Zenon, <1>2, ChangeSwitches DEF TV!Next
<1>3. CASE send
      BY Zenon, <1>3, SendJudges DEF TV!Next
<1>4. CASE Process
  <2>1. PICK sp \in Spans : /\ processSpan(sp)
                            /\ sp \in Elems(incoming) \/ sp \in Elems(fromPeer)
        BY <1>4, Processed
  <2>2. UNCHANGED conf /\ statusOf[sp] = "held"
        BY Zenon, <2>1, InsideHeld DEF processSpan, confVars, Inv
  <2>3. TV!Follow(sp) \/ TV!Forget \/ UNCHANGED TV!vars
        BY ZenonT(40), SMT, <2>1, <2>2, LateFollows, JoinFollows, NewForgets DEF processSpan
  <2> QED
        BY Zenon, <2>3 DEF TV!Next
<1>5. CASE ~send /\ ~Process /\ ~AddSpan /\ ~AddSpanFromPeer /\ ~ChangeConfig
  <2>1. Moves
        BY ZenonT(40), SMT, <1>5, OthersMove
  <2>2. UNCHANGED <<conf, fresh, refused, discarded, delivered>>
        BY ZenonT(40), SMT, <1>5 DEF Next, Process, Elapse, sendReloadSignal, CycleFilter, NoPeerSpan,
                    IncomingClosed, Tick, CheckAlloc, Relock, reloadConfigs, EndReload,
                    Stop, Purge, EndStop, vars, spanVars, confVars
  <2>3. TV!Forget
        BY ZenonT(40), SMT, <2>1, <2>2, MovesRemember, Forgets
  <2> QED
        BY <2>3 DEF TV!Next
<1> QED
      BY ZenonT(40), SMT, <1>1, <1>2, <1>3, <1>4, <1>5

(* At Start every span is new and nothing is decided.                      *)
LEMMA InitImplements ==
    ASSUME Init
    PROVE  TV!Init
<1>1. statusOf = [s \in Spans |-> "new"]
      BY DEF Init, statusOf
<1>2. \A id \in TraceIDs : cache[id] = Nil
      BY Zenon DEF Init, NewInMemCache
<1>3. verdictOf = [id \in TraceIDs |-> "none"]
      BY ZenonT(40), SMT, <1>2 DEF Init, NewSentCache, verdictOf
<1>4. conf.dryRun \in BOOLEAN
      BY CollectorAssumption DEF Init, Config
<1> QED
      BY <1>1, <1>3, <1>4 DEF TV!Init

(* With the legacy sent cache the collector implements TraceVerdicts, for  *)
(* any spans, traces, capacities, reloads and orders of events.            *)
THEOREM CollectorImplements ==
    ASSUME SentCacheType = "legacy"
    PROVE  Spec => ImplementsVerdicts
<1>1. Init => Memory /\ TV!Init
      BY Zenon, MemoryInit, InitImplements
<1>2. Inv /\ Inv' /\ Memory /\ [Next]_vars => Memory'
      BY MemoryNext
<1>3. Inv /\ Inv' /\ SpanAccounting /\ Memory /\ [Next]_vars => [TV!Next]_TV!vars
      BY StepImplements
<1> QED
      BY <1>1, <1>2, <1>3, Invariance, SpansAccountedFor, PTL
      DEF Spec, ImplementsVerdicts, TV!Spec
=============================================================================
