--------------------------- MODULE DeliveryProofs ---------------------------
(***************************************************************************)
(* No event is lost or sent twice, and Flush waits for all that were       *)
(* enqueued before it, for any events, sizes, limits and number of         *)
(* flushes. The inductive invariant DeliveryInv says that an event that is *)
(* held is in one place, which changes from the goroutine that adds it to  *)
(* the work channel, the worker's batch, a list to export and a call; and  *)
(* that a muster that was replaced has been emptied before Flush returns.  *)
(***************************************************************************)
EXTENDS TransmissionProofs

(* batchAgg.Add: the lists of a batch share no event and leave none out.   *)
LEMMA BatchesSplit ==
    ASSUME NEW list \in Seq(Events), Distinct(list)
    PROVE  /\ \A g \in batches(list) : Distinct(g) /\ Range(g) \subseteq Range(list)
           /\ \A e \in Range(list) : \E g \in batches(list) : e \in Range(g)
           /\ \A e : \A g, h \in batches(list) : e \in Range(g) /\ e \in Range(h) => g = h
<1> DEFINE Of(h) == {e \in Events : ev[e].host = h}
           hosts == {ev[e].host : e \in Range(list)}
<1>1. batches(list) = {Kept(list, Of(h)) : h \in hosts}
  BY DEF batches
<1>2. Range(list) \subseteq Events
  BY DEF Range
<1>3. ASSUME NEW S PROVE Range(Kept(list, S)) = Range(list) \cap S /\ Distinct(Kept(list, S))
  BY KeptElements
<1>4. ASSUME NEW e \in Range(list) PROVE \E g \in batches(list) : e \in Range(g)
  <2> PICK h : h = ev[e].host
    OBVIOUS
  <2>1. h \in hosts /\ e \in Of(h)
    BY <1>2
  <2> HIDE DEF Of, hosts
  <2>2. e \in Range(Kept(list, Of(h)))
    BY Zenon, <1>3, <2>1
  <2> QED BY <1>1, <2>1, <2>2
<1>5. ASSUME NEW e, NEW g \in batches(list), NEW f \in batches(list), e \in Range(g), e \in Range(f)
      PROVE  g = f
  <2> PICK h \in hosts : g = Kept(list, Of(h))
    BY Zenon, <1>1
  <2> PICK i \in hosts : f = Kept(list, Of(i))
    BY Zenon, <1>1
  <2>1. e \in Of(h) /\ e \in Of(i)
    <3> HIDE DEF Of, hosts
    <3> QED BY Zenon, <1>3, <1>5
  <2>2. h = i
    BY <2>1
  <2> QED BY <2>2
<1>6. ASSUME NEW g \in batches(list) PROVE Distinct(g) /\ Range(g) \subseteq Range(list)
  <2> HIDE DEF Of, hosts
  <2> PICK h \in hosts : g = Kept(list, Of(h))
    BY <1>1
  <2> QED BY <1>3
<1> QED BY ZenonT(40), SMT, <1>4, <1>5, <1>6

(* A fired batch takes all events of the worker's batch, each in the list  *)
(* of its host.                                                            *)
LEMMA FirePlaces == ASSUME Typed, Placed, NEW m \in Musters, FireBatch(m) PROVE Placed'
<1>0. /\ batch \in [Musters -> Seq(Events)] /\ fire \in [Slots -> FireRecord]
      /\ Events' = Events /\ fate' = fate
  BY DEF Typed, FireBatch, Events
<1> PICK b \in Seq(Events) : b = batch[m]
  BY <1>0
<1>1. PICK s \in Slots : fire[s] = NoFire /\ fire' = [fire EXCEPT ![s] = Fired(batches(b), 1)]
  BY Zenon DEF FireBatch, FreeSlot
<1>2. Distinct(b)
  BY DEF Placed
<1>3. /\ \A g \in batches(b) : Distinct(g) /\ Range(g) \subseteq Range(b)
      /\ \A e \in Range(b) : \E g \in batches(b) : e \in Range(g)
      /\ \A e : \A g, h \in batches(b) : e \in Range(g) /\ e \in Range(h) => g = h
  BY ZenonT(40), SMT, <1>2, BatchesSplit
<1>4. /\ fire'[s].groups = batches(b) /\ fire'[s].cut.batches = <<>>
      /\ \A t \in Slots : t # s => fire'[t] = fire[t]
  BY Zenon, <1>0, <1>1 DEF Fired, NoBatch
<1>5. batch'[m] = <<>> /\ \A x \in Musters : x # m => batch'[x] = batch[x]
  BY <1>0 DEF FireBatch
<1>6. UNCHANGED <<adder, work>>
  BY DEF FireBatch
<1>7. /\ \A d, x : InAdd(d, x)' <=> InAdd(d, x)
      /\ \A d, x : InWork(d, x)' <=> InWork(d, x)
  BY <1>6 DEF InAdd, InWork
<1>8. ASSUME NEW d, NEW x, NEW y PROVE InCall(d, x, y)' <=> InCall(d, x, y)
  <2>1. ~InCall(d, s, y)
    BY Zenon, <1>1, IdleHolds
  <2>3. ~InCall(d, s, y)'
    BY SMT, Z3, <1>4 DEF InCall
  <2>2. x # s => (InCall(d, x, y)' <=> InCall(d, x, y))
    BY Zenon, <1>4 DEF InCall
  <2> QED BY ZenonT(40), SMT, <2>1, <2>2, <2>3
<1>9. ASSUME NEW d, NEW y
      PROVE  /\ ~InList(d, s, y)
             /\ InList(d, s, y)' <=> y \in batches(b) /\ d \in Range(y)
             /\ \A x : x # s => (InList(d, x, y)' <=> InList(d, x, y))
  BY Zenon, <1>1, <1>4, IdleHolds DEF InList
<1>10. ASSUME NEW d \in Events PROVE One(d)'
  <2>1. CASE d \in Range(b)
    <3>1. Holds(d, "batch", m, 0)
      BY Zenon, <2>1 DEF Holds, InBatch
    <3>2. (\A k, x, y : Holds(d, k, x, y) => k = "batch" /\ x = m) /\ fate[d] = "held"
      BY <3>1 DEF Placed, One
    <3> PICK g \in batches(b) : d \in Range(g)
      BY <1>3, <2>1
    <3>3. Holds(d, "list", s, g)'
      BY <1>9 DEF Holds
    <3>4. \A x : ~InBatch(d, x)'
      <4>1. ASSUME NEW x \in Musters, x # m PROVE d \notin Range(batch[x])
        <5>1. ~Holds(d, "batch", x, 0)
          BY ZenonT(40), SMT, <3>2, <4>1
        <5> QED BY <5>1 DEF Holds, InBatch
      <4>2. Range(<<>>) = {}
        BY DEF Range
      <4> QED BY ZenonT(40), SMT, <1>5, <4>1, <4>2 DEF InBatch
    <3>5. ASSUME NEW k, NEW x, NEW y, Holds(d, k, x, y)' PROVE k = "list" /\ x = s /\ y = g
      <4>1. CASE k = "list" /\ InList(d, x, y)'
        <5>1. x # s => Holds(d, k, x, y)
          BY ZenonT(40), SMT, <1>9, <4>1 DEF Holds
        <5>2. x = s
          BY ZenonT(40), SMT, <3>2, <4>1, <5>1
        <5>3. y \in batches(b) /\ d \in Range(y)
          BY ZenonT(40), SMT, <1>9, <4>1, <5>2
        <5> QED BY ZenonT(40), SMT, <1>3, <4>1, <5>2, <5>3
      <4>2. CASE ~(k = "list" /\ InList(d, x, y)')
        <5>1. Holds(d, k, x, y) /\ k # "batch"
          BY ZenonT(40), SMT, <1>7, <1>8, <3>4, <3>5, <4>2 DEF Holds
        <5> QED BY Zenon, <3>2, <5>1
      <4> QED BY Zenon, <4>1, <4>2
    <3>6. fate'[d] = "held"
      BY Zenon, <1>0, <3>2
    <3> QED BY Zenon, <3>3, <3>5, <3>6, OneMoved
  <2>2. CASE d \notin Range(b)
    <3>1. \A x : InBatch(d, x)' <=> InBatch(d, x)
      <4>1. Range(<<>>) = {}
        BY DEF Range
      <4> QED BY ZenonT(40), SMT, <1>5, <2>2, <4>1 DEF InBatch
    <3>2. ASSUME NEW x, NEW y PROVE InList(d, x, y)' <=> InList(d, x, y)
      <4>1. y \in batches(b) => d \notin Range(y)
        BY Zenon, <1>3, <2>2
      <4>2. CASE x = s
        BY ZenonT(40), SMT, <1>9, <4>1, <4>2
      <4>3. CASE x # s
        BY Zenon, <1>9, <4>3
      <4> QED BY Zenon, <4>2, <4>3
    <3>3. One(d) /\ fate'[d] = fate[d]
      BY <1>0 DEF Placed
    <3> QED BY ZenonT(40), SMT, <1>7, <1>8, <3>1, <3>2, <3>3, OneStays
  <2> QED BY Zenon, <2>1, <2>2
<1>11. \A x \in Musters : Distinct(work'[x]) /\ Distinct(batch'[x])
  <2>1. Distinct(<<>>)
    BY DEF Distinct
  <2> QED BY ZenonT(40), SMT, <1>5, <1>6, <2>1 DEF Placed
<1>12. \A t \in Slots : \A g \in fire'[t].groups : Distinct(g)
  BY <1>3, <1>4 DEF Placed
<1> QED BY ZenonT(40), SMT, <1>0, <1>10, <1>11, <1>12 DEF Placed

(* Cutting distinct events makes batches that share none.                  *)
LEMMA CutApart ==
    ASSUME ev \in Seq(EventShape), NEW list \in Seq(Events), Distinct(list)
    PROVE  Apart(ExportCut(list), Range(list))
<1>1. SpanSize \in [Events -> Nat] /\ PeerSize \in [Events -> Nat]
  BY EventsNat
<1>2. Apart(SendTraceBatches(list, SpanSize), Range(list))
  BY Zenon, <1>1, SplitIsGreedy
<1>3. Apart(SendTraceBatches(list, PeerSize), Range(list))
  BY ZenonT(40), SMT, <1>1, SplitIsGreedy
<1>4. Apart(NoBatch, Range(list))
  BY DEF Apart, NoBatch, Range
<1> QED BY ZenonT(40), SMT, <1>2, <1>3, <1>4 DEF ExportCut, SendLogTraceBatches

(* exportProtoMsgBatch moves the events of a list into its calls, or drops *)
(* those that no call can carry.                                           *)
LEMMA ExportPlaces == ASSUME Typed, Placed, NEW s \in Slots, exportProtoMsgBatch(s) PROVE Placed'
<1>0. /\ fire \in [Slots -> FireRecord] /\ Events' = Events /\ ev \in Seq(EventShape)
      /\ UNCHANGED <<adder, work, batch>>
  BY Zenon, ExportIs DEF Typed, Events, musterVars
<1>1. PICK list \in fire[s].groups :
            /\ fire' = [fire EXCEPT ![s] = Exported(s, list)]
            /\ fate' = Cut(list, ExportCut(list), ~checkPeerConnection(list) \/ SendTraces,
                           ExportSize(list))
  BY ExportIs
<1>2. list \in Seq(Events) /\ Distinct(list)
  BY <1>0 DEF FireRecord, Placed
<1> PICK cut : cut = ExportCut(list)
  OBVIOUS
<1>3. cut \in Acc(Events) /\ Apart(cut, Range(list))
  BY ZenonT(40), SMT, <1>0, <1>2, CutTyped, CutApart
<1>4. /\ fire'[s].groups = fire[s].groups \ {list}
      /\ fire'[s].cut = cut /\ fire'[s].next = 1
      /\ \A t \in Slots : t # s => fire'[t] = fire[t]
  BY Zenon, <1>0, <1>1 DEF Exported
<1>5. \A k \in DOMAIN cut.batches : k >= 1 /\ Range(cut.batches[k]) \subseteq Range(list)
  BY SMT, Z3, <1>3 DEF Acc, Apart
<1>6. /\ \A d, x : InAdd(d, x)' <=> InAdd(d, x)
      /\ \A d, x : InWork(d, x)' <=> InWork(d, x)
      /\ \A d, x : InBatch(d, x)' <=> InBatch(d, x)
  BY Zenon, <1>0 DEF InAdd, InWork, InBatch
<1>7. ASSUME NEW d, NEW y
      PROVE  /\ InList(d, s, y)' <=> InList(d, s, y) /\ y # list
             /\ \A x : x # s => (InList(d, x, y)' <=> InList(d, x, y))
  BY <1>4 DEF InList
<1>8. ASSUME NEW d, NEW y
      PROVE  /\ ~InCall(d, s, y)
             /\ InCall(d, s, y)' <=> y \in DOMAIN cut.batches /\ d \in Range(cut.batches[y])
             /\ \A x : x # s => (InCall(d, x, y)' <=> InCall(d, x, y))
  <2>1. ~InCall(d, s, y)
    BY ZenonT(40), SMT, <1>0, ExportIs, OverMeans, OverHolds
  <2>2. InCall(d, s, y)' <=> y \in DOMAIN cut.batches /\ d \in Range(cut.batches[y])
    BY ZenonT(40), SMT, <1>4, <1>5 DEF InCall
  <2>3. \A x : x # s => (InCall(d, x, y)' <=> InCall(d, x, y))
    BY Zenon, <1>4 DEF InCall
  <2> QED BY ZenonT(40), SMT, <2>1, <2>2, <2>3
<1>9. \A d : d \in InCalls(cut) <=> \E k \in DOMAIN cut.batches : d \in Range(cut.batches[k])
  BY SMT, Z3 DEF InCalls, Range
<1>10. ASSUME NEW d \in Events PROVE One(d)'
  <2>1. CASE d \in Range(list)
    <3>1. Holds(d, "list", s, list)
      BY Zenon, <2>1 DEF Holds, InList
    <3>2. (\A k, x, y : Holds(d, k, x, y) => k = "list" /\ x = s /\ y = list) /\ fate[d] = "held"
      BY <3>1 DEF Placed, One
    <3>3. ASSUME NEW x, NEW y PROVE ~InList(d, x, y)'
      <4>1. InList(d, x, y) => x = s /\ y = list
        BY SMTT(20), Z3T(20), <3>2 DEF Holds
      <4> QED BY ZenonT(40), SMT, <1>7, <4>1
    <3>4. ASSUME NEW k, NEW x, NEW y, Holds(d, k, x, y)'
          PROVE  k = "call" /\ x = s /\ y \in DOMAIN cut.batches /\ d \in Range(cut.batches[y])
      <4>1. CASE k = "call" /\ InCall(d, x, y)'
        <5>1. x # s => Holds(d, k, x, y)
          BY ZenonT(40), SMT, <1>8, <4>1 DEF Holds
        <5>2. x = s
          BY ZenonT(40), SMT, <3>2, <4>1, <5>1
        <5> QED BY <1>8, <4>1, <5>2
      <4>2. CASE ~(k = "call" /\ InCall(d, x, y)')
        <5>1. Holds(d, k, x, y) /\ k # "list"
          BY ZenonT(40), SMT, <1>6, <3>3, <3>4, <4>2 DEF Holds
        <5> QED BY ZenonT(40), SMT, <3>2, <5>1
      <4> QED BY <4>1, <4>2
    <3>5. CASE d \in InCalls(cut)
      <4> PICK i \in DOMAIN cut.batches : d \in Range(cut.batches[i])
        BY ZenonT(40), SMT, <1>9, <3>5
      <4>1. Holds(d, "call", s, i)'
        BY <1>8 DEF Holds
      <4>2. ASSUME NEW k, NEW x, NEW y, Holds(d, k, x, y)' PROVE k = "call" /\ x = s /\ y = i
        <5>1. k = "call" /\ x = s /\ y \in DOMAIN cut.batches /\ d \in Range(cut.batches[y])
          BY Zenon, <3>4, <4>2
        <5>2. y # i => Range(cut.batches[y]) \cap Range(cut.batches[i]) = {}
          BY Zenon, <1>3, <5>1 DEF Apart
        <5> QED BY ZenonT(40), SMT, <5>1, <5>2
      <4>3. fate'[d] = "held"
        BY ZenonT(40), SMT, <1>1, <3>2, <3>5 DEF Cut
      <4> QED BY ZenonT(40), SMT, <4>1, <4>2, <4>3, OneMoved
    <3>6. CASE d \notin InCalls(cut)
      <4>1. \A k, x, y : ~Holds(d, k, x, y)'
        BY ZenonT(40), SMT, <1>9, <3>4, <3>6
      <4>2. fate'[d] # "held"
        BY ZenonT(40), SMT, <1>1, <2>1, <3>6 DEF Cut
      <4> QED BY ZenonT(40), SMT, <4>1, <4>2, OneGone
    <3> QED BY Zenon, <3>5, <3>6
  <2>2. CASE d \notin Range(list)
    <3>1. ASSUME NEW x, NEW y PROVE InList(d, x, y)' <=> InList(d, x, y)
      <4>1. InList(d, s, y) => y # list
        BY Zenon, <2>2 DEF InList
      <4>2. CASE x = s
        BY ZenonT(40), SMT, <1>7, <4>1, <4>2
      <4>3. CASE x # s
        BY Zenon, <1>7, <4>3
      <4> QED BY Zenon, <4>2, <4>3
    <3>2. ASSUME NEW x, NEW y PROVE InCall(d, x, y)' <=> InCall(d, x, y)
      <4>1. ~InCall(d, s, y)' /\ ~InCall(d, s, y)
        BY ZenonT(40), SMT, <1>5, <1>8, <2>2
      <4>2. CASE x # s
        BY ZenonT(40), SMT, <1>8, <4>2
      <4> QED BY Zenon, <4>1, <4>2
    <3>3. One(d) /\ fate'[d] = fate[d]
      BY Zenon, <1>1, <2>2 DEF Placed, Cut
    <3> QED BY ZenonT(40), SMT, <1>6, <3>1, <3>2, <3>3, OneStays
  <2> QED BY Zenon, <2>1, <2>2
<1>11. \A t \in Slots : \A g \in fire'[t].groups : Distinct(g)
  BY Zenon, <1>4 DEF Placed
<1> QED BY Zenon, <1>0, <1>10, <1>11 DEF Placed

(* A call for spans settles the events of its batch.                       *)
LEMMA TracesPlaces == ASSUME Typed, Placed, NEW s \in Slots, ExportTraces(s) PROVE Placed'
<1>0. /\ fire \in [Slots -> FireRecord] /\ Events' = Events /\ fate \in [Events -> Fates]
      /\ UNCHANGED <<adder, work, batch>>
  BY DEF Typed, ExportTraces, Events, musterVars
<1>1. /\ \A t \in Slots : t # s => fire'[t] = fire[t]
      /\ fire'[s].groups = fire[s].groups /\ fire'[s].cut = fire[s].cut
      /\ fire'[s].next = fire[s].next + 1
  BY ZenonT(40), SMT, <1>0, Stepped DEF ExportTraces
<1> PICK n \in Nat : n = fire[s].next
  BY <1>0 DEF FireRecord
<1> PICK bs \in Seq(Seq(Events)) : bs = fire[s].cut.batches
  BY ZenonT(40), SMT, <1>0 DEF FireRecord, Acc
<1>2. n \in DOMAIN bs /\ \A y \in DOMAIN bs : y \in Nat
  BY SMT, Z3 DEF ExportTraces
<1>3. fate' = [e \in Events |-> IF e \in Range(bs[n]) THEN "called" ELSE fate[e]]
  BY DEF ExportTraces
<1>4. /\ \A d, x : InAdd(d, x)' <=> InAdd(d, x)
      /\ \A d, x : InWork(d, x)' <=> InWork(d, x)
      /\ \A d, x : InBatch(d, x)' <=> InBatch(d, x)
      /\ \A d, x, y : InList(d, x, y)' <=> InList(d, x, y)
  BY Zenon, <1>0, <1>1 DEF InAdd, InWork, InBatch, InList
<1>5. ASSUME NEW d, NEW y
      PROVE  /\ InCall(d, s, y)' <=> InCall(d, s, y) /\ y # n
             /\ \A x : x # s => (InCall(d, x, y)' <=> InCall(d, x, y))
  <2>1. \A i, j \in Nat : i >= j + 1 <=> i >= j /\ i # j
    OBVIOUS
  <2>2. y \in DOMAIN bs => (y >= n + 1 <=> y >= n /\ y # n)
    BY Zenon, <1>2, <2>1
  <2>3. InCall(d, s, y)' <=> y \in DOMAIN bs /\ y >= n + 1 /\ d \in Range(bs[y])
    BY Zenon, <1>1 DEF InCall
  <2>4. InCall(d, s, y) <=> y \in DOMAIN bs /\ y >= n /\ d \in Range(bs[y])
    BY Zenon DEF InCall
  <2>5. \A x : x # s => (InCall(d, x, y)' <=> InCall(d, x, y))
    BY Zenon, <1>1 DEF InCall
  <2> QED BY ZenonT(40), SMT, <2>2, <2>3, <2>4, <2>5
<1>6. ASSUME NEW d \in Events PROVE One(d)'
  <2>1. CASE d \in Range(bs[n])
    <3>0. n >= n
      BY SMT, Z3
    <3>1. Holds(d, "call", s, n)
      BY ZenonT(40), SMT, <1>2, <2>1, <3>0 DEF Holds, InCall
    <3>2. \A k, x, y : Holds(d, k, x, y) => k = "call" /\ x = s /\ y = n
      BY <3>1 DEF Placed, One
    <3>3. ASSUME NEW x, NEW y PROVE ~InCall(d, x, y)'
      <4>0. InCall(d, x, y) => Holds(d, "call", x, y)
        BY Zenon DEF Holds
      <4>1. InCall(d, x, y) => x = s /\ y = n
        BY SMT, Z3, <3>2, <4>0
      <4>2. CASE x = s
        BY <1>5, <4>1, <4>2
      <4>3. CASE x # s
        BY ZenonT(40), SMT, <1>5, <4>1, <4>3
      <4> QED BY ZenonT(40), SMT, <4>2, <4>3
    <3>4. ASSUME NEW k, NEW x, NEW y PROVE ~Holds(d, k, x, y)'
      <4>1. Holds(d, k, x, y)' => Holds(d, k, x, y) /\ k # "call"
        BY ZenonT(40), SMT, <1>4, <3>3 DEF Holds
      <4> QED BY <3>2, <4>1
    <3>5. fate'[d] # "held"
      BY <1>3, <2>1
    <3> QED BY ZenonT(40), SMT, <3>4, <3>5, OneGone
  <2>2. CASE d \notin Range(bs[n])
    <3>1. ASSUME NEW x, NEW y PROVE InCall(d, x, y)' <=> InCall(d, x, y)
      <4>1. InCall(d, s, y) => y # n
        BY Zenon, <2>2 DEF InCall
      <4>2. CASE x = s
        BY Zenon, <1>5, <4>1, <4>2
      <4>3. CASE x # s
        BY Zenon, <1>5, <4>3
      <4> QED BY Zenon, <4>2, <4>3
    <3>2. One(d) /\ fate'[d] = fate[d]
      BY ZenonT(40), SMT, <1>3, <2>2 DEF Placed
    <3> QED BY ZenonT(40), SMT, <1>4, <3>1, <3>2, OneStays
  <2> QED BY Zenon, <2>1, <2>2
<1>7. \A t \in Slots : \A g \in fire'[t].groups : Distinct(g)
  BY <1>1 DEF Placed
<1> QED BY ZenonT(40), SMT, <1>0, <1>6, <1>7 DEF Placed

(* A slot without calls to come changes, and what it has to export stays.  *)
LEMMA SlotPlaces ==
    ASSUME Typed, Placed, NEW s \in Slots, UNCHANGED <<ev, fate, adder, work, batch>>,
           \A t \in Slots : t # s => fire'[t] = fire[t],
           fire'[s].groups = fire[s].groups,
           \A e, y : ~InCall(e, s, y) /\ ~InCall(e, s, y)'
    PROVE  Placed'
<1>1. /\ \A d, x : InAdd(d, x)' <=> InAdd(d, x)
      /\ \A d, x : InWork(d, x)' <=> InWork(d, x)
      /\ \A d, x : InBatch(d, x)' <=> InBatch(d, x)
      /\ \A d, x, y : InList(d, x, y)' <=> InList(d, x, y)
  BY DEF InAdd, InWork, InBatch, InList
<1>2. ASSUME NEW d, NEW x, NEW y PROVE InCall(d, x, y)' <=> InCall(d, x, y)
  <2>1. x # s => (InCall(d, x, y)' <=> InCall(d, x, y))
    BY DEF InCall
  <2> QED BY Zenon, <2>1
<1>3. ASSUME NEW d \in Events PROVE One(d)'
  <2>1. One(d)
    BY ZenonT(40), SMT DEF Placed
  <2> QED BY Zenon, <1>1, <1>2, <2>1, OneStays
<1>4. \A t \in Slots : \A g \in fire'[t].groups : Distinct(g)
  BY DEF Placed
<1>5. Events' = Events
  BY DEF Events
<1> QED BY ZenonT(40), SMT, <1>3, <1>4, <1>5 DEF Placed

(* A call for log records moves no event.                                  *)
LEMMA LogsPlaces == ASSUME Typed, Placed, NEW s \in Slots, ExportLogs(s) PROVE Placed'
<1>0. fire \in [Slots -> FireRecord] /\ UNCHANGED <<ev, fate, adder, work, batch>>
  BY DEF Typed, ExportLogs, musterVars
<1>1. fire' = [fire EXCEPT ![s].next = fire[s].next + 1]
  BY Zenon DEF ExportLogs
<1>2. /\ fire' \in [Slots -> FireRecord] /\ \A t \in Slots : t # s => fire'[t] = fire[t]
      /\ fire'[s].groups = fire[s].groups /\ fire'[s].cut = fire[s].cut
      /\ fire'[s].next = fire[s].next + 1
  BY ZenonT(40), SMT, <1>0, <1>1, Stepped
<1>3. ASSUME NEW e, NEW y PROVE ~InCall(e, s, y)
  BY Zenon, <1>0, OverHolds DEF ExportLogs
<1>4. ASSUME NEW e, NEW y PROVE ~InCall(e, s, y)'
  <2>1. fire[s].next \in Nat /\ fire[s].cut.batches \in Seq(Seq(Events))
    BY Zenon, <1>0 DEF FireRecord, Acc
  <2>2. ASSUME NEW k \in DOMAIN fire[s].cut.batches PROVE k >= fire[s].next + 1 => k >= fire[s].next
    BY SMT, Z3, <2>1
  <2>3. InCall(e, s, y)' => InCall(e, s, y)
    BY <1>2, <2>2 DEF InCall
  <2> QED BY Zenon, <1>3, <2>3
<1> QED BY ZenonT(40), SMT, <1>0, <1>2, <1>3, <1>4, SlotPlaces

(* A batch that is done held no event.                                     *)
LEMMA DonePlaces == ASSUME Typed, Placed, NEW s \in Slots, FireDone(s) PROVE Placed'
<1>0. fire \in [Slots -> FireRecord] /\ UNCHANGED <<ev, fate, adder, work, batch>>
  BY Zenon DEF Typed, FireDone, musterVars
<1>1. fire'[s] = NoFire /\ \A t \in Slots : t # s => fire'[t] = fire[t]
  BY Zenon, <1>0 DEF FireDone
<1>2. NoFire.groups = {} /\ NoFire.cut.batches = <<>>
  BY DEF NoFire, Fired, NoBatch
<1>3. fire'[s].groups = fire[s].groups
  BY ZenonT(40), SMT, <1>1, <1>2 DEF FireDone
<1>4. ASSUME NEW e, NEW y PROVE ~InCall(e, s, y)
  BY ZenonT(40), SMT, <1>0, OverMeans, OverHolds DEF FireDone
<1>5. ASSUME NEW e, NEW y PROVE ~InCall(e, s, y)'
  BY <1>1, <1>2 DEF InCall
<1> QED BY ZenonT(40), SMT, <1>0, <1>1, <1>3, <1>4, <1>5, SlotPlaces

(* In the beginning every event is new.                                    *)
LEMMA PlacedInit == ASSUME Init PROVE Placed
<1>0. Typed /\ 0 \notin Events /\ Events = 1..Len(ev) /\ Len(ev) \in Nat
  <2>1. Typed
    BY TypedInit
  <2> QED BY <2>1, EventsNat DEF Typed
<1>1. Range(<<>>) = {} /\ Distinct(<<>>)
  BY DEF Range, Distinct
<1>2. \A d \in Events : \A x : ~InAdd(d, x) /\ ~InWork(d, x) /\ ~InBatch(d, x)
  BY ZenonT(40), SMT, <1>0, <1>1 DEF Init, InAdd, InWork, InBatch, NoAdd
<1>3. \A m \in Musters : Distinct(work[m]) /\ Distinct(batch[m])
  BY Zenon, <1>1 DEF Init
<1>4. CASE fire = [s \in Slots |-> NoFire] /\ fate = [e \in Events |-> "new"]
  <2>1. ASSUME NEW d \in Events PROVE One(d)
    <3>1. ASSUME NEW x, NEW y PROVE ~InList(d, x, y) /\ ~InCall(d, x, y)
      <4>1. x \in Slots => fire[x] = NoFire
        BY <1>4
      <4>2. x \in Slots => ~InList(d, x, y) /\ ~InCall(d, x, y)
        BY Zenon, <4>1, IdleHolds
      <4> QED BY Zenon, <4>2 DEF InList, InCall
    <3>2. \A k, x, y : ~Holds(d, k, x, y)
      BY Zenon, <1>2, <3>1 DEF Holds
    <3>3. fate[d] # "held"
      BY Zenon, <1>4
    <3> QED BY ZenonT(40), SMT, <3>2, <3>3 DEF One
  <2>2. NoFire.groups = {}
    BY Zenon DEF NoFire, Fired
  <2> QED BY ZenonT(40), SMT, <1>3, <1>4, <2>1, <2>2 DEF Placed
<1>5. CASE /\ fate = [e \in Events |-> "held"]
           /\ fire = [s \in Slots |-> IF s = <<1, 1>> THEN Fired({[e \in Events |-> e]}, 1) ELSE NoFire]
  <2> DEFINE all == [e \in Events |-> e]
             one == <<1, 1>>
  <2>0. one \in Slots
    BY SMT, Z3, TransmissionAssumption DEF Slots, Musters
  <2>1. Distinct(all) /\ Range(all) = Events
    BY DEF Distinct, Range
  <2> HIDE DEF all, one
  <2>2. fire = [s \in Slots |-> IF s = one THEN Fired({all}, 1) ELSE NoFire]
    BY Zenon, <1>5 DEF all, one
  <2>3. fire[one].groups = {all} /\ fire[one].cut.batches = <<>>
    BY ZenonT(40), SMT, <2>0, <2>2 DEF Fired, NoBatch
  <2>4. ASSUME NEW s \in Slots, s # one PROVE fire[s] = NoFire /\ fire[s].groups = {}
    BY Zenon, <2>2, <2>4 DEF NoFire, Fired
  <2>5. ASSUME NEW d \in Events PROVE One(d)
    <3>1. ASSUME NEW x, NEW y
          PROVE  ~InCall(d, x, y) /\ (InList(d, x, y) => x = one /\ y = all)
      <4>1. CASE x \in Slots /\ x # one
        BY ZenonT(40), SMT, <2>4, <4>1, IdleHolds
      <4>2. CASE x = one
        BY SMT, Z3, <2>3, <4>2 DEF InCall, InList
      <4>3. CASE x \notin Slots
        BY Zenon, <4>3 DEF InCall, InList
      <4> QED BY ZenonT(40), SMT, <4>1, <4>2, <4>3
    <3>2. InList(d, one, all)
      BY Zenon, <2>0, <2>1, <2>3 DEF InList
    <3>3. Holds(d, "list", one, all)
      BY Zenon, <3>2 DEF Holds
    <3>4. \A k, x, y : Holds(d, k, x, y) => k = "list" /\ x = one /\ y = all
      BY Zenon, <1>2, <3>1 DEF Holds
    <3>5. fate[d] = "held"
      BY <1>5
    <3> QED BY SMT, Z3, <3>3, <3>4, <3>5 DEF One
  <2>6. \A s \in Slots : \A g \in fire[s].groups : Distinct(g)
    BY Zenon, <2>1, <2>3, <2>4
  <2> QED BY Zenon, <1>3, <2>5, <2>6 DEF Placed
<1> QED BY ZenonT(40), SMT, <1>4, <1>5 DEF Init

(* Every step leaves every event in one place.                             *)
LEMMA PlacedStep == ASSUME Typed, Placed, [Next]_vars PROVE Placed'
<1>1. ASSUME UNCHANGED <<ev, fate, adder, work, batch, fire>> PROVE Placed'
  <2>1. /\ \A d, x : InAdd(d, x)' <=> InAdd(d, x)
        /\ \A d, x : InWork(d, x)' <=> InWork(d, x)
        /\ \A d, x : InBatch(d, x)' <=> InBatch(d, x)
        /\ \A d, x, y : InList(d, x, y)' <=> InList(d, x, y)
        /\ \A d, x, y : InCall(d, x, y)' <=> InCall(d, x, y)
    BY <1>1 DEF InAdd, InWork, InBatch, InList, InCall
  <2>2. ASSUME NEW d \in Events PROVE One(d)'
    <3>1. One(d) /\ fate'[d] = fate[d]
      BY Zenon, <1>1 DEF Placed
    <3> QED BY ZenonT(40), SMT, <2>1, <3>1, OneStays
  <2>3. Events' = Events
    BY Zenon, <1>1 DEF Events
  <2> QED BY ZenonT(40), SMT, <1>1, <2>2, <2>3 DEF Placed
<1>2. CASE NewClient \/ OtherNotEnabled \/ FlushStart \/ processResponses \/ Swap \/ StopOld
           \/ FlushReturn \/ UNCHANGED vars
  <2>1. UNCHANGED <<ev, fate, adder, work, batch, fire>>
    BY ZenonT(40), SMT, <1>2 DEF NewClient, OtherNotEnabled, FlushStart, processResponses, Swap, StopOld, FlushReturn,
                vars, musterVars
  <2> QED BY Zenon, <1>1, <2>1
<1>3. CASE \E m \in Musters : WorkerEnds(m)
  <2>1. UNCHANGED <<ev, fate, adder, work, batch, fire>>
    BY Zenon, <1>3 DEF WorkerEnds
  <2> QED BY <1>1, <2>1
<1>4. CASE \E a \in Adders, e \in NextEvent : EnqueueEvent(a, e)
  BY Zenon, <1>4, EnqueuePlaces
<1>5. CASE \E a \in Adders : Add(a)
  BY Zenon, <1>5, AddPlaces
<1>6. CASE \E m \in Musters : Receive(m)
  BY <1>6, ReceivePlaces
<1>7. CASE \E m \in Musters : FireBatch(m)
  BY ZenonT(40), SMT, <1>7, FirePlaces
<1>8. CASE \E s \in Slots : exportProtoMsgBatch(s)
  BY <1>8, ExportPlaces
<1>9. CASE \E s \in Slots : ExportTraces(s)
  BY <1>9, TracesPlaces
<1>10. CASE \E s \in Slots : ExportLogs(s)
  BY <1>10, LogsPlaces
<1>11. CASE \E s \in Slots : FireDone(s)
  BY <1>11, DonePlaces
<1> QED BY ZenonT(40), SMT, <1>2, <1>3, <1>4, <1>5, <1>6, <1>7, <1>8, <1>9, <1>10, <1>11
        DEF Next, Outside, Progress

(* How Places names the place an event is in.                              *)
Spot(p, e, k, x, y) ==
    \/ k = "adding" /\ p = <<"adding", x>>
    \/ k = "work" /\ \E i \in DOMAIN work[x] : work[x][i] = e /\ p = <<"work", x, i>>
    \/ k = "batch" /\ \E i \in DOMAIN batch[x] : batch[x][i] = e /\ p = <<"batch", x, i>>
    \/ k = "list" /\ p = <<"list", x, y>>
    \/ k = "call" /\ p = <<"call", x, y>>

(* The members of Places, one by one.                                      *)
LEMMA PlacesAre ==
    ASSUME NEW e, NEW p
    PROVE  p \in Places(e) <=>
              \/ \E a \in Adders : adder[a].e = e /\ p = <<"adding", a>>
              \/ \E m \in Musters : \E i \in DOMAIN work[m] : work[m][i] = e /\ p = <<"work", m, i>>
              \/ \E m \in Musters : \E i \in DOMAIN batch[m] : batch[m][i] = e /\ p = <<"batch", m, i>>
              \/ \E s \in Slots : \E g \in fire[s].groups : e \in Range(g) /\ p = <<"list", s, g>>
              \/ \E s \in Slots : \E k \in DOMAIN fire[s].cut.batches :
                    /\ k >= fire[s].next /\ e \in Range(fire[s].cut.batches[k])
                    /\ p = <<"call", s, k>>
<1> DEFINE A == {<<"adding", a>> : a \in {a \in Adders : adder[a].e = e}}
           W(m) == {<<"work", m, i>> : i \in {i \in DOMAIN work[m] : work[m][i] = e}}
           B(m) == {<<"batch", m, i>> : i \in {i \in DOMAIN batch[m] : batch[m][i] = e}}
           L(s) == {<<"list", s, g>> : g \in {g \in fire[s].groups : e \in Range(g)}}
           C(s) == {<<"call", s, k>> : k \in {k \in DOMAIN fire[s].cut.batches :
                          k >= fire[s].next /\ e \in Range(fire[s].cut.batches[k])}}
<1>1. Places(e) = A \cup (UNION {W(m) \cup B(m) : m \in Musters}) \cup (UNION {L(s) \cup C(s) : s \in Slots})
  BY Zenon DEF Places
<1>2. p \in A <=> \E a \in Adders : adder[a].e = e /\ p = <<"adding", a>>
  BY Zenon
<1>3. \A m : p \in W(m) <=> \E i \in DOMAIN work[m] : work[m][i] = e /\ p = <<"work", m, i>>
  BY Zenon
<1>4. \A m : p \in B(m) <=> \E i \in DOMAIN batch[m] : batch[m][i] = e /\ p = <<"batch", m, i>>
  OBVIOUS
<1>5. \A s : p \in L(s) <=> \E g \in fire[s].groups : e \in Range(g) /\ p = <<"list", s, g>>
  BY Zenon
<1>6. \A s : p \in C(s) <=> \E k \in DOMAIN fire[s].cut.batches :
                    /\ k >= fire[s].next /\ e \in Range(fire[s].cut.batches[k])
                    /\ p = <<"call", s, k>>
  OBVIOUS
<1> HIDE DEF A, W, B, L, C
<1>7. p \in UNION {W(m) \cup B(m) : m \in Musters} <=> \E m \in Musters : p \in W(m) \/ p \in B(m)
  OBVIOUS
<1>8. p \in UNION {L(s) \cup C(s) : s \in Slots} <=> \E s \in Slots : p \in L(s) \/ p \in C(s)
  BY ZenonT(40), SMT
<1>9. p \in Places(e) <=> \/ p \in A \/ (\E m \in Musters : p \in W(m)) \/ (\E m \in Musters : p \in B(m))
                          \/ (\E s \in Slots : p \in L(s)) \/ (\E s \in Slots : p \in C(s))
  BY Zenon, <1>1, <1>7, <1>8
<1> QED BY ZenonT(40), SMT, <1>2, <1>3, <1>4, <1>5, <1>6, <1>9

(* A place of Places is one where the event is held.                       *)
LEMMA SpotOf == ASSUME NEW e, NEW p \in Places(e) PROVE \E k, x, y : Holds(e, k, x, y) /\ Spot(p, e, k, x, y)
<1>1. CASE \E a \in Adders : adder[a].e = e /\ p = <<"adding", a>>
  <2> PICK a \in Adders : adder[a].e = e /\ p = <<"adding", a>>
    BY ZenonT(40), SMT, <1>1
  <2>1. Holds(e, "adding", a, 0) /\ Spot(p, e, "adding", a, 0)
    BY Zenon DEF Holds, InAdd, Spot
  <2> QED BY <2>1
<1>2. CASE \E m \in Musters : \E i \in DOMAIN work[m] : work[m][i] = e /\ p = <<"work", m, i>>
  <2> PICK m \in Musters : \E i \in DOMAIN work[m] : work[m][i] = e /\ p = <<"work", m, i>>
    BY <1>2
  <2> PICK i \in DOMAIN work[m] : work[m][i] = e /\ p = <<"work", m, i>>
    BY ZenonT(40), SMT
  <2>1. Holds(e, "work", m, 0) /\ Spot(p, e, "work", m, 0)
    BY Zenon DEF Holds, InWork, Spot, Range
  <2> QED BY Zenon, <2>1
<1>3. CASE \E m \in Musters : \E i \in DOMAIN batch[m] : batch[m][i] = e /\ p = <<"batch", m, i>>
  <2> PICK m \in Musters : \E i \in DOMAIN batch[m] : batch[m][i] = e /\ p = <<"batch", m, i>>
    BY <1>3
  <2> PICK i \in DOMAIN batch[m] : batch[m][i] = e /\ p = <<"batch", m, i>>
    BY ZenonT(40), SMT
  <2>1. Holds(e, "batch", m, 0) /\ Spot(p, e, "batch", m, 0)
    BY Zenon DEF Holds, InBatch, Spot, Range
  <2> QED BY Zenon, <2>1
<1>4. CASE \E s \in Slots : \E g \in fire[s].groups : e \in Range(g) /\ p = <<"list", s, g>>
  <2> PICK s \in Slots : \E g \in fire[s].groups : e \in Range(g) /\ p = <<"list", s, g>>
    BY <1>4
  <2> PICK g \in fire[s].groups : e \in Range(g) /\ p = <<"list", s, g>>
    BY Zenon
  <2>1. Holds(e, "list", s, g) /\ Spot(p, e, "list", s, g)
    BY ZenonT(40), SMT DEF Holds, InList, Spot
  <2> QED BY Zenon, <2>1
<1>5. CASE \E s \in Slots : \E k \in DOMAIN fire[s].cut.batches :
             /\ k >= fire[s].next /\ e \in Range(fire[s].cut.batches[k])
             /\ p = <<"call", s, k>>
  <2> PICK s \in Slots : \E k \in DOMAIN fire[s].cut.batches :
             /\ k >= fire[s].next /\ e \in Range(fire[s].cut.batches[k])
             /\ p = <<"call", s, k>>
    BY Zenon, <1>5
  <2> PICK k \in DOMAIN fire[s].cut.batches :
             /\ k >= fire[s].next /\ e \in Range(fire[s].cut.batches[k])
             /\ p = <<"call", s, k>>
    BY Zenon
  <2>1. Holds(e, "call", s, k) /\ Spot(p, e, "call", s, k)
    BY ZenonT(40), SMT DEF Holds, InCall, Spot
  <2> QED BY Zenon, <2>1
<1>6. \/ \E a \in Adders : adder[a].e = e /\ p = <<"adding", a>>
      \/ \E m \in Musters : \E i \in DOMAIN work[m] : work[m][i] = e /\ p = <<"work", m, i>>
      \/ \E m \in Musters : \E i \in DOMAIN batch[m] : batch[m][i] = e /\ p = <<"batch", m, i>>
      \/ \E s \in Slots : \E g \in fire[s].groups : e \in Range(g) /\ p = <<"list", s, g>>
      \/ \E s \in Slots : \E k \in DOMAIN fire[s].cut.batches :
            /\ k >= fire[s].next /\ e \in Range(fire[s].cut.batches[k])
            /\ p = <<"call", s, k>>
  BY SMT, Z3, PlacesAre
<1> QED BY <1>1, <1>2, <1>3, <1>4, <1>5, <1>6, Zenon

(* An event that is held has a place.                                      *)
LEMMA HasSpot == ASSUME NEW e, NEW k, NEW x, NEW y, Holds(e, k, x, y) PROVE Places(e) # {}
<1>1. CASE InAdd(e, x)
  <2>1. <<"adding", x>> \in Places(e)
    BY Zenon, <1>1, PlacesAre DEF InAdd
  <2> QED BY Zenon, <2>1
<1>2. CASE InWork(e, x)
  <2> PICK i \in DOMAIN work[x] : work[x][i] = e
    BY ZenonT(40), SMT, <1>2 DEF InWork, Range
  <2>1. <<"work", x, i>> \in Places(e)
    BY Zenon, <1>2, PlacesAre DEF InWork
  <2> QED BY Zenon, <2>1
<1>3. CASE InBatch(e, x)
  <2> PICK i \in DOMAIN batch[x] : batch[x][i] = e
    BY Zenon, <1>3 DEF InBatch, Range
  <2>1. <<"batch", x, i>> \in Places(e)
    BY Zenon, <1>3, PlacesAre DEF InBatch
  <2> QED BY ZenonT(40), SMT, <2>1
<1>4. CASE InList(e, x, y)
  <2>1. <<"list", x, y>> \in Places(e)
    BY Zenon, <1>4, PlacesAre DEF InList
  <2> QED BY ZenonT(40), SMT, <2>1
<1>5. CASE InCall(e, x, y)
  <2>1. <<"call", x, y>> \in Places(e)
    BY Zenon, <1>5, PlacesAre DEF InCall
  <2> QED BY ZenonT(40), SMT, <2>1
<1> QED BY ZenonT(40), SMT, <1>1, <1>2, <1>3, <1>4, <1>5 DEF Holds

(* Placed implies the property that is checked.                            *)
LEMMA PlacedInOne == ASSUME Placed PROVE InOnePlace
<1> SUFFICES ASSUME NEW e \in Events
             PROVE  Cardinality(Places(e)) = IF fate[e] = "held" THEN 1 ELSE 0
  BY DEF InOnePlace
<1>0. One(e)
  BY DEF Placed
<1>1. CASE fate[e] = "held"
  <2>1. PICK k, x, y : Holds(e, k, x, y)
    BY Zenon, <1>0, <1>1 DEF One
  <2>2. PICK p : p \in Places(e)
    BY Zenon, <2>1, HasSpot
  <2>3. ASSUME NEW q \in Places(e) PROVE Spot(q, e, k, x, y)
    <3>1. PICK l, v, w : Holds(e, l, v, w) /\ Spot(q, e, l, v, w)
      BY Zenon, SpotOf
    <3>2. l = k /\ v = x /\ w = y
      BY ZenonT(40), SMT, <1>0, <2>1, <3>1 DEF One
    <3> QED BY Zenon, <3>1, <3>2
  <2>4. ASSUME NEW q \in Places(e) PROVE q = p
    <3>1. Spot(q, e, k, x, y) /\ Spot(p, e, k, x, y)
      BY Zenon, <2>2, <2>3
    <3>2. CASE k = "work"
      <4>0. x \in Musters
        BY Zenon, <2>1, <3>2 DEF Holds, InWork
      <4>1. Distinct(work[x])
        BY Zenon, <4>0 DEF Placed
      <4> QED BY Zenon, <3>1, <3>2, <4>1 DEF Spot, Distinct
    <3>3. CASE k = "batch"
      <4>0. x \in Musters
        BY Zenon, <2>1, <3>3 DEF Holds, InBatch
      <4>1. Distinct(batch[x])
        BY ZenonT(40), SMT, <4>0 DEF Placed
      <4> QED BY ZenonT(40), SMT, <3>1, <3>3, <4>1 DEF Spot, Distinct
    <3>4. CASE k # "work" /\ k # "batch"
      BY SMT, Z3, <3>1, <3>4 DEF Spot
    <3> QED BY Zenon, <3>2, <3>3, <3>4
  <2>5. Places(e) = {p}
    BY ZenonT(40), SMT, <2>2, <2>4
  <2>6. Cardinality({p}) = 1
    BY ZenonT(40), SMT, CardinalityOne
  <2> QED BY ZenonT(40), SMT, <1>1, <2>5, <2>6
<1>2. CASE fate[e] # "held"
  <2>1. \A k, x, y : ~Holds(e, k, x, y)
    BY ZenonT(40), SMT, <1>0, <1>2 DEF One
  <2>2. ASSUME NEW p \in Places(e) PROVE FALSE
    BY ZenonT(40), SMT, <2>1, SpotOf
  <2>3. Places(e) = {}
    BY <2>2
  <2>4. Cardinality({}) = 0
    BY CardinalityNone
  <2> QED BY ZenonT(40), SMT, <1>2, <2>3, <2>4
<1> QED BY Zenon, <1>1, <1>2

(* An event is somewhere in muster m: in its work channel, in its worker's *)
(* batch, or in a batch it has fired.                                      *)
InMuster(e, m) ==
    \/ InWork(e, m) \/ InBatch(e, m)
    \/ \E s \in Slots : s[1] = m /\ \E y : InList(e, s, y) \/ InCall(e, s, y)

(* An event that a goroutine is adding to muster m.                        *)
Comes(e, m) == \E a \in Adders : adder[a] # NoAdd /\ adder[a].e = e /\ adder[a].m = m

(* Events come into a muster by Add only.                                  *)
LEMMA AddFlows ==
    ASSUME Typed, NEW a \in Adders, Add(a), NEW e, NEW m \in Musters, InMuster(e, m)'
    PROVE  InMuster(e, m) \/ Comes(e, m)
<1>0. adder \in [Adders -> AddRecord] /\ work \in [Musters -> Seq(Events)] /\ adder[a] # NoAdd
  BY Zenon DEF Typed, Add
<1>1. adder[a].e \in Events /\ adder[a].m \in Musters
  BY <1>0 DEF AddRecord
<1>2. UNCHANGED <<batch, fire>>
  BY Zenon DEF Add
<1>3. /\ InBatch(e, m)' <=> InBatch(e, m)
      /\ \A x, y : InList(e, x, y)' <=> InList(e, x, y)
      /\ \A x, y : InCall(e, x, y)' <=> InCall(e, x, y)
  BY ZenonT(40), SMT, <1>2 DEF InBatch, InList, InCall
<1>4. InWork(e, m)' => InWork(e, m) \/ Comes(e, m)
  <2>1. CASE work' = work
    BY <2>1 DEF InWork
  <2>2. CASE SendWork(a)
    <3>1. work' = [work EXCEPT ![adder[a].m] = Append(work[adder[a].m], adder[a].e)]
      BY Zenon, <2>2 DEF SendWork
    <3>2. work[adder[a].m] \in Seq(Events)
      BY ZenonT(40), SMT, <1>0, <1>1
    <3>3. Range(Append(work[adder[a].m], adder[a].e)) = Range(work[adder[a].m]) \cup {adder[a].e}
      BY SMT, Z3, <1>1, <3>2, AppendElements
    <3>4. CASE m = adder[a].m
      <4>1. work'[m] = Append(work[adder[a].m], adder[a].e)
        BY ZenonT(40), SMT, <1>0, <3>1, <3>4
      <4>2. InWork(e, m)' => e = adder[a].e \/ InWork(e, m)
        BY ZenonT(40), SMT, <3>3, <3>4, <4>1 DEF InWork
      <4> QED BY Zenon, <1>0, <3>4, <4>2 DEF Comes
    <3>5. CASE m # adder[a].m
      BY ZenonT(40), SMT, <1>0, <3>1, <3>5 DEF InWork
    <3> QED BY ZenonT(40), SMT, <3>4, <3>5
  <2> QED BY ZenonT(40), SMT, <2>1, <2>2 DEF Add
<1> QED BY ZenonT(40), SMT, <1>3, <1>4 DEF InMuster

(* Receive brings no event into a muster.                                  *)
LEMMA ReceiveFlows ==
    ASSUME Typed, Placed, NEW n \in Musters, Receive(n), NEW e, NEW m \in Musters, InMuster(e, m)'
    PROVE  InMuster(e, m)
<1>0. work \in [Musters -> Seq(Events)] /\ batch \in [Musters -> Seq(Events)]
  BY Zenon DEF Typed
<1>1. fire' = fire
  BY Zenon DEF Receive
<1>2. /\ \A x, y : InList(e, x, y)' <=> InList(e, x, y)
      /\ \A x, y : InCall(e, x, y)' <=> InCall(e, x, y)
  BY Zenon, <1>1 DEF InList, InCall
<1>3. CASE m # n
  <2>1. work'[m] = work[m] /\ batch'[m] = batch[m]
    BY Zenon, <1>0, <1>3 DEF Receive
  <2> QED BY ZenonT(40), SMT, <1>2, <2>1 DEF InMuster, InWork, InBatch
<1>4. CASE m = n
  <2> PICK q \in Seq(Events) : q = work[m]
    BY Zenon, <1>0
  <2> PICK b \in Seq(Events) : b = batch[m]
    BY Zenon, <1>0
  <2>1. q # <<>> /\ Distinct(q)
    BY ZenonT(40), SMT, <1>4 DEF Receive, Placed
  <2>2. Head(q) \in Range(q) /\ Range(Tail(q)) = Range(q) \ {Head(q)} /\ Head(q) \in Events
    BY SMT, Z3, <2>1, TailElements
  <2>3. Range(Append(b, Head(q))) = Range(b) \cup {Head(q)}
    BY SMT, Z3, <2>2, AppendElements
  <2>4. work'[m] = Tail(q) /\ batch'[m] = Append(b, Head(q))
    BY Zenon, <1>0, <1>4 DEF Receive
  <2>5. InWork(e, m)' => InWork(e, m)
    BY ZenonT(40), SMT, <2>2, <2>4 DEF InWork
  <2>6. InBatch(e, m)' => InBatch(e, m) \/ InWork(e, m)
    BY ZenonT(40), SMT, <2>2, <2>3, <2>4 DEF InBatch, InWork
  <2> QED BY ZenonT(40), SMT, <1>2, <2>5, <2>6 DEF InMuster
<1> QED BY Zenon, <1>3, <1>4

(* Firing a batch brings no event into a muster.                           *)
LEMMA FireFlows ==
    ASSUME Typed, Placed, NEW n \in Musters, FireBatch(n), NEW e, NEW m \in Musters, InMuster(e, m)'
    PROVE  InMuster(e, m)
<1>0. batch \in [Musters -> Seq(Events)] /\ fire \in [Slots -> FireRecord]
  BY Zenon DEF Typed
<1> PICK b \in Seq(Events) : b = batch[n]
  BY Zenon, <1>0
<1>1. PICK s \in Slots : s[1] = n /\ fire' = [fire EXCEPT ![s] = Fired(batches(b), 1)]
  BY ZenonT(40), SMT DEF FireBatch
<1>2. Distinct(b)
  BY DEF Placed
<1>3. \A g \in batches(b) : Range(g) \subseteq Range(b)
  BY ZenonT(40), SMT, <1>2, BatchesSplit
<1>4. /\ fire'[s].groups = batches(b) /\ fire'[s].cut.batches = <<>>
      /\ \A t \in Slots : t # s => fire'[t] = fire[t]
  BY ZenonT(40), SMT, <1>0, <1>1 DEF Fired, NoBatch
<1>5. InWork(e, m)' => InWork(e, m)
  BY ZenonT(40), SMT DEF FireBatch, InWork
<1>6. InBatch(e, m)' => InBatch(e, m)
  <2>1. Range(<<>>) = {}
    BY SMT, Z3 DEF Range
  <2> QED BY ZenonT(40), SMT, <1>0, <2>1 DEF FireBatch, InBatch
<1>7. ASSUME NEW t \in Slots, t[1] = m, NEW y, InList(e, t, y)' \/ InCall(e, t, y)'
      PROVE  InMuster(e, m)
  <2>1. CASE t # s
    <3>1. InList(e, t, y) \/ InCall(e, t, y)
      BY ZenonT(40), SMT, <1>4, <1>7, <2>1 DEF InList, InCall
    <3> QED BY ZenonT(40), SMT, <1>7, <3>1 DEF InMuster
  <2>2. CASE t = s
    <3>1. ~InCall(e, t, y)'
      BY SMT, Z3, <1>4, <2>2 DEF InCall
    <3>2. y \in batches(b) /\ e \in Range(y)
      BY ZenonT(40), SMT, <1>4, <1>7, <2>2, <3>1 DEF InList
    <3>3. InBatch(e, m)
      BY ZenonT(40), SMT, <1>1, <1>3, <1>7, <2>2, <3>2 DEF InBatch
    <3> QED BY ZenonT(40), SMT, <3>3 DEF InMuster
  <2> QED BY ZenonT(40), SMT, <2>1, <2>2
<1> QED BY ZenonT(40), SMT, <1>5, <1>6, <1>7 DEF InMuster

(* Taking up a list brings no event into a muster.                         *)
LEMMA ExportFlows ==
    ASSUME Typed, Placed, NEW s \in Slots, exportProtoMsgBatch(s), NEW e, NEW m \in Musters,
           InMuster(e, m)'
    PROVE  InMuster(e, m)
<1>0. fire \in [Slots -> FireRecord] /\ ev \in Seq(EventShape) /\ UNCHANGED <<work, batch>>
  BY Zenon, ExportIs DEF Typed, musterVars
<1>1. PICK list \in fire[s].groups : fire' = [fire EXCEPT ![s] = Exported(s, list)]
  BY Zenon, ExportIs
<1>2. list \in Seq(Events) /\ Distinct(list)
  BY Zenon, <1>0 DEF FireRecord, Placed
<1> PICK cut : cut = ExportCut(list)
  BY Zenon
<1>3. cut \in Acc(Events) /\ Apart(cut, Range(list))
  BY ZenonT(40), SMT, <1>0, <1>2, CutTyped, CutApart
<1>4. /\ fire'[s].groups = fire[s].groups \ {list} /\ fire'[s].cut = cut
      /\ \A t \in Slots : t # s => fire'[t] = fire[t]
  BY ZenonT(40), SMT, <1>0, <1>1 DEF Exported
<1>5. \A k \in DOMAIN cut.batches : Range(cut.batches[k]) \subseteq Range(list)
  BY <1>3 DEF Acc, Apart
<1>6. (InWork(e, m)' <=> InWork(e, m)) /\ (InBatch(e, m)' <=> InBatch(e, m))
  BY Zenon, <1>0 DEF InWork, InBatch
<1>7. ASSUME NEW t \in Slots, t[1] = m, NEW y, InList(e, t, y)' \/ InCall(e, t, y)'
      PROVE  InMuster(e, m)
  <2>1. CASE t # s
    <3>1. InList(e, t, y) \/ InCall(e, t, y)
      BY ZenonT(40), SMT, <1>4, <1>7, <2>1 DEF InList, InCall
    <3> QED BY Zenon, <1>7, <3>1 DEF InMuster
  <2>2. CASE t = s
    <3>1. InList(e, t, y)' => InList(e, t, y)
      BY Zenon, <1>4, <2>2 DEF InList
    <3>2. InCall(e, t, y)' => InList(e, t, list)
      <4>1. InCall(e, t, y)' => y \in DOMAIN cut.batches /\ e \in Range(cut.batches[y])
        BY Zenon, <1>4, <2>2 DEF InCall
      <4> QED BY ZenonT(40), SMT, <1>5, <2>2, <4>1 DEF InList
    <3> QED BY ZenonT(40), SMT, <1>7, <3>1, <3>2 DEF InMuster
  <2> QED BY Zenon, <2>1, <2>2
<1> QED BY ZenonT(40), SMT, <1>6, <1>7 DEF InMuster

(* Neither do the calls, nor their end.                                    *)
LEMMA CallFlows ==
    ASSUME Typed, NEW s \in Slots, UNCHANGED <<work, batch>>,
           \A t \in Slots : t # s => fire'[t] = fire[t],
           \/ fire'[s] = NoFire
           \/ /\ fire'[s].groups = fire[s].groups /\ fire'[s].cut = fire[s].cut
              /\ fire'[s].next = fire[s].next + 1,
           NEW e, NEW m \in Musters, InMuster(e, m)'
    PROVE  InMuster(e, m)
<1>1. (InWork(e, m)' <=> InWork(e, m)) /\ (InBatch(e, m)' <=> InBatch(e, m))
  BY Zenon DEF InWork, InBatch
<1>2. ASSUME NEW t \in Slots, NEW y, InList(e, t, y)' \/ InCall(e, t, y)'
      PROVE  InList(e, t, y) \/ InCall(e, t, y)
  <2>1. CASE t # s
    BY ZenonT(40), SMT, <1>2, <2>1 DEF InList, InCall
  <2>2. CASE t = s /\ fire'[s] = NoFire
    <3>1. NoFire.groups = {} /\ NoFire.cut.batches = <<>>
      BY Zenon DEF NoFire, Fired, NoBatch
    <3> QED BY SMT, Z3, <1>2, <2>2, <3>1 DEF InList, InCall
  <2>3. CASE /\ t = s /\ fire'[s].groups = fire[s].groups /\ fire'[s].cut = fire[s].cut
             /\ fire'[s].next = fire[s].next + 1
    <3>1. fire[s].next \in Nat /\ fire[s].cut.batches \in Seq(Seq(Events))
      BY ZenonT(40), SMT DEF Typed, FireRecord, Acc
    <3>2. \A k, n \in Nat : k >= n + 1 => k >= n
      BY SMT, Z3
    <3>3. DOMAIN fire[s].cut.batches \subseteq Nat
      BY SMT, Z3, <3>1
    <3>4. ASSUME NEW k \in DOMAIN fire[s].cut.batches PROVE k >= fire[s].next + 1 => k >= fire[s].next
      BY ZenonT(40), SMT, <3>1, <3>2, <3>3
    <3> QED BY ZenonT(40), SMT, <1>2, <2>3, <3>4 DEF InList, InCall
  <2> QED BY ZenonT(40), SMT, <2>1, <2>2, <2>3
<1> QED BY ZenonT(40), SMT, <1>1, <1>2 DEF InMuster

(* Whatever the step, an event in a muster was there before or was just    *)
(* being added to it.                                                      *)
LEMMA Flows ==
    ASSUME Typed, Placed, [Next]_vars, NEW e, NEW m \in Musters, InMuster(e, m)'
    PROVE  InMuster(e, m) \/ Comes(e, m)
<1>1. ASSUME UNCHANGED <<work, batch, fire>> PROVE InMuster(e, m)
  <2>1. /\ InWork(e, m)' <=> InWork(e, m)
        /\ InBatch(e, m)' <=> InBatch(e, m)
        /\ \A x, y : InList(e, x, y)' <=> InList(e, x, y)
        /\ \A x, y : InCall(e, x, y)' <=> InCall(e, x, y)
    BY <1>1 DEF InWork, InBatch, InList, InCall
  <2> QED BY ZenonT(40), SMT, <2>1 DEF InMuster
<1>2. CASE NewClient \/ OtherNotEnabled \/ FlushStart \/ processResponses \/ Swap \/ StopOld
           \/ FlushReturn \/ UNCHANGED vars
  <2>1. UNCHANGED <<work, batch, fire>>
    BY Zenon, <1>2 DEF NewClient, OtherNotEnabled, FlushStart, processResponses, Swap, StopOld, FlushReturn,
                vars, musterVars
  <2> QED BY <1>1, <2>1
<1>3. CASE \E n \in Musters : WorkerEnds(n)
  BY Zenon, <1>1, <1>3 DEF WorkerEnds
<1>4. CASE \E a \in Adders, d \in NextEvent : EnqueueEvent(a, d)
  BY ZenonT(40), SMT, <1>1, <1>4 DEF EnqueueEvent, musterVars
<1>5. CASE \E a \in Adders : Add(a)
  BY Zenon, <1>5, AddFlows
<1>6. CASE \E n \in Musters : Receive(n)
  BY ZenonT(40), SMT, <1>6, ReceiveFlows
<1>7. CASE \E n \in Musters : FireBatch(n)
  BY <1>7, FireFlows
<1>8. CASE \E s \in Slots : exportProtoMsgBatch(s)
  BY <1>8, ExportFlows
<1>9. ASSUME NEW s \in Slots, ExportTraces(s) PROVE InMuster(e, m)
  <2>1. fire \in [Slots -> FireRecord] /\ UNCHANGED <<work, batch>>
    BY <1>9 DEF Typed, ExportTraces, musterVars
  <2>2. fire' = [fire EXCEPT ![s].next = fire[s].next + 1]
    BY <1>9 DEF ExportTraces
  <2> QED BY ZenonT(40), SMT, <2>1, <2>2, Stepped, CallFlows
<1>10. ASSUME NEW s \in Slots, ExportLogs(s) PROVE InMuster(e, m)
  <2>1. fire \in [Slots -> FireRecord] /\ UNCHANGED <<work, batch>>
    BY <1>10 DEF Typed, ExportLogs, musterVars
  <2>2. fire' = [fire EXCEPT ![s].next = fire[s].next + 1]
    BY ZenonT(40), SMT, <1>10 DEF ExportLogs
  <2> QED BY ZenonT(40), SMT, <2>1, <2>2, Stepped, CallFlows
<1>11. ASSUME NEW s \in Slots, FireDone(s) PROVE InMuster(e, m)
  <2>1. UNCHANGED <<work, batch>> /\ fire'[s] = NoFire /\ \A t \in Slots : t # s => fire'[t] = fire[t]
    BY Zenon, <1>11 DEF Typed, FireDone, musterVars
  <2> QED BY <2>1, CallFlows
<1> QED BY ZenonT(40), SMT, <1>2, <1>3, <1>4, <1>5, <1>6, <1>7, <1>8, <1>9, <1>10, <1>11
        DEF Next, Outside, Progress

-----------------------------------------------------------------------------
(* A muster that is neither in use nor being stopped by Flush is empty; a  *)
(* worker that has ended has left nothing.                                 *)
Stopping(m) == flush.at \in {"swapped", "stopping"} /\ m = flush.m
Passed ==
    /\ \A m \in Musters, e \in Events : m # muster /\ ~Stopping(m) => ~InMuster(e, m)
    /\ \A m \in ended : work[m] = <<>> /\ batch[m] = <<>>

(* In the beginning no muster is stopping.                                 *)
LEMMA PassedInit == ASSUME Init PROVE Passed
<1>1. muster = 1 /\ ended = {} /\ work = [m \in Musters |-> <<>>] /\ batch = [m \in Musters |-> <<>>]
  BY DEF Init
<1>2. ASSUME NEW m \in Musters, NEW e \in Events, m # 1 PROVE ~InMuster(e, m)
  <2>1. Range(<<>>) = {}
    BY DEF Range
  <2>2. ~InWork(e, m) /\ ~InBatch(e, m)
    BY <1>1, <2>1 DEF InWork, InBatch
  <2>3. ASSUME NEW s \in Slots, s[1] = m, NEW y PROVE ~InList(e, s, y) /\ ~InCall(e, s, y)
    <3>1. s # <<1, 1>>
      BY <1>2, <2>3
    <3>2. fire[s] = NoFire
      BY Zenon, <3>1 DEF Init
    <3> QED BY <3>2, IdleHolds
  <2> QED BY <2>2, <2>3 DEF InMuster
<1> QED BY ZenonT(40), SMT, <1>1, <1>2 DEF Passed

(* A worker that has ended has nothing left and gets nothing.              *)
LEMMA EndedStep ==
    ASSUME Typed, Locked, Passed, [Next]_vars
    PROVE  \A m \in ended' : work'[m] = <<>> /\ batch'[m] = <<>>
<1>0. /\ adder \in [Adders -> AddRecord] /\ muster \in Nat /\ closed \subseteq Nat /\ ended \subseteq Musters
      /\ work \in [Musters -> Seq(Events)] /\ batch \in [Musters -> Seq(Events)]
  <2>1. \A m \in Musters : m \in Nat
    BY TransmissionAssumption DEF Musters
  <2> QED BY <2>1 DEF Typed
<1>1. muster \notin ended
  BY SMT, Z3, <1>0 DEF Locked
<1>2. CASE UNCHANGED <<work, batch, ended>>
  BY <1>2 DEF Passed
<1>3. ASSUME NEW a \in Adders, Add(a) PROVE \A m \in ended' : work'[m] = <<>> /\ batch'[m] = <<>>
  <2>1. adder[a].m = muster /\ UNCHANGED <<batch, ended>>
    BY Zenon, <1>3 DEF Add, Locked
  <2>2. \A m \in ended : work'[m] = work[m]
    BY ZenonT(40), SMT, <1>0, <1>1, <1>3, <2>1 DEF Add, SendWork
  <2> QED BY ZenonT(40), SMT, <2>1, <2>2 DEF Passed
<1>4. ASSUME NEW n \in Musters, Receive(n) PROVE \A m \in ended' : work'[m] = <<>> /\ batch'[m] = <<>>
  <2>1. n \notin ended /\ ended' = ended
    BY Zenon, <1>4 DEF Receive
  <2>2. \A m \in ended : work'[m] = work[m] /\ batch'[m] = batch[m]
    BY <1>0, <1>4, <2>1 DEF Receive
  <2> QED BY Zenon, <2>1, <2>2 DEF Passed
<1>5. ASSUME NEW n \in Musters, FireBatch(n) PROVE \A m \in ended' : work'[m] = <<>> /\ batch'[m] = <<>>
  <2>1. UNCHANGED <<work, ended>>
    BY Zenon, <1>5 DEF FireBatch
  <2>2. \A m \in ended : batch'[m] = <<>>
    BY Zenon, <1>0, <1>5 DEF FireBatch, Passed
  <2> QED BY ZenonT(40), SMT, <2>1, <2>2 DEF Passed
<1>6. ASSUME NEW n \in Musters, WorkerEnds(n) PROVE \A m \in ended' : work'[m] = <<>> /\ batch'[m] = <<>>
  BY <1>6 DEF WorkerEnds, Passed
<1>7. CASE \/ NewClient \/ OtherNotEnabled \/ FlushStart \/ processResponses \/ Swap \/ StopOld
           \/ FlushReturn \/ UNCHANGED vars
  BY ZenonT(40), SMT, <1>2, <1>7 DEF NewClient, OtherNotEnabled, FlushStart, processResponses, Swap, StopOld,
                    FlushReturn, vars, musterVars
<1>8. CASE \E a \in Adders, e \in NextEvent : EnqueueEvent(a, e)
  BY <1>2, <1>8 DEF EnqueueEvent, musterVars
<1>9. ASSUME NEW s \in Slots,
             exportProtoMsgBatch(s) \/ ExportTraces(s) \/ ExportLogs(s) \/ FireDone(s)
      PROVE  UNCHANGED <<work, batch, ended>>
  BY Zenon, <1>9 DEF exportProtoMsgBatch, ExportTraces, ExportLogs, FireDone, musterVars
<1> QED BY ZenonT(40), SMT, <1>2, <1>3, <1>4, <1>5, <1>6, <1>7, <1>8, <1>9 DEF Next, Outside, Progress

(* The steps that do not belong to Flush leave it and the muster in use.   *)
FlushStep == FlushStart \/ Swap \/ StopOld \/ FlushReturn

(* Only the steps of Flush change the muster in use.                       *)
LEMMA FlushApart == ASSUME [Next]_vars, ~FlushStep PROVE UNCHANGED <<flush, muster>>
<1>1. CASE NewClient \/ OtherNotEnabled \/ processResponses \/ UNCHANGED vars
  BY Zenon, <1>1 DEF NewClient, OtherNotEnabled, processResponses, vars, musterVars, flushVars
<1>2. CASE \E a \in Adders, e \in NextEvent : EnqueueEvent(a, e)
  BY Zenon, <1>2 DEF EnqueueEvent, musterVars, flushVars
<1>3. CASE \E a \in Adders : Add(a)
  BY <1>3 DEF Add, flushVars
<1>4. CASE \E m \in Musters : Receive(m) \/ FireBatch(m) \/ WorkerEnds(m)
  BY Zenon, <1>4 DEF Receive, FireBatch, WorkerEnds, flushVars
<1>5. CASE \E s \in Slots : exportProtoMsgBatch(s) \/ ExportTraces(s) \/ ExportLogs(s) \/ FireDone(s)
  BY Zenon, <1>5 DEF exportProtoMsgBatch, ExportTraces, ExportLogs, FireDone, musterVars, flushVars
<1> QED BY Zenon, <1>1, <1>2, <1>3, <1>4, <1>5 DEF Next, Outside, Progress, FlushStep

(* The events of a behaviour are given.                                    *)
LEMMA EventsStay == ASSUME [Next]_vars PROVE ev' = ev
<1>1. CASE \/ NewClient \/ OtherNotEnabled \/ processResponses \/ FlushStart \/ Swap \/ StopOld
           \/ FlushReturn \/ UNCHANGED vars
  BY Zenon, <1>1 DEF NewClient, OtherNotEnabled, processResponses, FlushStart, Swap, StopOld, FlushReturn, vars
<1>2. CASE \E a \in Adders, e \in NextEvent : EnqueueEvent(a, e)
  BY <1>2 DEF EnqueueEvent
<1>3. CASE \E a \in Adders : Add(a)
  BY ZenonT(40), SMT, <1>3 DEF Add
<1>4. CASE \E m \in Musters : Receive(m) \/ FireBatch(m) \/ WorkerEnds(m)
  BY <1>4 DEF Receive, FireBatch, WorkerEnds
<1>5. CASE \E s \in Slots : exportProtoMsgBatch(s) \/ ExportTraces(s) \/ ExportLogs(s) \/ FireDone(s)
  BY Zenon, <1>5 DEF exportProtoMsgBatch, ExportTraces, ExportLogs, FireDone
<1> QED BY ZenonT(40), SMT, <1>1, <1>2, <1>3, <1>4, <1>5 DEF Next, Outside, Progress

(* Every step keeps it: no event comes into a muster that Flush has        *)
(* replaced, and the ones in it leave.                                     *)
LEMMA PassedStep == ASSUME Typed, Locked, Placed, Passed, [Next]_vars PROVE Passed'
<1>0. /\ muster \in Nat /\ flushes \in Nat /\ flush \in FlushRecord /\ Events' = Events
      /\ Musters \subseteq Nat
  <2>1. \A m \in Musters : m \in Nat
    BY TransmissionAssumption DEF Musters
  <2>2. \A n \in 0..MaxFlushes : n \in Nat
    BY TransmissionAssumption
  <2> QED BY ZenonT(40), SMT, <2>1, <2>2, EventsStay DEF Typed, Events
<1>1. ASSUME NEW m \in Musters, NEW e \in Events, m # muster', ~Stopping(m)', InMuster(e, m)'
      PROVE  FALSE
  <2>1. InMuster(e, m) \/ Comes(e, m)
    BY Zenon, <1>1, Flows
  <2>2. Comes(e, m) => m = muster
    BY Zenon DEF Comes, Locked
  <2>3. CASE ~FlushStep
    <3>1. m # muster /\ ~Stopping(m)
      BY Zenon, <1>1, <2>3, FlushApart DEF Stopping
    <3> QED BY Zenon, <2>1, <2>2, <3>1 DEF Passed
  <2>4. CASE FlushStart
    <3>1. m # muster /\ ~Stopping(m)
      BY Zenon, <1>1, <2>4 DEF FlushStart, Stopping, musterVars
    <3> QED BY <2>1, <2>2, <3>1 DEF Passed
  <2>5. CASE Swap
    <3>1. flush'.at = "swapped" /\ flush'.m = muster /\ flush.at = "waiting"
      BY Zenon, <1>0, <2>5 DEF Swap, FlushRecord
    <3>2. m # muster /\ ~Stopping(m)
      BY Zenon, <1>1, <3>1 DEF Stopping
    <3> QED BY <2>1, <2>2, <3>2 DEF Passed
  <2>6. CASE StopOld
    <3>1. flush'.at = "stopping" /\ flush'.m = flush.m /\ muster' = muster
      BY Zenon, <1>0, <2>6 DEF StopOld, FlushRecord
    <3>2. m # muster /\ ~Stopping(m)
      BY <1>1, <3>1 DEF Stopping
    <3> QED BY <2>1, <2>2, <3>2 DEF Passed
  <2>7. CASE FlushReturn
    <3>1. flush.m \in ended /\ muster' = muster /\ \A s \in Slots : s[1] = flush.m => fire[s] = NoFire
      BY <2>7 DEF FlushReturn, musterVars
    <3>2. m = flush.m
      BY Zenon, <1>1, <2>1, <2>2, <3>1 DEF Passed, Stopping
    <3>3. Range(<<>>) = {}
      BY DEF Range
    <3>4. ~InWork(e, m) /\ ~InBatch(e, m)
      BY ZenonT(40), <3>1, <3>2, <3>3 DEF Passed, InWork, InBatch
    <3>5. \A s \in Slots : s[1] = m => \A y : ~InList(e, s, y) /\ ~InCall(e, s, y)
      BY Zenon, <3>1, <3>2, IdleHolds
    <3> QED BY ZenonT(40), SMT, <1>1, <2>1, <2>2, <3>1, <3>4, <3>5 DEF InMuster
  <2> QED BY Zenon, <2>3, <2>4, <2>5, <2>6, <2>7 DEF FlushStep
<1> QED BY ZenonT(40), SMT, <1>0, <1>1, EndedStep DEF Passed

-----------------------------------------------------------------------------
(* What Flush must settle has been handed over, is not being added, and is *)
(* in no muster that came after the one it stops.                          *)
Due ==
    \A e \in flush.due :
        /\ fate[e] # "new" /\ \A a \in Adders : adder[a].e # e
        /\ flush.at \in {"swapped", "stopping", "returned"} =>
              \A m \in Musters : m > flush.m => ~InMuster(e, m)

(* An event that was enqueued stays so.                                    *)
LEMMA FateStays ==
    ASSUME Typed, [Next]_vars, NEW e \in Events, fate[e] # "new"
    PROVE  fate'[e] # "new"
<1>0. fate \in [Events -> Fates]
  BY DEF Typed
<1>1. CASE fate' = fate
  BY <1>1
<1>2. CASE \/ NewClient \/ OtherNotEnabled \/ processResponses \/ FlushStart \/ Swap \/ StopOld
           \/ FlushReturn \/ UNCHANGED vars
  BY Zenon, <1>1, <1>2 DEF NewClient, OtherNotEnabled, processResponses, FlushStart, Swap, StopOld, FlushReturn, vars
<1>3. CASE \E a \in Adders, d \in NextEvent : EnqueueEvent(a, d)
  BY ZenonT(40), SMT, <1>0, <1>3 DEF EnqueueEvent, NextEvent
<1>4. CASE \E a \in Adders : Add(a)
  BY <1>0, <1>4 DEF Add, SendWork
<1>5. CASE \E m \in Musters : Receive(m) \/ FireBatch(m) \/ WorkerEnds(m)
  BY Zenon, <1>1, <1>5 DEF Receive, FireBatch, WorkerEnds
<1>6. CASE \E s \in Slots : exportProtoMsgBatch(s)
  <2> PICK s \in Slots : exportProtoMsgBatch(s)
    BY <1>6
  <2>1. PICK list \in fire[s].groups :
             fate' = Cut(list, ExportCut(list), ~checkPeerConnection(list) \/ SendTraces, ExportSize(list))
    BY Zenon, ExportIs
  <2> QED BY Zenon, <2>1 DEF Cut
<1>7. CASE \E s \in Slots : ExportTraces(s)
  BY <1>7 DEF ExportTraces
<1>8. CASE \E s \in Slots : ExportLogs(s) \/ FireDone(s)
  BY Zenon, <1>1, <1>8 DEF ExportLogs, FireDone
<1> QED BY ZenonT(40), SMT, <1>2, <1>3, <1>4, <1>5, <1>6, <1>7, <1>8 DEF Next, Outside, Progress

(* Nobody adds an event that was already enqueued.                         *)
LEMMA AddersStay ==
    ASSUME Typed, [Next]_vars, NEW e \in Events, fate[e] # "new", \A a \in Adders : adder[a].e # e
    PROVE  \A a \in Adders : adder'[a].e # e
<1>0. adder \in [Adders -> AddRecord] /\ 0 # e
  BY SMT, Z3, EventsNat DEF Typed
<1>1. CASE adder' = adder
  BY <1>1
<1>2. CASE \/ NewClient \/ OtherNotEnabled \/ processResponses \/ FlushStart \/ Swap \/ StopOld
           \/ FlushReturn \/ UNCHANGED vars
  BY ZenonT(40), SMT, <1>1, <1>2 DEF NewClient, OtherNotEnabled, processResponses, FlushStart, Swap, StopOld, FlushReturn, vars
<1>3. CASE \E a \in Adders, d \in NextEvent : EnqueueEvent(a, d)
  BY SMT, Z3, <1>0, <1>3 DEF EnqueueEvent, NextEvent
<1>4. CASE \E a \in Adders : Add(a)
  BY <1>0, <1>4 DEF Add, NoAdd
<1>5. CASE \E m \in Musters : Receive(m) \/ FireBatch(m) \/ WorkerEnds(m)
  BY Zenon, <1>1, <1>5 DEF Receive, FireBatch, WorkerEnds
<1>6. CASE \E s \in Slots : exportProtoMsgBatch(s) \/ ExportTraces(s) \/ ExportLogs(s) \/ FireDone(s)
  BY Zenon, <1>1, <1>6 DEF exportProtoMsgBatch, ExportTraces, ExportLogs, FireDone
<1> QED BY ZenonT(40), SMT, <1>2, <1>3, <1>4, <1>5, <1>6 DEF Next, Outside, Progress

(* Every step keeps what a running Flush waits for.                        *)
LEMMA DueStep == ASSUME Typed, Locked, Placed, Passed, Due, [Next]_vars PROVE Due'
<1>0. /\ muster \in Nat /\ flush \in FlushRecord /\ Musters \subseteq Nat /\ flush.due \subseteq Events
      /\ 0 \notin Events
  <2>1. \A m \in Musters : m \in Nat
    BY TransmissionAssumption DEF Musters
  <2> QED BY <2>1, EventsNat DEF Typed, FlushRecord
<1>1. CASE FlushStart
  <2>1. /\ flush'.at = "waiting" /\ UNCHANGED <<fate, adder>>
        /\ flush'.due = {e \in Events : fate[e] = "held"} \ {adder[a].e : a \in Adders}
    BY ZenonT(40), <1>1 DEF FlushStart
  <2> QED BY Zenon, <2>1 DEF Due
<1>2. CASE ~FlushStart
  <2> SUFFICES ASSUME NEW e \in flush'.due
               PROVE  /\ fate'[e] # "new" /\ \A a \in Adders : adder'[a].e # e
                      /\ flush'.at \in {"swapped", "stopping", "returned"} =>
                            \A m \in Musters : m > flush'.m => ~InMuster(e, m)'
    BY DEF Due
  <2>1. flush'.due = flush.due
    BY Zenon, <1>0, <1>2, FlushApart DEF FlushStep, Swap, StopOld, FlushReturn, FlushRecord
  <2>2. fate[e] # "new" /\ (\A a \in Adders : adder[a].e # e) /\ e \in Events
    BY Zenon, <1>0, <2>1 DEF Due
  <2>3. fate'[e] # "new" /\ \A a \in Adders : adder'[a].e # e
    BY Zenon, <2>2, FateStays, AddersStay
  <2>4. \A m \in Musters : InMuster(e, m)' => InMuster(e, m)
    BY Zenon, <2>2, Flows DEF Comes
  <2>5. CASE Swap
    <3>1. flush'.m = muster /\ flush.at = "waiting"
      BY Zenon, <1>0, <2>5 DEF Swap, FlushRecord
    <3>2. \A m \in Musters : m > muster => ~InMuster(e, m)
      <4>1. \A m \in Musters : m > muster => m # muster
        BY <1>0
      <4>2. \A m : ~Stopping(m)
        BY Zenon, <3>1 DEF Stopping
      <4> QED BY Zenon, <2>2, <4>1, <4>2 DEF Passed
    <3> QED BY Zenon, <2>3, <2>4, <3>1, <3>2
  <2>6. CASE ~Swap
    <3>1. flush'.at \in {"swapped", "stopping", "returned"} =>
             flush'.m = flush.m /\ flush.at \in {"swapped", "stopping", "returned"}
      BY Zenon, <1>0, <1>2, <2>6, FlushApart DEF FlushStep, StopOld, FlushReturn, FlushRecord
    <3> QED BY Zenon, <2>1, <2>3, <2>4, <3>1 DEF Due
  <2> QED BY Zenon, <2>5, <2>6
<1> QED BY ZenonT(40), SMT, <1>1, <1>2

(* When Flush returns, what it waits for has settled.                      *)
LEMMA DueSettles == ASSUME Typed, Locked, Placed, Passed, Due PROVE FlushSettles
<1> SUFFICES ASSUME flush.at = "returned", NEW e \in flush.due, fate[e] = "held" PROVE FALSE
  BY Zenon DEF FlushSettles
<1>0. muster \in Nat /\ Musters \subseteq Nat /\ e \in Events /\ flush.m = muster - 1
  <2>1. \A m \in Musters : m \in Nat
    BY SMT, Z3, TransmissionAssumption DEF Musters
  <2> QED BY Zenon, <2>1 DEF Typed, FlushRecord, Locked
<1>1. PICK k, x, y : Holds(e, k, x, y)
  BY Zenon, <1>0 DEF Placed, One
<1>2. ~InAdd(e, x)
  BY DEF Due, InAdd
<1>3. \E m \in Musters : InMuster(e, m)
  <2>1. CASE InWork(e, x) \/ InBatch(e, x)
    BY Zenon, <2>1 DEF InWork, InBatch, InMuster
  <2>2. CASE InList(e, x, y) \/ InCall(e, x, y)
    <3>1. x \in Slots /\ x[1] \in Musters
      BY Zenon, <2>2 DEF InList, InCall, Slots
    <3> QED BY Zenon, <2>2, <3>1 DEF InMuster
  <2> QED BY Zenon, <1>1, <1>2, <2>1, <2>2 DEF Holds
<1> PICK m \in Musters : InMuster(e, m)
  BY Zenon, <1>3
<1>4. ~Stopping(m)
  BY Zenon DEF Stopping
<1>5. m = muster
  BY Zenon, <1>0, <1>4 DEF Passed
<1>6. m > flush.m
  BY SMT, Z3, <1>0, <1>5
<1> QED BY Zenon, <1>6 DEF Due

-----------------------------------------------------------------------------
(* The inductive invariant of a transmission.                              *)
DeliveryInv == Typed /\ Locked /\ ExportSound /\ Placed /\ Passed /\ Due

(* The invariant holds in the beginning, ...                               *)
LEMMA DeliveryInit == Init => DeliveryInv
<1> SUFFICES ASSUME Init PROVE DeliveryInv
  BY ZenonT(40), SMT
<1>1. Due
  BY DEF Init, Due
<1> QED BY ZenonT(40), SMT, <1>1, TypedInit, LockedInit, ExportSoundInit, PlacedInit, PassedInit DEF DeliveryInv

(* ... and every step preserves it.                                        *)
LEMMA DeliveryStep == DeliveryInv /\ [Next]_vars => DeliveryInv'
<1> SUFFICES ASSUME DeliveryInv, [Next]_vars PROVE DeliveryInv'
  OBVIOUS
<1>1. Typed /\ Locked /\ ExportSound /\ Placed /\ Passed /\ Due
  BY DEF DeliveryInv
<1>2. Typed'
  <2>1. CASE Next
    BY Zenon, <1>1, <2>1, TypedOutside, TypedProgress DEF Next
  <2>2. CASE UNCHANGED vars
    <3>1. UNCHANGED <<ev, fate, adder, muster, work, closed, batch, ended, fire, flush, flushes>>
      BY <2>2 DEF vars, musterVars, flushVars
    <3> QED BY Zenon, <1>1, <3>1, TypedNext DEF Typed
  <2> QED BY <2>1, <2>2
<1> QED BY ZenonT(40), SMT, <1>1, <1>2, LockedStep, ExportSoundStep, PlacedStep, PassedStep, DueStep DEF DeliveryInv

(* NoSendOnClosed, for any events, sizes, limits and number of flushes:    *)
(* tryAdd never sends on the Work of a muster that Flush has stopped,      *)
(* because the read lock it holds keeps the muster in its place.           *)
THEOREM NeverSendsOnClosed == Spec => []NoSendOnClosed
<1>1. DeliveryInv => NoSendOnClosed
  <2> SUFFICES ASSUME DeliveryInv, NEW a \in Readers PROVE adder[a].m \notin closed
    BY Zenon DEF NoSendOnClosed
  <2>1. adder[a].m = muster /\ \A m \in closed : m < muster
    BY DEF DeliveryInv, Locked, Readers
  <2>2. muster \in Nat
    BY SMT, Z3, TransmissionAssumption DEF DeliveryInv, Typed, Musters
  <2> QED BY SMT, Z3, <2>1, <2>2
<1> QED BY <1>1, DeliveryInit, DeliveryStep, PTL DEF Spec

(* InOnePlace, for any events, sizes, limits and number of flushes: an     *)
(* event handed over and not yet settled is in exactly one place between   *)
(* Add and the call that carries it, and a settled one is in none.         *)
THEOREM NothingLostOrDoubled == Spec => []InOnePlace
<1>1. DeliveryInv => InOnePlace
  BY Zenon, PlacedInOne DEF DeliveryInv
<1> QED BY <1>1, DeliveryInit, DeliveryStep, PTL DEF Spec

(* CutGreedily, for any lists, sizes and limit: the calls of an export     *)
(* hold the events that fit, in order; none is empty or over the limit,    *)
(* and none had room for the first event of the next.                      *)
THEOREM CallsCutGreedily == Spec => []CutGreedily
<1>1. DeliveryInv => CutGreedily
  BY Zenon, SoundIsGreedy DEF DeliveryInv
<1> QED BY <1>1, DeliveryInit, DeliveryStep, PTL DEF Spec

(* FlushSettles, for any number of events and flushes: when Flush returns, *)
(* every event whose Add had returned before it was called is settled.     *)
THEOREM FlushWaits == Spec => []FlushSettles
<1>1. DeliveryInv => FlushSettles
  BY DueSettles DEF DeliveryInv
<1> QED BY <1>1, DeliveryInit, DeliveryStep, PTL DEF Spec
=============================================================================
