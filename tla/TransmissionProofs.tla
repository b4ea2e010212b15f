------------------------- MODULE TransmissionProofs -------------------------
(***************************************************************************)
(* The transmission, for any events, sizes, limits and number of flushes:  *)
(* the types of its state, the locking by which Flush replaces a muster,   *)
(* what an export has cut and sent, and the places an event can be in.     *)
(* DeliveryProofs combines them into the inductive invariant of the        *)
(* transmission.                                                           *)
(***************************************************************************)
EXTENDS Transmission, BatchSplitProofs

(* The log records of the events, and what the goroutines of the           *)
(* transmission hold.                                                      *)
Records == UNION {{e} \X DOMAIN ev[e].logs : e \in Events}

FireRecord ==
    [groups : SUBSET Seq(Events), list : Seq(Events), cut : Acc(Events),
     logs : Acc(Records), next : Nat]

AddRecord == {NoAdd} \cup [e : Events, m : Musters]
FlushRecord == [at : {"none", "waiting", "swapped", "stopping", "returned"},
                m : {0} \cup Musters, due : SUBSET Events]

(* The types of the state, as far as the invariant needs them.             *)
Typed ==
    /\ ev \in Seq(EventShape) /\ fate \in [Events -> Fates]
    /\ adder \in [Adders -> AddRecord]
    /\ muster \in Musters /\ closed \subseteq Musters /\ ended \subseteq Musters
    /\ work \in [Musters -> Seq(Events)] /\ batch \in [Musters -> Seq(Events)]
    /\ fire \in [Slots -> FireRecord]
    /\ flush \in FlushRecord
    /\ flushes \in 0..MaxFlushes

(* A muster is stopped after it was replaced, and it is replaced when no   *)
(* goroutine adds to it. The musters are numbered by the flushes.          *)
Locked ==
    /\ muster = IF flush.at = "waiting" THEN flushes ELSE flushes + 1
    /\ flush.at \in {"swapped", "stopping", "returned"} => flush.m \in Musters /\ flush.m = muster - 1
    /\ \A a \in Adders : adder[a] # NoAdd => adder[a].m = muster
    /\ \A m \in closed : m < muster
    /\ ended \subseteq closed

(* The events are numbered, and their sizes and log records are typed.     *)
LEMMA EventsNat ==
    ASSUME ev \in Seq(EventShape)
    PROVE  /\ Events = 1..Len(ev) /\ Len(ev) \in Nat
           /\ SpanSize \in [Events -> Nat] /\ PeerSize \in [Events -> Nat]
           /\ \A e \in Events : ev[e] \in EventShape /\ ev[e].logs \in Seq(Nat)
<1>1. Events = 1..Len(ev) /\ Len(ev) \in Nat /\ \A e \in Events : ev[e] \in EventShape
  BY DEF Events
<1>2. \A e \in Events : ev[e].logs \in Seq(Nat) /\ ev[e].size \in Nat /\ ev[e].peerSize \in Nat
  BY <1>1 DEF EventShape
<1> QED BY <1>1, <1>2 DEF SpanSize, PeerSize

(* The log records of a list of events are records, and have sizes.        *)
LEMMA RecordsTyped ==
    ASSUME ev \in Seq(EventShape)
    PROVE  /\ LogSize \in [Records -> Nat]
           /\ \A list \in Seq(Events) : LogRecords(list) \in Seq(Records)
<1>1. \A e \in Events : ev[e].logs \in Seq(Nat)
  BY EventsNat
<1>2. LogSize \in [Records -> Nat]
  <2> SUFFICES ASSUME NEW r \in Records PROVE ev[r[1]].logs[r[2]] \in Nat
    BY DEF LogSize, Records
  <2> PICK e \in Events : r \in {e} \X DOMAIN ev[e].logs
    BY DEF Records
  <2>1. r[1] = e /\ r[2] \in DOMAIN ev[e].logs
    OBVIOUS
  <2> QED BY SMT, Z3, <1>1, <2>1
<1>3. ASSUME NEW list \in Seq(Events) PROVE LogRecords(list) \in Seq(Records)
  <2> PICK n \in Nat : n = Len(list)
    OBVIOUS
  <2> DEFINE row(i) == [j \in DOMAIN ev[list[i]].logs |-> <<list[i], j>>]
             rows == [i \in DOMAIN list |-> row(i)]
  <2>1. DOMAIN list = 1..n /\ \A i \in 1..n : list[i] \in Events
    OBVIOUS
  <2>2. ASSUME NEW i \in 1..n PROVE row(i) \in Seq(Records)
    <3> PICK e \in Events : e = list[i]
      BY <2>1
    <3> PICK k \in Nat : DOMAIN ev[e].logs = 1..k
      BY <1>1
    <3>1. ASSUME NEW j \in 1..k PROVE <<e, j>> \in Records
      BY <3>1 DEF Records
    <3>2. row(i) = [j \in 1..k |-> <<e, j>>]
      OBVIOUS
    <3>3. [j \in 1..k |-> <<e, j>>] \in [1..k -> Records]
      BY <3>1
    <3>4. \A q \in [1..k -> Records] : q \in Seq(Records)
      BY SMTT(20), Z3T(20)
    <3> QED BY <3>2, <3>3, <3>4
  <2>3. rows \in [1..n -> Seq(Records)]
    <3> HIDE DEF row
    <3> QED BY <2>1, <2>2
  <2>4. rows \in Seq(Seq(Records))
    <3> HIDE DEF rows
    <3> QED BY SMT, Z3, <2>3
  <2>5. <<>> \in Seq(Records)
    OBVIOUS
  <2>6. Flattened(rows) \in Seq(Records)
    <3> HIDE DEF rows
    <3> QED BY <2>4, <2>5, FlattenAppend
  <2> QED BY <2>6 DEF LogRecords
<1> QED BY <1>2, <1>3

(* A batch that has just been fired is typed.                              *)
LEMMA NoFireTyped ==
    ASSUME NEW groups \in SUBSET Seq(Events), NEW next \in Nat
    PROVE  Fired(groups, next) \in FireRecord
<1>1. NoBatch \in Acc(Events) /\ NoBatch \in Acc(Records)
  BY DEF NoBatch, Acc
<1>2. <<>> \in Seq(Events)
  OBVIOUS
<1> QED BY <1>1, <1>2 DEF Fired, FireRecord

(* A call goes on to the next batch.                                       *)
LEMMA Stepped ==
    ASSUME NEW s \in Slots, fire \in [Slots -> FireRecord],
           fire' = [fire EXCEPT ![s].next = fire[s].next + 1]
    PROVE  /\ fire' \in [Slots -> FireRecord]
           /\ \A t \in Slots \ {s} : fire'[t] = fire[t]
           /\ fire'[s].groups = fire[s].groups /\ fire'[s].list = fire[s].list
           /\ fire'[s].cut = fire[s].cut /\ fire'[s].logs = fire[s].logs
           /\ fire'[s].next = fire[s].next + 1
<1>1. fire[s] \in FireRecord /\ fire[s].next + 1 \in Nat
  BY DEF FireRecord
<1> PICK r : r = [fire[s] EXCEPT !.next = fire[s].next + 1]
  OBVIOUS
<1>2. r \in FireRecord
  BY Zenon, <1>1 DEF FireRecord
<1>3. /\ r.groups = fire[s].groups /\ r.list = fire[s].list
      /\ r.cut = fire[s].cut /\ r.logs = fire[s].logs
      /\ r.next = fire[s].next + 1
  BY <1>1 DEF FireRecord
<1>5. fire' = [fire EXCEPT ![s] = r]
  OBVIOUS
<1>6. fire' \in [Slots -> FireRecord] /\ fire'[s] = r /\ \A t \in Slots \ {s} : fire'[t] = fire[t]
  BY <1>2, <1>5
<1> QED BY <1>3, <1>6

(* batchAgg groups events into lists of events.                            *)
LEMMA BatchesTyped ==
    ASSUME NEW list \in Seq(Events)
    PROVE  batches(list) \subseteq Seq(Events)
<1> SUFFICES ASSUME NEW S PROVE Kept(list, S) \in Seq(Events)
  BY Zenon DEF batches
<1> QED BY KeptElements

(* What an export starts with: the calls SendTraceBatches makes of the list, *)
(* or none when traces are not sent.                                       *)
ExportCut(list) ==
    LET sendDirect == checkPeerConnection(list)
    IN IF ~sendDirect THEN SendLogTraceBatches(list)
       ELSE IF SendTraces THEN SendTraceBatches(list, SpanSize) ELSE NoBatch
ExportLogRecords(list) ==
    IF checkPeerConnection(list) /\ SendTraces THEN sendLogBatches(list) ELSE NoBatch
ExportSize(list) == IF checkPeerConnection(list) THEN SpanSize ELSE PeerSize
Exported(s, list) ==
    [groups |-> fire[s].groups \ {list}, list |-> list, cut |-> ExportCut(list),
     logs |-> ExportLogRecords(list), next |-> 1]

(* What exportProtoMsgBatch does, without the case distinctions.           *)
LEMMA ExportIs ==
    ASSUME NEW s \in Slots, exportProtoMsgBatch(s)
    PROVE  /\ Over(fire[s])
           /\ \E list \in fire[s].groups :
                 /\ fire' = [fire EXCEPT ![s] = Exported(s, list)]
                 /\ fate' = Cut(list, ExportCut(list), ~checkPeerConnection(list) \/ SendTraces,
                                ExportSize(list))
           /\ UNCHANGED <<phase, isPeer, ev, adder, musterVars, flushVars, flagVars, responseVars>>
BY Zenon DEF exportProtoMsgBatch, Exported, ExportCut, ExportLogRecords, ExportSize

(* What is cut of a list of events is typed.                               *)
LEMMA CutTyped ==
    ASSUME ev \in Seq(EventShape), NEW list \in Seq(Events)
    PROVE  ExportCut(list) \in Acc(Events) /\ ExportLogRecords(list) \in Acc(Records)
           /\ ExportSize(list) \in [Events -> Nat]
<1>1. SpanSize \in [Events -> Nat] /\ PeerSize \in [Events -> Nat]
  BY EventsNat
<1>2. LogRecords(list) \in Seq(Records) /\ LogSize \in [Records -> Nat]
  BY RecordsTyped
<1>3. SendTraceBatches(list, SpanSize) \in Acc(Events)
  BY <1>1, SplitIsGreedy
<1>4. SendTraceBatches(list, PeerSize) \in Acc(Events)
  BY <1>1, SplitIsGreedy
<1>5. sendLogBatches(list) \in Acc(Records)
  BY <1>2, SplitIsGreedy DEF sendLogBatches
<1>6. NoBatch \in Acc(Events) /\ NoBatch \in Acc(Records)
  BY DEF NoBatch, Acc
<1> QED BY Zenon, <1>1, <1>3, <1>4, <1>5, <1>6
        DEF ExportCut, ExportLogRecords, ExportSize, SendLogTraceBatches

(* A list of the batch that is taken up leaves the batch typed.            *)
LEMMA ExportTyped ==
    ASSUME ev \in Seq(EventShape), NEW s \in Slots, fire[s] \in FireRecord,
           NEW list \in fire[s].groups
    PROVE  list \in Seq(Events) /\ Exported(s, list) \in FireRecord
<1>1. list \in Seq(Events) /\ fire[s].groups \ {list} \in SUBSET Seq(Events)
  BY DEF FireRecord
<1>2. ExportCut(list) \in Acc(Events) /\ ExportLogRecords(list) \in Acc(Records)
  BY Zenon, <1>1, CutTyped
<1> QED BY <1>1, <1>2 DEF Exported, FireRecord

(* The new transmission is typed.                                          *)
LEMMA TypedInit == ASSUME Init PROVE Typed
<1>1. ev \in Seq(EventShape)
  BY TransmissionAssumption DEF Init
<1>2. Events = 1..Len(ev) /\ Len(ev) \in Nat
  BY <1>1, EventsNat
<1>3. 1 \in Musters /\ 0 \in 0..MaxFlushes
  BY TransmissionAssumption DEF Musters
<1>4. fire \in [Slots -> FireRecord]
  <2>1. NoFire \in FireRecord
    BY NoFireTyped DEF NoFire
  <2>2. [e \in Events |-> e] \in Seq(Events)
    BY <1>2
  <2>3. Fired({[e \in Events |-> e]}, 1) \in FireRecord
    <3>1. {[e \in Events |-> e]} \in SUBSET Seq(Events)
      BY <2>2
    <3> QED BY <3>1, NoFireTyped
  <2>4. CASE fire = [s \in Slots |-> NoFire]
    BY <2>1, <2>4
  <2>5. CASE fire = [s \in Slots |-> IF s = <<1, 1>> THEN Fired({[e \in Events |-> e]}, 1)
                                     ELSE NoFire]
    <3> DEFINE F == Fired({[e \in Events |-> e]}, 1)
    <3> HIDE DEF F
    <3>1. F \in FireRecord /\ fire = [s \in Slots |-> IF s = <<1, 1>> THEN F ELSE NoFire]
      BY Zenon, <2>3, <2>5 DEF F
    <3> QED BY <3>1, <2>1
  <2> QED BY <2>4, <2>5 DEF Init
<1>5. fate \in [Events -> Fates]
  BY DEF Init, Fates
<1>6. <<>> \in Seq(Events)
  OBVIOUS
<1>7. adder \in [Adders -> AddRecord] /\ flush \in FlushRecord
  BY DEF Init, AddRecord, FlushRecord
<1> QED BY Zenon, <1>1, <1>3, <1>4, <1>5, <1>6, <1>7 DEF Init, Typed

(* Types are kept by a step that keeps the type of every variable.         *)
LEMMA TypedNext ==
    ASSUME Typed, ev' = ev, fate' \in [Events -> Fates], adder' \in [Adders -> AddRecord],
           muster' \in Musters, closed' \subseteq Musters, ended' \subseteq Musters,
           work' \in [Musters -> Seq(Events)], batch' \in [Musters -> Seq(Events)],
           fire' \in [Slots -> FireRecord], flush' \in FlushRecord, flushes' \in 0..MaxFlushes
    PROVE  Typed'
<1>1. Events' = Events
  BY DEF Events
<1>2. Records' = Records
  BY <1>1 DEF Records
<1>3. FireRecord' = FireRecord /\ AddRecord' = AddRecord /\ FlushRecord' = FlushRecord
  BY <1>1, <1>2 DEF FireRecord, AddRecord, FlushRecord
<1> QED BY Zenon, <1>1, <1>3 DEF Typed

(* Steps of the surroundings keep the types.                               *)
LEMMA TypedOutside == ASSUME Typed, Outside PROVE Typed'
<1>0. /\ ev \in Seq(EventShape) /\ fate \in [Events -> Fates]
      /\ adder \in [Adders -> AddRecord]
      /\ muster \in Musters /\ closed \subseteq Musters /\ ended \subseteq Musters
      /\ work \in [Musters -> Seq(Events)] /\ batch \in [Musters -> Seq(Events)]
      /\ fire \in [Slots -> FireRecord] /\ flush \in FlushRecord /\ flushes \in 0..MaxFlushes
  BY DEF Typed
<1>1. CASE NewClient
  BY Zenon, <1>0, <1>1, TypedNext DEF NewClient, musterVars, flushVars
<1>2. CASE OtherNotEnabled
  BY Zenon, <1>0, <1>2, TypedNext DEF OtherNotEnabled, musterVars, flushVars
<1>3. CASE FlushStart
  <2>1. flush' \in FlushRecord /\ flushes' \in 0..MaxFlushes
    BY SMT, Z3, <1>0, <1>3, TransmissionAssumption DEF FlushStart, FlushRecord
  <2> QED BY ZenonT(40), SMT, <1>0, <1>3, <2>1, TypedNext DEF FlushStart, musterVars
<1>4. ASSUME NEW a \in Adders, NEW e \in NextEvent, EnqueueEvent(a, e) PROVE Typed'
  <2>1. e \in Events
    BY DEF NextEvent
  <2>2. fate' \in [Events -> Fates]
    BY Zenon, <1>0, <1>4, <2>1 DEF EnqueueEvent, Fates
  <2>3. [e |-> e, m |-> muster] \in AddRecord
    BY <1>0, <2>1 DEF AddRecord
  <2>4. adder' \in [Adders -> AddRecord]
    BY Zenon, <1>0, <1>4, <2>3 DEF EnqueueEvent
  <2> QED BY ZenonT(40), SMT, <1>0, <1>4, <2>2, <2>4, TypedNext DEF EnqueueEvent, musterVars, flushVars
<1> QED BY Zenon, <1>1, <1>2, <1>3, <1>4 DEF Outside

(* Steps of the transmission keep the types.                               *)
LEMMA TypedProgress == ASSUME Typed, Locked, Progress PROVE Typed'
<1>0. /\ ev \in Seq(EventShape) /\ fate \in [Events -> Fates]
      /\ adder \in [Adders -> AddRecord]
      /\ muster \in Musters /\ closed \subseteq Musters /\ ended \subseteq Musters
      /\ work \in [Musters -> Seq(Events)] /\ batch \in [Musters -> Seq(Events)]
      /\ fire \in [Slots -> FireRecord] /\ flush \in FlushRecord /\ flushes \in 0..MaxFlushes
  BY DEF Typed
<1>1. ASSUME NEW a \in Adders, Add(a) PROVE Typed'
  <2>0. adder[a].e \in Events /\ adder[a].m \in Musters
    BY <1>0, <1>1 DEF Add, AddRecord
  <2>1. fate' \in [Events -> Fates]
    BY Zenon, <1>0, <1>1 DEF Add, SendWork, Fates
  <2>2. adder' \in [Adders -> AddRecord]
    BY <1>0, <1>1 DEF Add, AddRecord
  <2>3. work' \in [Musters -> Seq(Events)]
    <3>1. Append(work[adder[a].m], adder[a].e) \in Seq(Events)
      BY <1>0, <2>0
    <3> QED BY Zenon, <1>0, <1>1, <3>1 DEF Add, SendWork
  <2> QED BY ZenonT(40), SMT, <1>0, <1>1, <2>1, <2>2, <2>3, TypedNext DEF Add, flushVars
<1>2. CASE processResponses
  BY Zenon, <1>0, <1>2, TypedNext DEF processResponses, musterVars, flushVars
<1>3. ASSUME NEW m \in Musters, Receive(m) PROVE Typed'
  <2>1. Append(batch[m], Head(work[m])) \in Seq(Events) /\ Tail(work[m]) \in Seq(Events)
    BY <1>0, <1>3 DEF Receive
  <2>2. work' \in [Musters -> Seq(Events)] /\ batch' \in [Musters -> Seq(Events)]
    BY ZenonT(40), SMT, <1>0, <1>3, <2>1 DEF Receive
  <2> QED BY ZenonT(40), SMT, <1>0, <1>3, <2>2, TypedNext DEF Receive, flushVars
<1>4. ASSUME NEW m \in Musters, FireBatch(m) PROVE Typed'
  <2>1. PICK s \in Slots : fire' = [fire EXCEPT ![s] = Fired(batches(batch[m]), 1)]
    BY ZenonT(40), SMT, <1>4 DEF FireBatch
  <2>2. batches(batch[m]) \in SUBSET Seq(Events) /\ <<>> \in Seq(Events)
    BY <1>0, BatchesTyped
  <2>3. Fired(batches(batch[m]), 1) \in FireRecord
    BY <2>2, NoFireTyped
  <2>4. fire' \in [Slots -> FireRecord]
    BY Zenon, <1>0, <2>1, <2>3
  <2>5. batch' \in [Musters -> Seq(Events)]
    BY Zenon, <1>0, <1>4, <2>2 DEF FireBatch
  <2> QED BY <1>0, <1>4, <2>4, <2>5, TypedNext DEF FireBatch, flushVars
<1>5. ASSUME NEW m \in Musters, WorkerEnds(m) PROVE Typed'
  <2>1. ended' \subseteq Musters
    BY <1>0, <1>5 DEF WorkerEnds
  <2> QED BY Zenon, <1>0, <1>5, <2>1, TypedNext DEF WorkerEnds, flushVars
<1>6. ASSUME NEW s \in Slots, exportProtoMsgBatch(s) PROVE Typed'
  <2>1. PICK list \in fire[s].groups :
            /\ fire' = [fire EXCEPT ![s] = Exported(s, list)]
            /\ fate' = Cut(list, ExportCut(list), ~checkPeerConnection(list) \/ SendTraces,
                           ExportSize(list))
    BY Zenon, <1>6, ExportIs
  <2>2. Exported(s, list) \in FireRecord
    BY Zenon, <1>0, ExportTyped
  <2>3. fire' \in [Slots -> FireRecord]
    BY Zenon, <1>0, <2>1, <2>2
  <2>4. fate' \in [Events -> Fates]
    BY Zenon, <1>0, <2>1 DEF Cut, Fates
  <2> QED BY ZenonT(40), SMT, <1>0, <1>6, <2>3, <2>4, ExportIs, TypedNext DEF musterVars, flushVars
<1>7. ASSUME NEW s \in Slots, ExportTraces(s) PROVE Typed'
  <2>1. fire' \in [Slots -> FireRecord]
    BY ZenonT(40), SMT, <1>0, <1>7, Stepped DEF ExportTraces
  <2>2. fate' \in [Events -> Fates]
    BY Zenon, <1>0, <1>7 DEF ExportTraces, Fates
  <2> QED BY ZenonT(40), SMT, <1>0, <1>7, <2>1, <2>2, TypedNext DEF ExportTraces, musterVars, flushVars
<1>8. ASSUME NEW s \in Slots, ExportLogs(s) PROVE Typed'
  <2>1. fire' \in [Slots -> FireRecord]
    BY ZenonT(40), SMT, <1>0, <1>8, Stepped DEF ExportLogs
  <2> QED BY Zenon, <1>0, <1>8, <2>1, TypedNext DEF ExportLogs, musterVars, flushVars
<1>9. ASSUME NEW s \in Slots, FireDone(s) PROVE Typed'
  <2>1. NoFire \in FireRecord
    BY ZenonT(40), SMT, NoFireTyped DEF NoFire
  <2>2. fire' \in [Slots -> FireRecord]
    BY <1>0, <1>9, <2>1 DEF FireDone
  <2> QED BY ZenonT(40), SMT, <1>0, <1>9, <2>2, TypedNext DEF FireDone, musterVars, flushVars
<1>10. CASE Swap
  <2>0. flushes' + 1 \in Musters
    BY SMT, Z3, <1>0, <1>10, TransmissionAssumption DEF Swap, Musters
  <2>1. muster' \in Musters /\ flush' \in FlushRecord
    BY Zenon, <1>0, <1>10, <2>0 DEF Swap, FlushRecord
  <2> QED BY Zenon, <1>0, <1>10, <2>1, TypedNext DEF Swap
<1>11. CASE StopOld
  <2>1. flush' \in FlushRecord
    BY Zenon, <1>0, <1>11 DEF StopOld, FlushRecord
  <2>2. closed' \subseteq Musters
    BY <1>0, <1>11 DEF StopOld, FlushRecord, Locked
  <2> QED BY Zenon, <1>0, <1>11, <2>1, <2>2, TypedNext DEF StopOld
<1>12. CASE FlushReturn
  <2>1. flush' \in FlushRecord
    BY Zenon, <1>0, <1>12 DEF FlushReturn, FlushRecord
  <2> QED BY <1>0, <1>12, <2>1, TypedNext DEF FlushReturn, musterVars
<1> QED BY ZenonT(40), SMT, <1>1, <1>2, <1>3, <1>4, <1>5, <1>6, <1>7, <1>8, <1>9, <1>10, <1>11, <1>12 DEF Progress

(* In the beginning nothing is added and nothing is closed.                *)
LEMMA LockedInit == ASSUME Init PROVE Locked
BY DEF Init, Locked

(* Every step keeps the locking of the muster: Flush waits for the write   *)
(* lock before it replaces the muster, and stops the old one after that.   *)
LEMMA LockedStep == ASSUME Typed, Locked, [Next]_vars PROVE Locked'
<1>0. /\ adder \in [Adders -> AddRecord] /\ flush \in FlushRecord
      /\ muster \in Musters /\ muster \in Nat /\ flushes \in Nat /\ closed \subseteq Nat
  <2>1. \A m \in Musters : m \in Nat
    BY TransmissionAssumption DEF Musters
  <2>2. \A n \in 0..MaxFlushes : n \in Nat
    BY SMT, Z3, TransmissionAssumption
  <2> QED BY <2>1, <2>2 DEF Typed
<1>1. CASE FlushStart
  <2>1. muster = flushes + 1 /\ flushes' = flushes + 1 /\ flush'.at = "waiting"
    BY Zenon, <1>1 DEF FlushStart, Locked
  <2> QED BY Zenon, <1>0, <1>1, <2>1 DEF FlushStart, Locked, musterVars
<1>2. ASSUME NEW a \in Adders, NEW e \in NextEvent, EnqueueEvent(a, e) PROVE Locked'
  <2>1. \A b \in Adders : adder'[b] # NoAdd => adder'[b].m = muster
    BY <1>0, <1>2 DEF EnqueueEvent, Locked
  <2> QED BY ZenonT(40), SMT, <1>2, <2>1 DEF EnqueueEvent, Locked, musterVars, flushVars
<1>3. ASSUME NEW a \in Adders, Add(a) PROVE Locked'
  <2>1. \A b \in Adders : adder'[b] # NoAdd => adder'[b].m = muster
    BY <1>0, <1>3 DEF Add, Locked
  <2> QED BY ZenonT(40), SMT, <1>3, <2>1 DEF Add, Locked, flushVars
<1>4. CASE Swap
  <2>1. muster = flushes /\ muster' = flushes + 1
    BY <1>4 DEF Swap, Locked
  <2>2. flush'.at = "swapped" /\ flush'.m = muster
    BY <1>0, <1>4 DEF Swap, FlushRecord
  <2>3. \A a \in Adders : adder'[a] = NoAdd
    BY <1>4 DEF Swap, Readers
  <2>4. \A m \in closed : m < muster'
    BY <1>0, <2>1 DEF Locked
  <2> QED BY SMT, Z3, <1>0, <1>4, <2>1, <2>2, <2>3, <2>4 DEF Swap, Locked
<1>5. CASE StopOld
  <2>1. flush'.at = "stopping" /\ flush'.m = flush.m /\ flush.m = muster - 1 /\ flush.m \in Musters
    BY <1>0, <1>5 DEF StopOld, FlushRecord, Locked
  <2>2. muster = flushes + 1
    BY <1>5 DEF StopOld, Locked
  <2>3. \A m \in closed' : m < muster
    BY <1>0, <1>5, <2>1 DEF StopOld, Locked
  <2>4. ended' \subseteq closed'
    BY <1>5 DEF StopOld, Locked
  <2> QED BY Zenon, <1>5, <2>1, <2>2, <2>3, <2>4 DEF StopOld, Locked
<1>6. CASE FlushReturn
  <2>1. flush'.at = "returned" /\ flush'.m = flush.m /\ flush.m = muster - 1 /\ flush.m \in Musters
    BY ZenonT(40), SMT, <1>0, <1>6 DEF FlushReturn, FlushRecord, Locked
  <2> QED BY <1>6, <2>1 DEF FlushReturn, Locked, musterVars
<1>7. ASSUME NEW m \in Musters, WorkerEnds(m) PROVE Locked'
  BY Zenon, <1>7 DEF WorkerEnds, Locked, flushVars
<1>8. CASE UNCHANGED <<adder, muster, closed, ended, flush, flushes>>
  BY <1>8 DEF Locked
<1>9. CASE UNCHANGED vars
  BY Zenon, <1>8, <1>9 DEF vars, musterVars, flushVars
<1>10. CASE NewClient \/ OtherNotEnabled \/ processResponses
  BY Zenon, <1>8, <1>10 DEF NewClient, OtherNotEnabled, processResponses, musterVars, flushVars
<1>11. ASSUME NEW m \in Musters, Receive(m) \/ FireBatch(m) PROVE Locked'
  BY <1>8, <1>11 DEF Receive, FireBatch, musterVars, flushVars
<1>12. ASSUME NEW s \in Slots,
              exportProtoMsgBatch(s) \/ ExportTraces(s) \/ ExportLogs(s) \/ FireDone(s)
       PROVE  Locked'
  BY Zenon, <1>8, <1>12 DEF exportProtoMsgBatch, ExportTraces, ExportLogs, FireDone, musterVars, flushVars
<1> QED BY ZenonT(40), SMT, <1>1, <1>2, <1>3, <1>4, <1>5, <1>6, <1>7, <1>9, <1>10, <1>11, <1>12
        DEF Next, Outside, Progress

-----------------------------------------------------------------------------
(* What a goroutine that exports has cut and sent. Before Start there is   *)
(* none.                                                                   *)
Untouched ==
    /\ \A a \in Adders : adder[a] = NoAdd
    /\ \A m \in Musters : work[m] = <<>> /\ batch[m] = <<>>
    /\ \A s \in Slots : fire[s] = NoFire

(* An export has cut its list in one go, and into nothing once the tenant  *)
(* is known to have no traces.                                             *)
AsCut(f) ==
    \/ f.list = <<>> \/ f.cut = SendTraceBatches(f.list, SizeIn(f))
    \/ f.cut = NoBatch /\ ~SendTraces

(* What an export has done, and that there is none before Start.           *)
ExportSound ==
    /\ phase = "new" => Untouched
    /\ \A s \in Slots : AsCut(fire[s])

(* A batch that has just been fired has exported nothing.                  *)
LEMMA FreshSound == \A groups, next : AsCut(Fired(groups, next))
BY Zenon DEF AsCut, Fired

(* In the beginning nothing is exported.                                   *)
LEMMA ExportSoundInit == ASSUME Init PROVE ExportSound
<1>1. \A s \in Slots : \E groups, next : fire[s] = Fired(groups, next)
  BY ZenonT(40), SMT DEF Init, NoFire
<1>2. phase = "new" => Untouched
  BY DEF Init, Untouched
<1> QED BY <1>1, <1>2, FreshSound DEF ExportSound

(* Before Start nothing is added, batched or fired.                        *)
LEMMA UntouchedStep ==
    ASSUME Typed, phase = "new" => Untouched, [Next]_vars, phase' = "new"
    PROVE  Untouched'
<1>0. /\ NoFire.groups = {} /\ NoFire.cut.batches = <<>> /\ NoFire.logs.batches = <<>>
      /\ NoFire.next = 0 /\ Calls(NoFire) = 0
  BY DEF NoFire, Fired, NoBatch, Calls
<1>1. CASE phase # "new"
  <2>1. phase' = phase
    BY Zenon, <1>1 DEF Next, Outside, Progress, vars, NewClient, OtherNotEnabled, FlushStart, EnqueueEvent, Add,
         processResponses, Receive, FireBatch, WorkerEnds, exportProtoMsgBatch, ExportTraces,
         ExportLogs, FireDone, Swap, StopOld, FlushReturn
  <2> QED BY <1>1, <2>1
<1>2. CASE phase = "new"
  <2>0. Untouched
    BY <1>2
  <2>1. ASSUME NEW a \in Adders, Add(a) PROVE FALSE
    BY ZenonT(40), SMT, <2>0, <2>1 DEF Add, Untouched
  <2>2. ASSUME NEW m \in Musters, Receive(m) \/ FireBatch(m) PROVE FALSE
    BY Zenon, <2>0, <2>2 DEF Receive, FireBatch, Untouched
  <2>3. ASSUME NEW s \in Slots,
               exportProtoMsgBatch(s) \/ ExportTraces(s) \/ ExportLogs(s) \/ FireDone(s)
        PROVE  FALSE
    <3>1. fire[s] = NoFire
      BY ZenonT(40), SMT, <2>0 DEF Untouched
    <3>2. ~exportProtoMsgBatch(s)
      BY <3>1, <1>0 DEF exportProtoMsgBatch
    <3>3. ~ExportTraces(s)
      BY <3>1, <1>0 DEF ExportTraces
    <3>4. ~ExportLogs(s)
      BY SMT, Z3, <3>1, <1>0 DEF ExportLogs
    <3>5. ~FireDone(s)
      BY Zenon, <3>1 DEF FireDone
    <3> QED BY ZenonT(40), SMT, <2>3, <3>2, <3>3, <3>4, <3>5
  <2>4. CASE UNCHANGED <<adder, work, batch, fire>>
    BY Zenon, <2>0, <2>4 DEF Untouched
  <2>5. ASSUME NEW a \in Adders, NEW e \in NextEvent, EnqueueEvent(a, e) PROVE FALSE
    BY <1>2, <2>5 DEF EnqueueEvent
  <2>6. ~NewClient
    BY DEF NewClient, Start
  <2>7. CASE OtherNotEnabled \/ FlushStart \/ processResponses \/ Swap \/ StopOld \/ FlushReturn
             \/ UNCHANGED vars
    BY Zenon, <2>4, <2>7 DEF OtherNotEnabled, FlushStart, processResponses, Swap, StopOld, FlushReturn,
                      vars, musterVars
  <2>8. ASSUME NEW m \in Musters, WorkerEnds(m) PROVE Untouched'
    BY Zenon, <2>4, <2>8 DEF WorkerEnds
  <2> QED BY <2>1, <2>2, <2>3, <2>5, <2>6, <2>7, <2>8 DEF Next, Outside, Progress
<1> QED BY <1>1, <1>2

(* What is exported stays as it was cut while its batch is left alone.     *)
LEMMA SoundStays ==
    ASSUME NEW s \in Slots, fire'[s] = fire[s], ev' = ev, isPeer' = isPeer,
           SendTraces' => SendTraces \/ fire[s].list = <<>>,
           AsCut(fire[s])
    PROVE  AsCut(fire[s])'
<1>1. SizeIn(fire[s])' = SizeIn(fire[s])
  BY DEF SizeIn, checkPeerConnection, SpanSize, PeerSize, Events
<1> QED BY Zenon, <1>1 DEF AsCut

(* exportProtoMsgBatch cuts the list it takes up.                          *)
LEMMA ExportStarts ==
    ASSUME Typed, ExportSound, NEW s \in Slots, exportProtoMsgBatch(s)
    PROVE  \A t \in Slots : AsCut(fire[t])'
<1>0. fire \in [Slots -> FireRecord]
  BY Zenon DEF Typed
<1>1. PICK list \in fire[s].groups : fire' = [fire EXCEPT ![s] = Exported(s, list)]
  BY ExportIs
<1>2. UNCHANGED <<ev, isPeer, SendTraces>>
  BY Zenon, ExportIs DEF flagVars
<1>3. ASSUME NEW t \in Slots, t # s PROVE AsCut(fire[t])'
  <2>1. fire'[t] = fire[t]
    BY ZenonT(40), SMT, <1>0, <1>1, <1>3
  <2> QED BY Zenon, <1>2, <2>1, SoundStays DEF ExportSound
<1>4. fire'[s] = Exported(s, list)
  BY <1>0, <1>1
<1> PICK f : f = Exported(s, list)
  BY Zenon
<1>5. f.list = list /\ f.cut = ExportCut(list)
  BY Zenon DEF Exported
<1>6. SizeIn(fire[s])' = ExportSize(list)
  BY Zenon, <1>2, <1>4, <1>5 DEF SizeIn, ExportSize, checkPeerConnection, SpanSize, PeerSize, Events
<1>7. ExportCut(list) = SendTraceBatches(list, ExportSize(list))
      \/ (ExportCut(list) = NoBatch /\ ~SendTraces)
  BY Zenon DEF ExportCut, ExportSize, SendLogTraceBatches
<1>8. AsCut(fire[s])'
  BY ZenonT(40), SMT, <1>2, <1>4, <1>5, <1>6, <1>7 DEF AsCut
<1> QED BY <1>3, <1>8

(* A call for spans leaves the batches as they were cut.                   *)
LEMMA ExportsTraces ==
    ASSUME Typed, ExportSound, NEW s \in Slots, ExportTraces(s)
    PROVE  \A t \in Slots : AsCut(fire[t])'
<1>0. fire \in [Slots -> FireRecord]
  BY DEF Typed
<1>1. /\ \A t \in Slots \ {s} : fire'[t] = fire[t]
      /\ fire'[s].list = fire[s].list /\ fire'[s].cut = fire[s].cut
  BY Zenon, <1>0, Stepped DEF ExportTraces
<1>2. UNCHANGED <<ev, isPeer>> /\ (SendTraces' => SendTraces)
  BY Zenon DEF ExportTraces
<1>3. ASSUME NEW t \in Slots, t # s PROVE AsCut(fire[t])'
  BY ZenonT(40), SMT, <1>1, <1>2, <1>3, SoundStays DEF ExportSound
<1>4. SizeIn(fire[s])' = SizeIn(fire[s])
  BY <1>1, <1>2 DEF SizeIn, checkPeerConnection, SpanSize, PeerSize, Events
<1>5. AsCut(fire[s])'
  <2>1. AsCut(fire[s])
    BY Zenon DEF ExportSound
  <2> QED BY Zenon, <1>1, <1>2, <1>4, <2>1 DEF AsCut
<1> QED BY Zenon, <1>3, <1>5

(* A call for log records leaves them so, too.                             *)
LEMMA ExportsLogs ==
    ASSUME Typed, ExportSound, NEW s \in Slots, ExportLogs(s)
    PROVE  \A t \in Slots : AsCut(fire[t])'
<1>0. fire \in [Slots -> FireRecord]
  BY DEF Typed
<1>1. /\ \A t \in Slots \ {s} : fire'[t] = fire[t]
      /\ fire'[s].list = fire[s].list /\ fire'[s].cut = fire[s].cut
  BY Zenon, <1>0, Stepped DEF ExportLogs
<1>2. UNCHANGED <<ev, isPeer, SendTraces>>
  BY Zenon DEF ExportLogs
<1>3. ASSUME NEW t \in Slots, t # s PROVE AsCut(fire[t])'
  BY ZenonT(40), SMT, <1>1, <1>2, <1>3, SoundStays DEF ExportSound
<1>4. SizeIn(fire[s])' = SizeIn(fire[s])
  BY ZenonT(40), SMT, <1>1, <1>2 DEF SizeIn, checkPeerConnection, SpanSize, PeerSize, Events
<1>5. AsCut(fire[s])'
  <2>1. AsCut(fire[s])
    BY DEF ExportSound
  <2> QED BY Zenon, <1>1, <1>2, <1>4, <2>1 DEF AsCut
<1> QED BY <1>3, <1>5

(* Every step keeps the exports sound.                                     *)
LEMMA ExportSoundStep == ASSUME Typed, ExportSound, [Next]_vars PROVE ExportSound'
<1>0. fire \in [Slots -> FireRecord]
  BY DEF Typed
<1>1. phase' = "new" => Untouched'
  BY Zenon, UntouchedStep DEF ExportSound
<1> SUFFICES \A s \in Slots : AsCut(fire[s])'
  BY <1>1 DEF ExportSound
<1>2. ASSUME UNCHANGED <<ev, isPeer, fire>>, SendTraces' => SendTraces
      PROVE  \A s \in Slots : AsCut(fire[s])'
  BY ZenonT(40), SMT, <1>2, SoundStays DEF ExportSound
<1>3. CASE NewClient
  <2>1. \A s \in Slots : fire[s].list = <<>>
    <3>1. NoFire.list = <<>>
      BY ZenonT(40), SMT DEF NoFire, Fired
    <3>2. \A s \in Slots : fire[s] = NoFire
      BY <1>3 DEF NewClient, ExportSound, Untouched
    <3> QED BY Zenon, <3>1, <3>2
  <2>2. UNCHANGED <<ev, isPeer, fire>>
    BY Zenon, <1>3 DEF NewClient
  <2> QED BY <2>1, <2>2, SoundStays DEF ExportSound
<1>4. CASE FlushStart \/ processResponses \/ Swap \/ StopOld \/ FlushReturn \/ UNCHANGED vars
  <2>1. UNCHANGED <<ev, isPeer, fire, SendTraces>>
    BY Zenon, <1>4 DEF FlushStart, processResponses, Swap, StopOld, FlushReturn, vars, flagVars
  <2> QED BY <1>2, <2>1
<1>14. CASE OtherNotEnabled
  <2>1. UNCHANGED <<ev, isPeer, fire>>
    BY <1>14 DEF OtherNotEnabled
  <2>2. ~SendTraces'
    BY Zenon, <1>14 DEF OtherNotEnabled
  <2> QED BY ZenonT(40), SMT, <1>2, <2>1, <2>2
<1>5. CASE \E a \in Adders, e \in NextEvent : EnqueueEvent(a, e)
  BY SMT, Z3, <1>2, <1>5 DEF EnqueueEvent, flagVars
<1>6. CASE \E a \in Adders : Add(a)
  BY SMT, Z3, <1>2, <1>6 DEF Add, flagVars
<1>7. CASE \E m \in Musters : Receive(m) \/ WorkerEnds(m)
  BY SMT, Z3, <1>2, <1>7 DEF Receive, WorkerEnds, flagVars
<1>8. ASSUME UNCHANGED <<ev, isPeer, SendTraces>>, NEW s \in Slots, NEW groups, NEW next,
             fire' = [fire EXCEPT ![s] = Fired(groups, next)]
      PROVE  \A t \in Slots : AsCut(fire[t])'
  <2>1. ASSUME NEW t \in Slots, t # s PROVE AsCut(fire[t])'
    <3>1. fire'[t] = fire[t]
      BY Zenon, <1>0, <1>8, <2>1
    <3> QED BY ZenonT(40), SMT, <1>8, <3>1, SoundStays DEF ExportSound
  <2>2. fire'[s].list = <<>>
    BY ZenonT(40), SMT, <1>0, <1>8 DEF Fired
  <2>3. AsCut(fire[s])'
    BY <2>2 DEF AsCut
  <2> QED BY <2>1, <2>3
<1>9. ASSUME NEW m \in Musters, FireBatch(m)
      PROVE  \A s \in Slots : AsCut(fire[s])'
  <2>1. PICK s \in Slots : fire' = [fire EXCEPT ![s] = Fired(batches(batch[m]), 1)]
    BY Zenon, <1>9 DEF FireBatch
  <2>2. UNCHANGED <<ev, isPeer, SendTraces>>
    BY Zenon, <1>9 DEF FireBatch, flagVars
  <2> QED BY Zenon, <1>8, <2>1, <2>2
<1>10. ASSUME NEW s \in Slots, FireDone(s)
       PROVE  \A t \in Slots : AsCut(fire[t])'
  <2>1. fire' = [fire EXCEPT ![s] = Fired({}, 0)]
    BY Zenon, <1>10 DEF FireDone, NoFire
  <2>2. UNCHANGED <<ev, isPeer, SendTraces>>
    BY Zenon, <1>10 DEF FireDone, flagVars
  <2> QED BY ZenonT(40), SMT, <1>8, <2>1, <2>2
<1>11. CASE \E s \in Slots : exportProtoMsgBatch(s)
  BY Zenon, <1>11, ExportStarts
<1>12. CASE \E s \in Slots : ExportTraces(s)
  BY ZenonT(40), SMT, <1>12, ExportsTraces
<1>13. CASE \E s \in Slots : ExportLogs(s)
  BY <1>13, ExportsLogs
<1> QED BY ZenonT(40), SMT, <1>3, <1>4, <1>5, <1>6, <1>7, <1>9, <1>10, <1>11, <1>12, <1>13, <1>14
        DEF Next, Outside, Progress

(* Sound exports are cut greedily.                                         *)
LEMMA SoundIsGreedy == ASSUME Typed, ExportSound PROVE CutGreedily
<1> SUFFICES ASSUME NEW s \in Slots, fire[s].list # <<>>
             PROVE  LET f == fire[s]
                        size == SizeIn(f)
                        bs == f.cut.batches
                    IN /\ \A b \in Range(bs) : b # <<>> /\ SizeOf(b, size) <= maxApiSize
                       /\ \A k \in 1..(Len(bs) - 1) :
                             SizeOf(bs[k], size) + size[Head(bs[k + 1])] > maxApiSize
                       /\ f.cut # NoBatch \/ SendTraces =>
                             /\ Flattened(bs) \o f.cut.items = Fitting(f.list, size)
                             /\ f.cut.items # <<>> => size[f.list[Len(f.list)]] > maxApiSize
  BY Zenon DEF CutGreedily, Exporting
<1> PICK list : list = fire[s].list
  OBVIOUS
<1> PICK cut : cut = fire[s].cut
  OBVIOUS
<1> PICK size : size = SizeIn(fire[s])
  OBVIOUS
<1>1. list \in Seq(Events) /\ cut \in Acc(Events)
  BY ZenonT(40), SMT DEF Typed, FireRecord
<1>2. size \in [Events -> Nat]
  BY EventsNat DEF Typed, SizeIn
<1>3. AsCut(fire[s])
  BY Zenon DEF ExportSound
<1>4. Cutting(cut, size)
  <2>1. CASE cut = NoBatch
    BY Zenon, <1>2, <2>1, NoBatchCuts
  <2>2. CASE cut = SendTraceBatches(list, size)
    BY ZenonT(40), SMT, <1>1, <1>2, <2>2, SplitIsGreedy
  <2> QED BY ZenonT(40), SMT, <1>3, <2>1, <2>2 DEF AsCut
<1>5. ASSUME cut # NoBatch \/ SendTraces
      PROVE  /\ Flattened(cut.batches) \o cut.items = Fitting(list, size)
             /\ cut.items # <<>> => size[list[Len(list)]] > maxApiSize
  <2>1. cut = SendTraceBatches(list, size)
    BY Zenon, <1>3, <1>5 DEF AsCut
  <2>2. Flat(cut) = Fitting(list, size)
        /\ (cut.items # <<>> => size[list[Len(list)]] > maxApiSize)
    BY Zenon, <1>1, <1>2, <2>1, SplitIsGreedy
  <2> QED BY ZenonT(40), SMT, <2>2 DEF Flat
<1>6. \A b \in Range(cut.batches) : b # <<>> /\ SizeOf(b, size) <= maxApiSize
  <2> SUFFICES ASSUME NEW b \in Range(cut.batches) PROVE b # <<>> /\ SizeOf(b, size) <= maxApiSize
    OBVIOUS
  <2> PICK k \in DOMAIN cut.batches : b = cut.batches[k]
    BY Zenon DEF Range
  <2> QED BY ZenonT(40), SMT, <1>4 DEF Cutting
<1>7. \A k \in 1..(Len(cut.batches) - 1) :
         SizeOf(cut.batches[k], size) + size[Head(cut.batches[k + 1])] > maxApiSize
  BY Zenon, <1>4 DEF Cutting
<1> QED BY Zenon, <1>5, <1>6, <1>7

-----------------------------------------------------------------------------
(* The places of an event: with the goroutine that adds it, in a work      *)
(* channel or a worker's batch, in a list to export, in a call to come.    *)
InAdd(e, x) == x \in Adders /\ adder[x].e = e
InWork(e, x) == x \in Musters /\ e \in Range(work[x])
InBatch(e, x) == x \in Musters /\ e \in Range(batch[x])
InList(e, x, y) == x \in Slots /\ y \in fire[x].groups /\ e \in Range(y)
InCall(e, x, y) == /\ x \in Slots /\ y \in DOMAIN fire[x].cut.batches /\ y >= fire[x].next
                   /\ e \in Range(fire[x].cut.batches[y])

(* The kind k of place, and where: x says with whom, y in which list or    *)
(* call.                                                                   *)
Holds(e, k, x, y) ==
    \/ k = "adding" /\ y = 0 /\ InAdd(e, x)
    \/ k = "work" /\ y = 0 /\ InWork(e, x)
    \/ k = "batch" /\ y = 0 /\ InBatch(e, x)
    \/ k = "list" /\ InList(e, x, y)
    \/ k = "call" /\ InCall(e, x, y)

(* An event is in at most one place, and in one when it is held.           *)
One(e) ==
    /\ \A k, x, y, l, v, w : Holds(e, k, x, y) /\ Holds(e, l, v, w) => k = l /\ x = v /\ y = w
    /\ fate[e] = "held" <=> \E k, x, y : Holds(e, k, x, y)

(* Every event is in one place, and there once.                            *)
Placed ==
    /\ \A e \in Events : One(e)
    /\ \A m \in Musters : Distinct(work[m]) /\ Distinct(batch[m])
    /\ \A s \in Slots : \A g \in fire[s].groups : Distinct(g)

(* An event that no step touches stays in its one place.                   *)
LEMMA OneStays ==
    ASSUME NEW e, One(e), fate'[e] = fate[e],
           \A x : InAdd(e, x)' <=> InAdd(e, x), \A x : InWork(e, x)' <=> InWork(e, x),
           \A x : InBatch(e, x)' <=> InBatch(e, x), \A x, y : InList(e, x, y)' <=> InList(e, x, y),
           \A x, y : InCall(e, x, y)' <=> InCall(e, x, y)
    PROVE  One(e)'
<1>1. ASSUME NEW k, NEW x, NEW y PROVE Holds(e, k, x, y)' <=> Holds(e, k, x, y)
  BY Zenon DEF Holds
<1>2. ASSUME NEW k, NEW x, NEW y, NEW l, NEW v, NEW w, Holds(e, k, x, y)', Holds(e, l, v, w)'
      PROVE  k = l /\ x = v /\ y = w
  <2>1. Holds(e, k, x, y) /\ Holds(e, l, v, w)
    BY Zenon, <1>1, <1>2
  <2> QED BY Zenon, <2>1 DEF One
<1>3. (\E k, x, y : Holds(e, k, x, y))' <=> \E k, x, y : Holds(e, k, x, y)
  BY Zenon, <1>1
<1>4. (fate[e] = "held" <=> \E k, x, y : Holds(e, k, x, y))'
  BY Zenon, <1>3 DEF One
<1> QED BY Zenon, <1>2, <1>4 DEF One

(* An event that moves to one place and is nowhere else.                   *)
LEMMA OneMoved ==
    ASSUME NEW e, NEW k, NEW x, NEW y, Holds(e, k, x, y)', fate'[e] = "held",
           \A l, v, w : Holds(e, l, v, w)' => l = k /\ v = x /\ w = y
    PROVE  One(e)'
BY DEF One

(* An event that leaves for good.                                          *)
LEMMA OneGone ==
    ASSUME NEW e, fate'[e] # "held", \A k, x, y : ~Holds(e, k, x, y)'
    PROVE  One(e)'
BY Zenon DEF One

(* What a slot that fires nothing, or has made its calls, holds.           *)
LEMMA IdleHolds ==
    ASSUME NEW s \in Slots, fire[s] = NoFire, NEW e, NEW y
    PROVE  ~InList(e, s, y) /\ ~InCall(e, s, y)
<1>1. NoFire.groups = {} /\ NoFire.cut.batches = <<>>
  BY Zenon DEF NoFire, Fired, NoBatch
<1> QED BY SMT, Z3, <1>1 DEF InList, InCall

(* A batch whose calls are over holds no event in a call.                  *)
LEMMA OverHolds ==
    ASSUME NEW s \in Slots, fire \in [Slots -> FireRecord], fire[s].next > Len(fire[s].cut.batches),
           NEW e, NEW y
    PROVE  ~InCall(e, s, y)
<1>1. fire[s].cut.batches \in Seq(Seq(Events)) /\ fire[s].next \in Nat
  BY Zenon DEF FireRecord, Acc
<1> PICK n \in Nat : n = Len(fire[s].cut.batches) /\ DOMAIN fire[s].cut.batches = 1..n
  BY SMT, Z3, <1>1
<1>2. ASSUME NEW k \in 1..n PROVE ~(k >= fire[s].next)
  BY <1>1
<1> QED BY <1>2 DEF InCall

(* A batch is over when its last call is.                                  *)
LEMMA OverMeans ==
    ASSUME NEW s \in Slots, fire \in [Slots -> FireRecord], Over(fire[s])
    PROVE  fire[s].next > Len(fire[s].cut.batches)
<1>0. \A n, l, x \in Nat : x > n + l => x > n
  BY SMT, Z3
<1>1. fire[s].cut.batches \in Seq(Seq(Events)) /\ fire[s].logs.batches \in Seq(Seq(Records))
      /\ fire[s].next \in Nat
  BY Zenon DEF FireRecord, Acc
<1> PICK n \in Nat : n = Len(fire[s].cut.batches)
  BY SMT, Z3, <1>1
<1> PICK l \in Nat : l = Len(fire[s].logs.batches)
  BY <1>1
<1>2. fire[s].next > n + l
  BY Zenon DEF Over, Calls
<1> QED BY ZenonT(40), SMT, <1>0, <1>1, <1>2

(* The steps that move events.                                             *)
LEMMA EnqueuePlaces ==
    ASSUME Typed, Placed, NEW a \in Adders, NEW e \in NextEvent, EnqueueEvent(a, e)
    PROVE  Placed'
<1>0. e \in Events /\ fate[e] = "new" /\ 0 \notin Events /\ Events' = Events
  <2>1. e \in Events /\ fate[e] = "new"
    BY Zenon DEF NextEvent
  <2>2. Events = 1..Len(ev) /\ Len(ev) \in Nat
    BY Zenon, EventsNat DEF Typed
  <2>3. \A n \in Nat : 0 \notin 1..n
    OBVIOUS
  <2>4. Events' = Events
    BY ZenonT(40), SMT DEF EnqueueEvent, Events
  <2> QED BY ZenonT(40), SMT, <2>1, <2>2, <2>3, <2>4
<1>1. fate \in [Events -> Fates] /\ adder \in [Adders -> AddRecord]
  BY DEF Typed
<1>2. UNCHANGED <<work, batch, fire>>
  BY Zenon DEF EnqueueEvent, musterVars
<1>3. \A k, x, y : ~Holds(e, k, x, y)
  BY Zenon, <1>0 DEF Placed, One
<1>4. /\ \A d, x : InWork(d, x)' <=> InWork(d, x)
      /\ \A d, x : InBatch(d, x)' <=> InBatch(d, x)
      /\ \A d, x, y : InList(d, x, y)' <=> InList(d, x, y)
      /\ \A d, x, y : InCall(d, x, y)' <=> InCall(d, x, y)
  BY ZenonT(40), SMT, <1>2 DEF InWork, InBatch, InList, InCall
<1>5. ASSUME NEW d \in Events PROVE One(d)'
  <2>1. CASE fate' = [fate EXCEPT ![e] = "refused"] /\ UNCHANGED adder
    <3>1. \A c, x : InAdd(c, x)' <=> InAdd(c, x)
      BY <2>1 DEF InAdd
    <3>2. CASE d = e
      <4>1. \A k, x, y : ~Holds(e, k, x, y)'
        BY Zenon, <1>3, <1>4, <3>1 DEF Holds
      <4>2. fate'[e] # "held"
        BY Zenon, <1>0, <1>1, <2>1
      <4> QED BY ZenonT(40), SMT, <3>2, <4>1, <4>2, OneGone
    <3>3. CASE d # e
      <4>1. fate'[d] = fate[d]
        BY Zenon, <1>1, <2>1, <3>3
      <4>2. One(d)
        BY Zenon DEF Placed
      <4> QED BY ZenonT(40), SMT, <1>4, <3>1, <4>1, <4>2, OneStays
    <3> QED BY ZenonT(40), SMT, <3>2, <3>3
  <2>2. CASE /\ fate' = [fate EXCEPT ![e] = "held"]
             /\ adder' = [adder EXCEPT ![a] = [e |-> e, m |-> muster]]
    <3>1. adder[a].e = 0 /\ adder'[a].e = e /\ \A x \in Adders : x # a => adder'[x] = adder[x]
      <4>1. adder[a] = NoAdd /\ adder'[a] = [e |-> e, m |-> muster]
        BY Zenon, <1>1, <2>2 DEF EnqueueEvent
      <4>2. NoAdd.e = 0 /\ [e |-> e, m |-> muster].e = e
        BY Zenon DEF NoAdd
      <4>3. \A x \in Adders : x # a => adder'[x] = adder[x]
        BY Zenon, <1>1, <2>2
      <4> QED BY ZenonT(40), SMT, <4>1, <4>2, <4>3
    <3>2. CASE d = e
      <4>1. Holds(e, "adding", a, 0)'
        BY Zenon, <3>1 DEF Holds, InAdd
      <4>2. ASSUME NEW k, NEW x, NEW y, Holds(e, k, x, y)' PROVE k = "adding" /\ x = a /\ y = 0
        <5>1. CASE k = "adding" /\ y = 0 /\ InAdd(e, x)'
          <6>1. x # a => Holds(e, k, x, y)
            BY Zenon, <3>1, <5>1 DEF Holds, InAdd
          <6> QED BY ZenonT(40), SMT, <1>3, <5>1, <6>1
        <5>2. CASE ~(k = "adding" /\ y = 0 /\ InAdd(e, x)')
          <6>1. Holds(e, k, x, y)
            BY ZenonT(40), SMT, <1>4, <4>2, <5>2 DEF Holds
          <6> QED BY Zenon, <1>3, <6>1
        <5> QED BY Zenon, <5>1, <5>2
      <4>3. fate'[e] = "held"
        BY Zenon, <1>0, <1>1, <2>2
      <4> QED BY ZenonT(40), SMT, <3>2, <4>1, <4>2, <4>3, OneMoved
    <3>3. CASE d # e
      <4>1. fate'[d] = fate[d] /\ d # 0
        BY ZenonT(40), SMT, <1>0, <1>1, <2>2, <3>3
      <4>2. \A x : InAdd(d, x)' <=> InAdd(d, x)
        BY ZenonT(40), SMT, <3>1, <3>3, <4>1 DEF InAdd
      <4>3. One(d)
        BY DEF Placed
      <4> QED BY ZenonT(40), SMT, <1>4, <4>1, <4>2, <4>3, OneStays
    <3> QED BY <3>2, <3>3
  <2> QED BY Zenon, <2>1, <2>2 DEF EnqueueEvent
<1> QED BY ZenonT(40), SMT, <1>0, <1>2, <1>5 DEF Placed

(* Add moves its event into the work channel, or drops it when that of the *)
(* transmission to peers is full.                                          *)
LEMMA AddPlaces == ASSUME Typed, Placed, NEW a \in Adders, Add(a) PROVE Placed'
<1>0. /\ fate \in [Events -> Fates] /\ adder \in [Adders -> AddRecord]
      /\ work \in [Musters -> Seq(Events)] /\ 0 \notin Events /\ Events' = Events
  BY SMT, Z3, EventsNat DEF Typed, Add, Events
<1> PICK e \in Events : e = adder[a].e
  BY ZenonT(40), SMT, <1>0 DEF Add, AddRecord
<1> PICK m \in Musters : m = adder[a].m
  BY <1>0 DEF Add, AddRecord
<1>1. UNCHANGED <<batch, fire>>
  BY Zenon DEF Add
<1>2. /\ \A d, x : InBatch(d, x)' <=> InBatch(d, x)
      /\ \A d, x, y : InList(d, x, y)' <=> InList(d, x, y)
      /\ \A d, x, y : InCall(d, x, y)' <=> InCall(d, x, y)
  BY Zenon, <1>1 DEF InBatch, InList, InCall
<1>3. adder'[a].e = 0 /\ \A x \in Adders : x # a => adder'[x] = adder[x]
  BY Zenon, <1>0 DEF Add, NoAdd
<1>4. ASSUME NEW d \in Events, d # e PROVE \A x : InAdd(d, x)' <=> InAdd(d, x)
  BY ZenonT(40), SMT, <1>0, <1>3, <1>4 DEF InAdd
<1>5. \A x : ~InAdd(e, x)'
  <2>1. ASSUME NEW x \in Adders, x # a, adder[x].e = e PROVE FALSE
    <3>1. Holds(e, "adding", x, 0) /\ Holds(e, "adding", a, 0)
      BY ZenonT(40), SMT, <2>1 DEF Holds, InAdd
    <3> QED BY ZenonT(40), SMT, <2>1, <3>1 DEF Placed, One
  <2> QED BY ZenonT(40), SMT, <1>0, <1>3, <2>1 DEF InAdd
<1>6. \A k, x, y : Holds(e, k, x, y) => k = "adding"
  <2>1. Holds(e, "adding", a, 0)
    BY Zenon DEF Holds, InAdd
  <2> QED BY <2>1 DEF Placed, One
<1>7. fate[e] = "held"
  <2>1. Holds(e, "adding", a, 0)
    BY DEF Holds, InAdd
  <2> QED BY ZenonT(40), SMT, <2>1 DEF Placed, One
<1>8. CASE SendWork(a)
  <2>1. work' = [work EXCEPT ![m] = Append(work[m], e)] /\ fate' = fate
    BY Zenon, <1>8 DEF SendWork
  <2>2. e \notin Range(work[m])
    <3>1. ~Holds(e, "work", m, 0)
      BY Zenon, <1>6
    <3> QED BY ZenonT(40), SMT, <3>1 DEF Holds, InWork
  <2>3. Distinct(work[m])
    BY Zenon DEF Placed
  <2>4. work[m] \in Seq(Events)
    BY Zenon, <1>0
  <2>5. Range(Append(work[m], e)) = Range(work[m]) \cup {e} /\ Distinct(Append(work[m], e))
    <3>1. /\ Range(Append(work[m], e)) = Range(work[m]) \cup {e}
          /\ Distinct(work[m]) /\ e \notin Range(work[m]) => Distinct(Append(work[m], e))
      <4> HIDE DEF Range, Distinct
      <4> QED BY SMT, Z3, <2>4, AppendElements
    <3> QED BY ZenonT(40), SMT, <2>2, <2>3, <3>1
  <2>6. Range(work'[m]) = Range(work[m]) \cup {e} /\ \A x \in Musters : x # m => work'[x] = work[x]
    BY Zenon, <1>0, <2>1, <2>5
  <2>7. ASSUME NEW d \in Events PROVE One(d)'
    <3>1. CASE d = e
      <4>1. Holds(e, "work", m, 0)'
        BY ZenonT(40), SMT, <2>6 DEF Holds, InWork
      <4>2. ASSUME NEW k, NEW x, NEW y, Holds(e, k, x, y)' PROVE k = "work" /\ x = m /\ y = 0
        <5>1. CASE k = "work" /\ y = 0 /\ InWork(e, x)'
          <6>1. x # m => Holds(e, k, x, y)
            BY Zenon, <2>6, <5>1 DEF Holds, InWork
          <6> QED BY ZenonT(40), SMT, <1>6, <5>1, <6>1
        <5>2. CASE ~(k = "work" /\ y = 0 /\ InWork(e, x)')
          <6>1. Holds(e, k, x, y) /\ k # "adding"
            BY ZenonT(40), SMT, <1>2, <1>5, <4>2, <5>2 DEF Holds
          <6> QED BY Zenon, <1>6, <6>1
        <5> QED BY Zenon, <5>1, <5>2
      <4>3. fate'[e] = "held"
        BY Zenon, <1>7, <2>1
      <4> QED BY SMT, Z3, <3>1, <4>1, <4>2, <4>3, OneMoved
    <3>2. CASE d # e
      <4>1. \A x : InWork(d, x)' <=> InWork(d, x)
        BY Zenon, <2>6, <3>2 DEF InWork
      <4>2. One(d) /\ fate'[d] = fate[d]
        BY Zenon, <2>1 DEF Placed
      <4>3. \A x : InAdd(d, x)' <=> InAdd(d, x)
        BY ZenonT(40), SMT, <1>4, <3>2
      <4> QED BY ZenonT(40), SMT, <1>2, <4>1, <4>2, <4>3, OneStays
    <3> QED BY ZenonT(40), SMT, <3>1, <3>2
  <2>8. \A x \in Musters : Distinct(work'[x])
    BY ZenonT(40), SMT, <1>0, <2>1, <2>5 DEF Placed
  <2> QED BY ZenonT(40), SMT, <1>0, <1>1, <2>7, <2>8 DEF Placed
<1>9. CASE fate' = [fate EXCEPT ![adder[a].e] = "overflow"] /\ UNCHANGED work
  <2>1. \A d, x : InWork(d, x)' <=> InWork(d, x)
    BY Zenon, <1>9 DEF InWork
  <2>2. ASSUME NEW d \in Events PROVE One(d)'
    <3>1. CASE d = e
      <4>1. ASSUME NEW k, NEW x, NEW y PROVE ~Holds(e, k, x, y)'
        BY ZenonT(40), SMT, <1>2, <1>5, <1>6, <2>1 DEF Holds
      <4>2. fate'[e] # "held"
        BY <1>0, <1>9
      <4> QED BY ZenonT(40), SMT, <3>1, <4>1, <4>2, OneGone
    <3>2. CASE d # e
      <4>1. One(d) /\ fate'[d] = fate[d]
        BY ZenonT(40), SMT, <1>0, <1>9, <3>2 DEF Placed
      <4>2. \A x : InAdd(d, x)' <=> InAdd(d, x)
        BY <1>4, <3>2
      <4> QED BY ZenonT(40), SMT, <1>2, <2>1, <4>1, <4>2, OneStays
    <3> QED BY <3>1, <3>2
  <2> QED BY ZenonT(40), SMT, <1>0, <1>1, <1>9, <2>2 DEF Placed
<1> QED BY ZenonT(40), SMT, <1>8, <1>9 DEF Add

(* The worker moves the first event of the channel to its batch.           *)
LEMMA ReceivePlaces == ASSUME Typed, Placed, NEW m \in Musters, Receive(m) PROVE Placed'
<1>0. /\ work \in [Musters -> Seq(Events)] /\ batch \in [Musters -> Seq(Events)]
      /\ Events' = Events /\ fate' = fate
  BY Zenon DEF Typed, Receive, Events
<1> PICK q \in Seq(Events) : q = work[m]
  BY <1>0
<1> PICK b \in Seq(Events) : b = batch[m]
  BY ZenonT(40), SMT, <1>0
<1>1. q # <<>> /\ Distinct(q) /\ Distinct(b)
  BY Zenon DEF Receive, Placed
<1> PICK e : e = Head(q)
  BY Zenon
<1>2. e \in Range(q) /\ Range(Tail(q)) = Range(q) \ {e} /\ Distinct(Tail(q))
  BY ZenonT(40), SMT, <1>1, TailElements
<1>3. e \in Events
  BY SMT, Z3, <1>1
<1>4. UNCHANGED <<adder, fire>>
  BY Zenon DEF Receive
<1>5. /\ \A d, x : InAdd(d, x)' <=> InAdd(d, x)
      /\ \A d, x, y : InList(d, x, y)' <=> InList(d, x, y)
      /\ \A d, x, y : InCall(d, x, y)' <=> InCall(d, x, y)
  BY Zenon, <1>4 DEF InAdd, InList, InCall
<1>6. Holds(e, "work", m, 0)
  BY Zenon, <1>2 DEF Holds, InWork
<1>7. /\ \A k, x, y : Holds(e, k, x, y) => k = "work" /\ x = m
      /\ fate[e] = "held"
  BY ZenonT(40), SMT, <1>3, <1>6 DEF Placed, One
<1>8. e \notin Range(b)
  <2>1. ~Holds(e, "batch", m, 0)
    BY ZenonT(40), SMT, <1>7
  <2> QED BY Zenon, <2>1 DEF Holds, InBatch
<1>9. Range(Append(b, e)) = Range(b) \cup {e} /\ Distinct(Append(b, e))
  BY SMT, Z3, <1>1, <1>3, <1>8, AppendElements
<1>10. /\ work'[m] = Tail(q) /\ \A x \in Musters : x # m => work'[x] = work[x]
       /\ batch'[m] = Append(b, e) /\ \A x \in Musters : x # m => batch'[x] = batch[x]
  BY Zenon, <1>0 DEF Receive
<1>11. ASSUME NEW d \in Events PROVE One(d)'
  <2>1. CASE d = e
    <3>1. Holds(e, "batch", m, 0)'
      BY Zenon, <1>9, <1>10 DEF Holds, InBatch
    <3>2. \A x : ~InWork(e, x)'
      <4>1. ASSUME NEW x \in Musters, x # m PROVE e \notin Range(work[x])
        <5>1. ~Holds(e, "work", x, 0)
          BY Zenon, <1>7, <4>1
        <5> QED BY Zenon, <5>1 DEF Holds, InWork
      <4> QED BY Zenon, <1>2, <1>10, <4>1 DEF InWork
    <3>3. ASSUME NEW k, NEW x, NEW y, Holds(e, k, x, y)' PROVE k = "batch" /\ x = m /\ y = 0
      <4>1. CASE k = "batch" /\ y = 0 /\ InBatch(e, x)'
        <5>1. x # m => Holds(e, k, x, y)
          BY Zenon, <1>10, <4>1 DEF Holds, InBatch
        <5> QED BY ZenonT(40), SMT, <1>7, <4>1, <5>1
      <4>2. CASE ~(k = "batch" /\ y = 0 /\ InBatch(e, x)')
        <5>1. Holds(e, k, x, y) /\ k # "work"
          BY ZenonT(40), SMT, <1>5, <3>2, <3>3, <4>2 DEF Holds
        <5> QED BY ZenonT(40), SMT, <1>7, <5>1
      <4> QED BY Zenon, <4>1, <4>2
    <3>4. fate'[e] = "held"
      BY <1>0, <1>7
    <3> QED BY ZenonT(40), SMT, <2>1, <3>1, <3>3, <3>4, OneMoved
  <2>2. CASE d # e
    <3>1. \A x : InWork(d, x)' <=> InWork(d, x)
      BY ZenonT(40), SMT, <1>2, <1>10, <2>2 DEF InWork
    <3>2. \A x : InBatch(d, x)' <=> InBatch(d, x)
      BY ZenonT(40), SMT, <1>9, <1>10, <2>2 DEF InBatch
    <3>3. One(d) /\ fate'[d] = fate[d]
      BY <1>0 DEF Placed
    <3> QED BY ZenonT(40), SMT, <1>5, <3>1, <3>2, <3>3, OneStays
  <2> QED BY Zenon, <2>1, <2>2
<1>12. \A x \in Musters : Distinct(work'[x]) /\ Distinct(batch'[x])
  BY Zenon, <1>2, <1>9, <1>10 DEF Placed
<1> QED BY ZenonT(40), SMT, <1>0, <1>4, <1>11, <1>12 DEF Placed
=============================================================================
