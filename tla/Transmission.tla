---------------------------- MODULE Transmission ----------------------------
(***************************************************************************)
(* A transmission: events handed over by the routers and the collector     *)
(* (transmit/transmit.go, pkg/libtrace/libtrace.go), the queue they wait   *)
(* in, the goroutines that send them, and Flush                            *)
(* (pkg/libtrace/transmission/transmission.go).  The queue and its worker  *)
(* are a muster.Client, a library: a channel Work, a worker goroutine that *)
(* collects a batch from it, and a goroutine for every batch it fires.     *)
(* Flush puts a new muster in the place of the old one and stops that.     *)
(*                                                                         *)
(* isPeer is the transmission to peers, which drops events when its queue  *)
(* is full; the one to upstream waits (cmd/tracing-proxy/main.go).         *)
(***************************************************************************)
EXTENDS BatchSplit, FiniteSets

CONSTANTS
    Shapes,                 \* the events that may arrive: sequences of EventShape
    Lists,                  \* the events of one batch, when that is all there is
    Adders,                 \* goroutines that hand over events
    BadHosts,               \* hosts whose URL cannot be parsed or dialled
    MaxBatchSize, PendingWorkCapacity, MaxConcurrentBatches,
    MaxFlushes              \* bound: the Stops of collector and transmission, 2

Musters == 1..(MaxFlushes + 1)
Slots == Musters \X (1..MaxConcurrentBatches)

\* size, peerSize: proto.Size of the span as sent upstream, and as sent to a
\* peer with its span events; logs: that of the log records made of these.
EventShape == [data : BOOLEAN, dataset : {"", "ds"}, host : STRING,
               size : Nat, peerSize : Nat, logs : Seq(Nat)]

ASSUME TransmissionAssumption ==
    /\ Shapes \cup Lists \subseteq Seq(EventShape)
    /\ MaxBatchSize \in Nat \ {0} /\ PendingWorkCapacity \in Nat \ {0}
    /\ MaxConcurrentBatches \in Nat \ {0} /\ MaxFlushes \in Nat

VARIABLES
    phase,        \* "new", "running", "failed"
    isPeer,
    ev,           \* the events, in the order of arrival
    fate,         \* what became of an event
    adder,        \* [ev, m]: the event being added and the muster it goes to
    muster,       \* h.muster
    work,         \* the channel Work of each muster
    closed,       \* the musters whose Work is closed
    batch,        \* what each worker has collected
    ended,        \* the workers that have returned
    fire,         \* the goroutines that fire a batch
    flush,        \* [at, m, due]: the goroutine in Flush, and what it must settle
    flushes,
    SendTraces, SendEvents,
    responses, reported, lostResponses,
    canceled      \* the goroutine processResponses has ended

musterVars == <<muster, work, closed, batch, ended>>
flagVars == <<SendTraces, SendEvents>>
responseVars == <<responses, reported, lostResponses>>
flushVars == <<flush, flushes, canceled>>
vars == <<phase, isPeer, ev, fate, adder, musterVars, fire, flushVars,
          flagVars, responseVars>>

Events == DOMAIN ev
NoAdd == [e |-> 0, m |-> 0]
Fired(groups, next) ==
    [groups |-> groups, list |-> <<>>, cut |-> NoBatch, logs |-> NoBatch, next |-> next]
NoFire == Fired({}, 0)

Fates == {"new", "held", "refused", "overflow", "withheld", "oversized",
          "left", "called"}

TypeOK ==
    /\ phase \in {"new", "running", "failed"}
    /\ {isPeer, SendTraces, SendEvents, canceled} \subseteq BOOLEAN
    /\ \A e \in Events : ev[e] \in EventShape
    /\ fate \in [Events -> Fates]
    /\ adder \in [Adders -> [e : {0} \cup Events, m : {0} \cup Musters]]
    /\ muster \in Musters /\ {closed, ended} \subseteq SUBSET Musters
    /\ \A m \in Musters : /\ work[m] \in Seq(Events) /\ Len(work[m]) <= PendingWorkCapacity
                          /\ batch[m] \in Seq(Events) /\ Len(batch[m]) <= MaxBatchSize
    /\ DOMAIN fire = Slots
    /\ flush.at \in {"none", "waiting", "swapped", "stopping", "returned"}
    /\ flushes \in 0..MaxFlushes
    /\ responses \in 0..(2 * PendingWorkCapacity)
    /\ reported \in 0..Len(ev) /\ lostResponses \in 0..Len(ev)

Init ==
    /\ isPeer \in BOOLEAN
    /\ adder = [a \in Adders |-> NoAdd]
    /\ muster = 1 /\ closed = {} /\ ended = {}
    /\ work = [m \in Musters |-> <<>>] /\ batch = work
    /\ flush = [at |-> "none", m |-> 0, due |-> {}] /\ flushes = 0
    /\ SendEvents = TRUE
    /\ responses = 0 /\ reported = 0 /\ lostResponses = 0
    /\ canceled = FALSE
    /\ \/ /\ phase = "new" /\ SendTraces = FALSE
          /\ ev \in Shapes /\ fate = [e \in Events |-> "new"]
          /\ fire = [s \in Slots |-> NoFire]
       \* Later: the first muster has fired one batch for one host, and nothing
       \* else arrives.  The many sizes of a batch are looked at from here.
       \/ /\ phase = "running" /\ SendTraces = TRUE
          /\ ev \in Lists /\ fate = [e \in Events |-> "held"]
          /\ fire = [s \in Slots |->
                        IF s = <<1, 1>>
                        THEN Fired({[e \in Events |-> e]}, 1)
                        ELSE NoFire]

\* Start fails without a tenant, before it sets the flags, or without
\* credentials or addresses; when it returns, the first muster runs.
Start ==
    /\ SendEvents' \in BOOLEAN
    /\ \/ phase' = "running" /\ SendTraces' = TRUE
       \/ phase' = "failed" /\ SendTraces' \in BOOLEAN

\* NewClient starts its transmission; the process ends if that fails.
NewClient ==
    /\ phase = "new" /\ Start
    /\ UNCHANGED <<isPeer, ev, fate, adder, musterVars, fire, flushVars, responseVars>>

-----------------------------------------------------------------------------
(* Adding an event                                                         *)

Readers == {a \in Adders : adder[a] # NoAdd}

\* A writer that waits for the lock keeps new readers out.
CanRLock == flush.at # "waiting"

NextEvent == {e \in Events : fate[e] = "new" /\ \A d \in 1..(e - 1) : fate[d] # "new"}

\* SendPresampled hands on what has data, a host and a dataset.
SendPresampled(e) == ev[e].data /\ ev[e].host # "" /\ ev[e].dataset # ""

\* EnqueueEvent up to the channel operation: an event that cannot be sent
\* counts as an enqueue error, another takes the read lock and the muster.
EnqueueEvent(a, e) ==
    /\ phase = "running" /\ adder[a] = NoAdd
    /\ \/ /\ ~SendPresampled(e)
          /\ fate' = [fate EXCEPT ![e] = "refused"]
          /\ UNCHANGED adder
       \/ /\ SendPresampled(e) /\ CanRLock
          /\ fate' = [fate EXCEPT ![e] = "held"]
          /\ adder' = [adder EXCEPT ![a] = [e |-> e, m |-> muster]]
    /\ UNCHANGED <<phase, isPeer, ev, musterVars, fire, flushVars, flagVars,
                   responseVars>>

\* A send on Work goes through when a slot is free.
SendWork(a) ==
    /\ Len(work[adder[a].m]) < PendingWorkCapacity
    /\ work' = [work EXCEPT ![adder[a].m] = Append(work[adder[a].m], adder[a].e)]
    /\ UNCHANGED <<fate, responseVars>>

\* writeToResponse, not blocking.
writeToResponse ==
    IF responses < 2 * PendingWorkCapacity
    THEN responses' = responses + 1 /\ UNCHANGED <<reported, lostResponses>>
    ELSE lostResponses' = lostResponses + 1 /\ UNCHANGED <<responses, reported>>

\* The rest of Add: the send, which the transmission to upstream waits for;
\* the one to peers drops the event instead, with a response that says so.
Add(a) ==
    /\ adder[a] # NoAdd
    /\ \/ SendWork(a)
       \/ /\ isPeer /\ Len(work[adder[a].m]) = PendingWorkCapacity
          /\ fate' = [fate EXCEPT ![adder[a].e] = "overflow"]
          /\ writeToResponse
          /\ UNCHANGED work
    /\ adder' = [adder EXCEPT ![a] = NoAdd]
    /\ UNCHANGED <<phase, isPeer, ev, muster, closed, batch, ended, fire,
                   flushVars, flagVars>>

\* processResponses counts a response as an error: only overflows are written.
processResponses ==
    /\ ~canceled /\ responses > 0
    /\ responses' = responses - 1 /\ reported' = reported + 1
    /\ UNCHANGED <<phase, isPeer, ev, fate, adder, musterVars, fire, flushVars,
                   flagVars, lostResponses>>

-----------------------------------------------------------------------------
(* The worker of muster m, and the goroutines it fires batches in          *)

Receive(m) ==
    /\ m \notin ended /\ work[m] # <<>> /\ Len(batch[m]) < MaxBatchSize
    /\ batch' = [batch EXCEPT ![m] = Append(batch[m], Head(work[m]))]
    /\ work' = [work EXCEPT ![m] = Tail(work[m])]
    /\ UNCHANGED <<phase, isPeer, ev, fate, adder, muster, closed, ended, fire,
                   flushVars, flagVars, responseVars>>

\* batchAgg.Add has kept the events of each host and dataset apart.
batches(list) ==
    {Kept(list, {e \in Events : ev[e].host = h}) : h \in {ev[e].host : e \in Range(list)}}

FreeSlot(s) ==
    /\ fire[s] = NoFire
    /\ \A k \in 1..(s[2] - 1) : fire[<<s[1], k>>] # NoFire

\* Variant: the time of a batch is never over.
FireFull(m) ==
    /\ batch[m] # <<>> /\ (Len(batch[m]) = MaxBatchSize \/ m \in closed)
    /\ \E s \in Slots :
          /\ s[1] = m /\ FreeSlot(s)
          /\ fire' = [fire EXCEPT ![s] = Fired(batches(batch[m]), 1)]
    /\ batch' = [batch EXCEPT ![m] = <<>>]
    /\ UNCHANGED <<phase, isPeer, ev, fate, adder, muster, work, closed, ended,
                   flushVars, flagVars, responseVars>>

\* Variant: the worker goes on with the batch it has fired.
FireKeeps(m) ==
    /\ batch[m] # <<>>
    /\ \E s \in Slots :
          /\ s[1] = m /\ FreeSlot(s)
          /\ fire' = [fire EXCEPT ![s] = Fired(batches(batch[m]), 1)]
    /\ UNCHANGED <<phase, isPeer, ev, fate, adder, muster, work, closed, ended, batch,
                   flushVars, flagVars, responseVars>>

\* The batch is full, its time is over, or Work is closed: it is fired, once
\* fewer than MaxConcurrentBatches are.
FireBatch(m) ==
    /\ batch[m] # <<>>
    /\ \E s \in Slots :
          /\ s[1] = m /\ FreeSlot(s)
          /\ fire' = [fire EXCEPT ![s] = Fired(batches(batch[m]), 1)]
    /\ batch' = [batch EXCEPT ![m] = <<>>]
    /\ UNCHANGED <<phase, isPeer, ev, fate, adder, muster, work, closed, ended,
                   flushVars, flagVars, responseVars>>

WorkerEnds(m) ==
    /\ m \in closed \ ended /\ work[m] = <<>> /\ batch[m] = <<>>
    /\ ended' = ended \cup {m}
    /\ UNCHANGED <<phase, isPeer, ev, fate, adder, muster, work, closed, batch,
                   fire, flushVars, flagVars, responseVars>>

-----------------------------------------------------------------------------
(* Sending a batch                                                         *)

SpanSize == [e \in Events |-> ev[e].size]
PeerSize == [e \in Events |-> ev[e].peerSize]

LogRecords(list) ==
    Flattened([i \in DOMAIN list |->
                    [j \in DOMAIN ev[list[i]].logs |-> <<list[i], j>>]])

LogSize ==
    [r \in UNION {{e} \X DOMAIN ev[e].logs : e \in Events} |-> ev[r[1]].logs[r[2]]]

\* The same loop over spans for a peer, and over log records.
SendLogTraceBatches(list) == SendTraceBatches(list, PeerSize)
sendLogBatches(list) == SendTraceBatches(LogRecords(list), LogSize)

\* Only the transmission to peers looks at the host; what it cannot reach it
\* sends directly.
checkPeerConnection(list) == ~isPeer \/ ev[Head(list)].host \in BadHosts

Calls(f) == Len(f.cut.batches) + Len(f.logs.batches)
Over(f) == f.next > Calls(f)

\* Where an event stands once its list is cut: what is in no call stays behind.
Cut(list, cut, sends, size) ==
    [e \in Events |->
        IF e \notin Range(list) \/ e \in InCalls(cut) THEN fate[e]
        ELSE IF ~sends THEN "withheld"
        ELSE IF size[e] > maxApiSize THEN "oversized" ELSE "left"]

\* exportProtoMsgBatch up to its first call.
exportProtoMsgBatch(s) ==
    /\ Over(fire[s])
    /\ \E list \in fire[s].groups :
          LET sendDirect == checkPeerConnection(list)
              sends == ~sendDirect \/ SendTraces
              size == IF sendDirect THEN SpanSize ELSE PeerSize
              cut == IF ~sendDirect THEN SendLogTraceBatches(list)
                     ELSE IF SendTraces THEN SendTraceBatches(list, SpanSize) ELSE NoBatch
              logs == IF sendDirect /\ SendTraces THEN sendLogBatches(list) ELSE NoBatch
          IN /\ fire' = [fire EXCEPT ![s] = [groups |-> fire[s].groups \ {list}, list |-> list,
                                             cut |-> cut, logs |-> logs, next |-> 1]]
             /\ fate' = Cut(list, cut, sends, size)
    /\ UNCHANGED <<phase, isPeer, ev, adder, musterVars, flushVars, flagVars,
                   responseVars>>

\* A call with spans: ExportTraces, or the same to a peer without the flag.
\* One that fails is not repeated here; it may say that the tenant has no
\* traces.
ExportTraces(s) ==
    /\ fire[s].next \in DOMAIN fire[s].cut.batches
    /\ fate' = [e \in Events |-> IF e \in Range(fire[s].cut.batches[fire[s].next])
                                 THEN "called" ELSE fate[e]]
    /\ SendTraces' \in IF checkPeerConnection(fire[s].list) THEN {SendTraces, FALSE}
                       ELSE {SendTraces}
    /\ fire' = [fire EXCEPT ![s].next = fire[s].next + 1]
    /\ UNCHANGED <<phase, isPeer, ev, adder, musterVars, flushVars, SendEvents,
                   responseVars>>

\* resourceLogs grows from call to call: the k-th carries the first k batches.
resourceLogs(f) == SubSeq(f.logs.batches, 1, f.next - Len(f.cut.batches))

\* A call with log records, made while SendEvents is set.  One that fails is not
\* repeated, and may say that the tenant has no logs.
ExportLogs(s) ==
    /\ ~Over(fire[s]) /\ fire[s].next > Len(fire[s].cut.batches)
    /\ SendEvents' \in {SendEvents, FALSE}
    /\ fire' = [fire EXCEPT ![s].next = fire[s].next + 1]
    /\ UNCHANGED <<phase, isPeer, ev, fate, adder, musterVars, flushVars,
                   SendTraces, responseVars>>

\* Fire returns when every list has been exported.
FireDone(s) ==
    /\ fire[s] # NoFire /\ Over(fire[s]) /\ fire[s].groups = {}
    /\ fire' = [fire EXCEPT ![s] = NoFire]
    /\ UNCHANGED <<phase, isPeer, ev, fate, adder, musterVars, flushVars,
                   flagVars, responseVars>>

\* The flags are shared: the other transmission may be told that the tenant
\* has no traces.
OtherNotEnabled ==
    /\ phase = "running" /\ isPeer /\ SendTraces
    /\ SendTraces' = FALSE
    /\ UNCHANGED <<phase, isPeer, ev, fate, adder, musterVars, fire, flushVars,
                   SendEvents, responseVars>>

-----------------------------------------------------------------------------
(* Flush, by the collector's Stop and then by the transmission's own, which  *)
(* ends processResponses first.                                            *)

FlushStart ==
    /\ phase = "running" /\ flush.at \in {"none", "returned"}
    /\ flushes < MaxFlushes /\ ~canceled
    /\ flushes' = flushes + 1
    /\ canceled' \in IF isPeer THEN {TRUE} ELSE {flushes > 0, TRUE}
    /\ flush' = [at |-> "waiting", m |-> 0,
                 due |-> {e \in Events : fate[e] = "held"} \ {adder[a].e : a \in Adders}]
    /\ UNCHANGED <<phase, isPeer, ev, fate, adder, musterVars, fire, flagVars,
                   responseVars>>

\* Variant: the muster is replaced without the lock.
SwapUnlocked ==
    /\ flush.at = "waiting"
    /\ muster' = flushes + 1
    /\ flush' = [flush EXCEPT !.at = "swapped", !.m = muster]
    /\ UNCHANGED <<phase, isPeer, ev, fate, adder, work, closed, batch, ended,
                   fire, flushes, canceled, flagVars, responseVars>>

\* Under the write lock the new muster, already started, replaces the old one.
Swap ==
    /\ flush.at = "waiting" /\ Readers = {}
    /\ muster' = flushes + 1
    /\ flush' = [flush EXCEPT !.at = "swapped", !.m = muster]
    /\ UNCHANGED <<phase, isPeer, ev, fate, adder, work, closed, batch, ended,
                   fire, flushes, canceled, flagVars, responseVars>>

\* muster.Stop closes Work ...
StopOld ==
    /\ flush.at = "swapped"
    /\ closed' = closed \cup {flush.m}
    /\ flush' = [flush EXCEPT !.at = "stopping"]
    /\ UNCHANGED <<phase, isPeer, ev, fate, adder, muster, work, batch, ended,
                   fire, flushes, canceled, flagVars, responseVars>>

\* Variant: Flush waits for the worker only.
FlushReturnEarly ==
    /\ flush.at = "stopping" /\ flush.m \in ended
    /\ flush' = [flush EXCEPT !.at = "returned"]
    /\ UNCHANGED <<phase, isPeer, ev, fate, adder, musterVars, fire, flushes,
                   canceled, flagVars, responseVars>>

\* ... and waits for the worker and every batch it has fired.
FlushReturn ==
    /\ flush.at = "stopping" /\ flush.m \in ended
    /\ \A s \in Slots : s[1] = flush.m => fire[s] = NoFire
    /\ flush' = [flush EXCEPT !.at = "returned"]
    /\ UNCHANGED <<phase, isPeer, ev, fate, adder, musterVars, fire, flushes,
                   canceled, flagVars, responseVars>>

-----------------------------------------------------------------------------
\* What arrives or is asked for from outside.
Outside ==
    \/ NewClient \/ OtherNotEnabled \/ FlushStart
    \/ \E a \in Adders, e \in NextEvent : EnqueueEvent(a, e)

\* What goroutines that are under way do.
Progress ==
    \/ \E a \in Adders : Add(a)
    \/ processResponses
    \/ \E m \in Musters : Receive(m) \/ FireBatch(m) \/ WorkerEnds(m)
    \/ \E s \in Slots : exportProtoMsgBatch(s) \/ ExportTraces(s) \/ ExportLogs(s) \/ FireDone(s)
    \/ Swap \/ StopOld \/ FlushReturn

Next == Outside \/ Progress

Spec == Init /\ [][Next]_vars

\* As long as some goroutine can run, one does, and calls return.  What is
\* under way is finite, so each gets its turn; nothing has to arrive.
FairSpec == Spec /\ WF_vars(Progress)

-----------------------------------------------------------------------------
\* tryAdd never sends on the Work of a muster that Flush has stopped, which
\* would panic: the read lock it holds keeps the muster in its place.
NoSendOnClosed == \A a \in Readers : adder[a].m \notin closed

Places(e) ==
    {<<"adding", a>> : a \in {a \in Adders : adder[a].e = e}}
    \cup (UNION {{<<"work", m, i>> : i \in {i \in DOMAIN work[m] : work[m][i] = e}}
                 \cup {<<"batch", m, i>> : i \in {i \in DOMAIN batch[m] : batch[m][i] = e}}
                   : m \in Musters})
    \cup (UNION {{<<"list", s, g>> : g \in {g \in fire[s].groups : e \in Range(g)}}
                 \cup {<<"call", s, k>> : k \in {k \in DOMAIN fire[s].cut.batches :
                           k >= fire[s].next /\ e \in Range(fire[s].cut.batches[k])}}
                   : s \in Slots})

\* An event handed over and not yet settled is in one place, and a settled one
\* in none: whatever Add, Flush and the workers do, no event is lost between
\* them and none is sent twice.
InOnePlace ==
    \A e \in Events : Cardinality(Places(e)) = IF fate[e] = "held" THEN 1 ELSE 0

Exporting == {s \in Slots : fire[s].list # <<>>}
SizeIn(f) == IF checkPeerConnection(f.list) THEN SpanSize ELSE PeerSize

\* The calls of an export hold the events that fit, in order, but for the batch
\* being filled when the last one is too large; none is empty or carries more
\* than maxApiSize, and no two could have been one: a batch and the first event
\* of the next are too large together.
CutGreedily ==
    \A s \in Exporting :
        LET f == fire[s]
            size == SizeIn(f)
            bs == f.cut.batches
        IN /\ \A b \in Range(bs) : b # <<>> /\ SizeOf(b, size) <= maxApiSize
           /\ \A k \in 1..(Len(bs) - 1) :
                 SizeOf(bs[k], size) + size[Head(bs[k + 1])] > maxApiSize
           /\ f.cut # NoBatch \/ SendTraces =>
                 /\ Flattened(bs) \o f.cut.items = Fitting(f.list, size)
                 /\ f.cut.items # <<>> => size[f.list[Len(f.list)]] > maxApiSize

\* A call with log records carries no more of them than the limit by which
\* sendLogBatches has cut them.  This does not hold, since the batches of the
\* calls before are carried again: see LogsRepeated.cfg.
LogCallsFit ==
    \A s \in Exporting :
        ~Over(fire[s]) /\ SendEvents =>
            SizeOf(Flattened(resourceLogs(fire[s])), LogSize) <= maxApiSize

\* When Flush returns, every event whose Add had returned before it was called
\* has been sent, or dropped for a reason of its own.
FlushSettles ==
    flush.at = "returned" => \A e \in flush.due : fate[e] # "held"

UnderWay == (\E e \in Events : fate[e] = "held") \/ flush.at \notin {"none", "returned"}

\* What has been handed over is settled and Flush returns, also while the queue
\* is full and a Flush waits for the lock that the blocked Add holds.
EverythingSettles == []<>~UnderWay

\* When everything is settled, every span but those logged as "greater than
\* 1mb, so dropping the span" has been in a call.
OnlyOversizedDropped == \A e \in Events : fate[e] # "left"
=============================================================================
