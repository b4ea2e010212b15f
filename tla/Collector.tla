------------------------------ MODULE Collector -----------------------------
(***************************************************************************)
(* InMemCollector (collect/collect.go).  One goroutine, collect(), owns    *)
(* the live traces.  It takes spans from two bounded channels, lets traces *)
(* expire on a ticker, makes one sampling decision for each trace, hands   *)
(* the spans of kept traces to the upstream transmission and remembers the *)
(* decision for late spans.  Around it run the routers that add spans, the *)
(* configuration watcher that asks for a reload, and Stop.                 *)
(*                                                                         *)
(* Time is what is left of each trace's SendBy deadline; Elapse runs it    *)
(* down.  A loop of send calls is the sequence toSend, sent one trace per  *)
(* step, so that the other goroutines interleave with it.                  *)
(***************************************************************************)
EXTENDS InMemCache, SentCache

CONSTANTS
    Roots,          \* spans without a parent ID (isRootSpan)
    SamplerKeys,
    SamplerKeyOf,   \* sampler key of the traces with this ID
    StartConfig,    \* the configuration at Start
    Configs,        \* configurations after a reload
    QueueFactor,    \* channel length / CacheCapacity at Start (3)
    ShrinkFloor,    \* oldCheckAlloc leaves smaller rings alone (100)
    TraceTimeout,
    SendDelay,
    MaxReloads,     \* bound: configuration changes in a behaviour
    MayStop         \* whether the process is asked to shut down

(* CacheCapacity, SampleCache.KeptSize, CacheOverrunStrategy and DryRun,   *)
(* which are read again after every reload.                                *)
Config == [capacity : Nat, keptSize : Nat,
           overrun : {"resize", "impact"}, dryRun : BOOLEAN]

ASSUME CollectorAssumption ==
    /\ Roots \subseteq Spans
    /\ SamplerKeyOf \in [TraceIDs -> SamplerKeys]
    /\ StartConfig \in Config /\ StartConfig.capacity # 0
    /\ Configs \subseteq Config
    /\ QueueFactor \in Nat \ {0} /\ ShrinkFloor \in Nat
    /\ TraceTimeout \in Nat /\ SendDelay \in Nat
    /\ MayStop \in BOOLEAN
    /\ MaxReloads \in Nat

VARIABLES
    fresh,      \* spans no client has sent yet
    refused,    \* spans AddSpan returned ErrWouldBlock for
    incoming,   \* channel of spans from clients
    fromPeer,   \* channel of spans from peers
    closed,     \* incoming has been closed by Stop
    trace,      \* trace[t]: fields of the trace object made for span t
    toSend,     \* rest of the running loop of send calls
    pc,         \* where collect() is
    stopPc,     \* where Stop() is
    conf,       \* the loaded configuration
    version,    \* how often it was loaded
    notify,     \* onChange has loaded conf and not yet run the callbacks
    reload,     \* the one-slot reload channel
    samplers,   \* datasetSamplers: configuration version each was made from
    delivered,  \* how often each span was given to Transmission.EnqueueSpan
    discarded   \* spans dropped by a sampling decision

spanVars == <<fresh, refused, delivered, discarded>>
chanVars == <<incoming, fromPeer, closed>>
confVars == <<conf, version, notify, reload, samplers>>
vars == <<spanVars, chanVars, confVars, cacheVars, sentVars,
          trace, toSend, pc, stopPc>>

TraceType == [spans : SUBSET Spans, root : BOOLEAN, ttl : Int,
              sent : BOOLEAN, keep : BOOLEAN]

NoTrace == [spans |-> {}, root |-> FALSE, ttl |-> 0, sent |-> FALSE, keep |-> FALSE]

TypeOK ==
    /\ CacheTypeOK /\ SentTypeOK
    /\ fresh \subseteq Spans /\ refused \subseteq Spans
    /\ incoming \in Seq(Spans) /\ fromPeer \in Seq(Spans) /\ closed \in BOOLEAN
    /\ trace \in [Spans -> TraceType]
    /\ toSend \in Seq(Spans)
    /\ pc \in {"top", "select", "alloc", "reload", "unlocked", "exited", "panicked"}
    /\ stopPc \in {"running", "locking", "purging", "stopped"}
    /\ conf \in Config /\ version \in Nat
    /\ notify \in BOOLEAN /\ reload \in BOOLEAN
    /\ DOMAIN samplers \subseteq SamplerKeys
    /\ \A k \in DOMAIN samplers : samplers[k] \in Nat
    /\ delivered \in [Spans -> Nat]
    /\ discarded \subseteq Spans

Init ==
    /\ NewInMemCache(StartConfig.capacity) /\ NewSentCache
    /\ fresh = Spans /\ refused = {}
    /\ incoming = <<>> /\ fromPeer = <<>> /\ closed = FALSE
    /\ trace = [t \in Spans |-> NoTrace]
    /\ toSend = <<>> /\ pc = "top" /\ stopPc = "running"
    /\ conf = StartConfig /\ version = 0
    /\ notify = FALSE /\ reload = FALSE
    /\ samplers = [k \in {} |-> 0]
    /\ delivered = [s \in Spans |-> 0] /\ discarded = {}

-----------------------------------------------------------------------------
(* The routers.  add never blocks: a full channel refuses the span.        *)
ChanCap == QueueFactor * StartConfig.capacity

add(s, ch) ==
    /\ stopPc = "running"
    /\ fresh' = fresh \ {s}
    /\ IF Len(ch) < ChanCap
       THEN ch' = Append(ch, s) /\ UNCHANGED refused
       ELSE UNCHANGED ch /\ refused' = refused \cup {s}
    /\ UNCHANGED <<delivered, discarded, closed, confVars, cacheVars,
                   sentVars, trace, toSend, pc, stopPc>>

AddSpan == \E s \in fresh : add(s, incoming) /\ UNCHANGED fromPeer

AddSpanFromPeer == \E s \in fresh : add(s, fromPeer) /\ UNCHANGED incoming

(* Time passes for the traces in the cache.                                *)
Aged(t) == [spans |-> trace[t].spans, root |-> trace[t].root,
            ttl |-> trace[t].ttl - 1,
            sent |-> trace[t].sent, keep |-> trace[t].keep]

Elapse ==
    /\ \E t \in Cached : trace[t].ttl >= 0
    /\ trace' = [t \in Spans |-> IF t \in Cached /\ trace[t].ttl >= 0
                                 THEN Aged(t) ELSE trace[t]]
    /\ UNCHANGED <<spanVars, chanVars, confVars, cacheVars, sentVars,
                   toSend, pc, stopPc>>

(* The configuration file changes: onChange loads it, then runs the        *)
(* reload callbacks.                                                       *)
ChangeConfig ==
    /\ ~notify /\ version < MaxReloads
    /\ conf' \in Configs /\ version' = version + 1
    /\ notify' = TRUE
    /\ UNCHANGED <<spanVars, chanVars, reload, samplers, cacheVars, sentVars,
                   trace, toSend, pc, stopPc>>

sendReloadSignal ==
    /\ notify /\ notify' = FALSE
    /\ reload' = TRUE
    /\ UNCHANGED <<spanVars, chanVars, conf, version, samplers, cacheVars, sentVars,
                   trace, toSend, pc, stopPc>>

CycleFilter ==
    /\ Cycle
    /\ UNCHANGED <<spanVars, chanVars, confVars, cacheVars, trace, toSend, pc, stopPc>>

-----------------------------------------------------------------------------
(* Spans leave the collector: to the transmission, or dropped.  Module     *)
(* SpanJourney has the rates they leave with.                              *)
Settle(S, transmit) ==
    /\ IF transmit
       THEN /\ delivered' = [s \in Spans |-> IF s \in S THEN delivered[s] + 1
                                                        ELSE delivered[s]]
            /\ UNCHANGED discarded
       ELSE /\ discarded' = discarded \cup S
            /\ UNCHANGED delivered
    /\ UNCHANGED <<fresh, refused>>

dealWithSentTrace(keep, sp) == Settle({sp}, keep \/ conf.dryRun)

(* One call of send: the sampler of the trace's key, made on first use,    *)
(* decides.                                                                *)
Decide(t, keep) ==
    LET key == SamplerKeyOf[TraceOf[t]]
    IN  /\ trace' = [trace EXCEPT ![t] = [spans |-> trace[t].spans,
                          root |-> trace[t].root, ttl |-> trace[t].ttl,
                          sent |-> TRUE, keep |-> keep]]
        /\ samplers' = [k \in DOMAIN samplers \cup {key} |->
                           IF k \in DOMAIN samplers THEN samplers[k]
                                                    ELSE version]
        /\ Record(TraceOf[t], keep)
        /\ Settle(trace[t].spans, keep \/ conf.dryRun)

(* Variant: send does not look at Sent.                                    *)
sendAgain ==
    /\ toSend # <<>>
    /\ toSend' = Tail(toSend)
    /\ \E keep \in BOOLEAN : Decide(Head(toSend), keep)
    /\ UNCHANGED <<chanVars, conf, version, notify, reload, cacheVars, pc, stopPc>>

send ==
    /\ toSend # <<>>
    /\ toSend' = Tail(toSend)
    /\ LET t == Head(toSend)
       IN  \/ /\ trace[t].sent
              /\ UNCHANGED <<trace, samplers, sentVars, spanVars>>
           \/ /\ ~trace[t].sent
              /\ \E keep \in BOOLEAN : Decide(t, keep)
    /\ UNCHANGED <<chanVars, conf, version, notify, reload, cacheVars, pc, stopPc>>

-----------------------------------------------------------------------------
(* Variant: late spans are passed along whatever the decision was.         *)
LateSpanPasses(sp) ==
    /\ cache[TraceOf[sp]] = Nil
    /\ Found(TraceOf[sp])
    /\ dealWithSentTrace(TRUE, sp)
    /\ CheckHit(TraceOf[sp])
    /\ UNCHANGED <<cacheVars, trace, toSend>>

(* processSpan: a late span follows the remembered decision, ...           *)
LateSpan(sp) ==
    /\ cache[TraceOf[sp]] = Nil
    /\ Found(TraceOf[sp])
    /\ dealWithSentTrace(lru[TraceOf[sp]].keep, sp)
    /\ CheckHit(TraceOf[sp])
    /\ UNCHANGED <<cacheVars, trace, toSend>>

(* ... a span of an unknown trace starts one, ejecting the trace in its    *)
(* slot if that is unsent, ...                                             *)
NewTrace(sp) ==
    /\ cache[TraceOf[sp]] = Nil
    /\ ~Found(TraceOf[sp])
    /\ Set(sp)
    /\ toSend' = IF Overwritten # Nil /\ ~trace[Overwritten].sent
                 THEN <<Overwritten>> ELSE <<>>
    /\ trace' = [trace EXCEPT ![sp] =
                    [spans |-> {sp}, root |-> sp \in Roots,
                     ttl |-> IF sp \in Roots THEN SendDelay ELSE TraceTimeout,
                     sent |-> FALSE, keep |-> FALSE]]
    /\ UNCHANGED <<spanVars, sentVars>>

(* ... and a span of a live trace joins it.  If that trace is already sent *)
(* the span follows its decision first, and joins it all the same.         *)
JoinTrace(sp) ==
    LET t == cache[TraceOf[sp]]
    IN  /\ t # Nil
        /\ IF trace[t].sent THEN dealWithSentTrace(trace[t].keep, sp)
                            ELSE UNCHANGED spanVars
        /\ trace' = [trace EXCEPT ![t] = [spans |-> trace[t].spans \cup {sp},
                          root |-> trace[t].root \/ sp \in Roots,
                          ttl |-> IF sp \in Roots THEN SendDelay ELSE trace[t].ttl,
                          sent |-> trace[t].sent, keep |-> trace[t].keep]]
        /\ UNCHANGED <<cacheVars, sentVars, toSend>>

processSpan(sp) ==
    /\ toSend = <<>>
    /\ LateSpan(sp) \/ NewTrace(sp) \/ JoinTrace(sp)
    /\ pc' = "top"
    /\ UNCHANGED <<closed, confVars, stopPc>>

-----------------------------------------------------------------------------
(* collect(): the outer select takes a peer's span if there is one, ...    *)
FromPeer ==
    /\ pc \in {"top", "select"} /\ fromPeer # <<>>
    /\ fromPeer' = Tail(fromPeer)
    /\ processSpan(Head(fromPeer))
    /\ UNCHANGED incoming

(* ... and otherwise the inner one waits for whatever comes first.         *)
NoPeerSpan ==
    /\ pc = "top" /\ toSend = <<>> /\ fromPeer = <<>>
    /\ pc' = "select"
    /\ UNCHANGED <<spanVars, chanVars, confVars, cacheVars, sentVars, trace,
                   toSend, stopPc>>

FromIncoming ==
    /\ pc = "select" /\ incoming # <<>>
    /\ incoming' = Tail(incoming)
    /\ processSpan(Head(incoming))
    /\ UNCHANGED fromPeer

IncomingClosed ==
    /\ pc = "select" /\ incoming = <<>> /\ closed
    /\ pc' = "exited"
    /\ UNCHANGED <<spanVars, chanVars, confVars, cacheVars, sentVars, trace,
                   toSend, stopPc>>

(* Variant: only traces with a root span expire.                           *)
ExpiredWithRoot == {t \in Cached : trace[t].ttl < 0 /\ trace[t].root}

(* The ticker: sendTracesInCache, ...                                      *)
Expired == {t \in Cached : trace[t].ttl < 0}

Tick ==
    /\ pc = "select"
    /\ toSend' \in InRingOrder(Expired)
    /\ Take(Expired)
    /\ pc' = "alloc"
    /\ UNCHANGED <<spanVars, chanVars, confVars, sentVars, trace, stopPc>>

(* ... then, with the heap over MaxAlloc, oldCheckAlloc moves nine tenths  *)
(* of the traces to a smaller ring and sends those with the earliest       *)
(* deadlines, ...                                                          *)
BySendBy(S) ==
    {f \in Listings(S) : \A i, j \in DOMAIN f :
                            i < j => trace[f[i]].ttl <= trace[f[j]].ttl}

oldCheckAlloc ==
    /\ capacity >= ShrinkFloor
    /\ \E oldTraces \in BySendBy(Cached) :
          LET n == Len(oldTraces)
              newCap == (9 * n) \div 10
          IN  /\ toSend' = SubSeq(oldTraces, 1, n - newCap)
              /\ Refill(newCap, SubSeq(oldTraces, n - newCap + 1, n))

(* ... or newCheckAlloc sends the traces that weigh most, at least one,    *)
(* and takes them out of the ring; weights are left open.                  *)
newCheckAlloc ==
    \E S \in SUBSET Cached :
        /\ S = {} => Cached = {}
        /\ toSend' \in Listings(S)
        /\ RemoveTraces({TraceOf[t] : t \in S})

CheckAlloc ==
    /\ pc = "alloc" /\ toSend = <<>>
    /\ \/ UNCHANGED <<cacheVars, toSend>>
       \/ conf.overrun = "resize" /\ oldCheckAlloc
       \/ conf.overrun = "impact" /\ newCheckAlloc
    /\ pc' = "unlocked"
    /\ UNCHANGED <<spanVars, chanVars, confVars, sentVars, trace, stopPc>>

(* The mutex is free between Unlock and Lock, unless Stop holds it.        *)
Relock ==
    /\ pc = "unlocked" /\ toSend = <<>> /\ stopPc # "purging"
    /\ pc' = "top"
    /\ UNCHANGED <<spanVars, chanVars, confVars, cacheVars, sentVars, trace,
                   toSend, stopPc>>

(* Variant: off by one.                                                    *)
RestAfterNext(all, n) == SubSeq(all, n + 2, Len(all))

(* reloadConfigs: a changed CacheCapacity moves the traces that fit to a   *)
(* ring of the new size and sends the others, ...                          *)
RestAfter(all, n) == SubSeq(all, n + 1, Len(all))

reloadConfigs ==
    /\ pc = "select" /\ reload
    /\ reload' = FALSE
    /\ IF conf.capacity = capacity
       THEN UNCHANGED <<cacheVars, toSend>>
       ELSE \E all \in InRingOrder(Cached) :
               LET fit == IF Len(all) < conf.capacity THEN Len(all) ELSE conf.capacity
               IN  /\ Refill(conf.capacity, SubSeq(all, 1, fit))
                   /\ toSend' = RestAfter(all, fit)
    /\ pc' = "reload"
    /\ UNCHANGED <<spanVars, chanVars, conf, version, notify, samplers, sentVars, trace, stopPc>>

(* Variant: the samplers survive a reload.                                 *)
EndReloadKeepsSamplers ==
    /\ pc = "reload" /\ toSend = <<>>
    /\ Resize(conf.keptSize)
    /\ pc' = "top"
    /\ UNCHANGED <<spanVars, chanVars, confVars, cacheVars, trace, toSend, stopPc>>

(* ... and when they are sent, resizes the sent cache and forgets the      *)
(* samplers.  Stop has closed the channel on which the cuckoo cache's      *)
(* Resize stops its monitor: a send on it panics.                          *)
EndReload ==
    /\ pc = "reload" /\ toSend = <<>>
    /\ Resize(conf.keptSize)
    /\ IF SentCacheType = "cuckoo" /\ conf.keptSize # 0 /\ stopPc = "stopped"
       THEN pc' = "panicked" /\ UNCHANGED samplers
       ELSE pc' = "top" /\ samplers' = [k \in {} |-> 0]
    /\ UNCHANGED <<spanVars, chanVars, conf, version, notify, reload, cacheVars, trace,
                   toSend, stopPc>>

-----------------------------------------------------------------------------
(* Stop, called when the routers have stopped: close incoming, wait for    *)
(* the mutex, send every cached trace (they stay in the cache), flush the  *)
(* transmission and stop the sent cache.                                   *)
Stop ==
    /\ MayStop /\ stopPc = "running"
    /\ stopPc' = "locking" /\ closed' = TRUE
    /\ UNCHANGED <<spanVars, incoming, fromPeer, confVars, cacheVars, sentVars,
                   trace, toSend, pc>>

Purge ==
    /\ stopPc = "locking" /\ pc \in {"unlocked", "exited"} /\ toSend = <<>>
    /\ stopPc' = "purging"
    /\ toSend' \in InRingOrder(Cached)
    /\ UNCHANGED <<spanVars, chanVars, confVars, cacheVars, sentVars, trace, pc>>

EndStop ==
    /\ stopPc = "purging" /\ toSend = <<>>
    /\ stopPc' = "stopped"
    /\ UNCHANGED <<spanVars, chanVars, confVars, cacheVars, sentVars, trace,
                   toSend, pc>>

-----------------------------------------------------------------------------
Next ==
    /\ pc # "panicked"
    /\ \/ AddSpan \/ AddSpanFromPeer \/ Elapse \/ ChangeConfig \/ sendReloadSignal
       \/ CycleFilter \/ send \/ FromPeer \/ NoPeerSpan \/ FromIncoming
       \/ IncomingClosed \/ Tick \/ CheckAlloc \/ Relock \/ reloadConfigs
       \/ EndReload \/ Stop \/ Purge \/ EndStop

Spec == Init /\ [][Next]_vars

(* The goroutine runs, time passes, and the runtime's select picks each of *)
(* the cases that stay ready sooner or later.                              *)
Fairness ==
    /\ WF_vars(send) /\ WF_vars(FromPeer) /\ WF_vars(NoPeerSpan)
    /\ WF_vars(CheckAlloc) /\ WF_vars(Relock) /\ WF_vars(EndReload)
    /\ WF_vars(Elapse) /\ WF_vars(sendReloadSignal)
    /\ SF_vars(FromIncoming) /\ SF_vars(Tick) /\ SF_vars(reloadConfigs)
    /\ WF_vars(Purge) /\ WF_vars(EndStop) /\ SF_vars(IncomingClosed)

FairSpec == Spec /\ Fairness

-----------------------------------------------------------------------------
Elems(q) == {q[i] : i \in DOMAIN q}

Pending == {t \in Spans : trace[t].spans # {} /\ ~trace[t].sent}

(* A trace that holds spans and has not been sent is still in the cache or *)
(* in the running loop of sends: ejection, expiry, memory overrun and      *)
(* reload never let go of a trace without sending it.                      *)
NothingStranded == \A t \in Pending : t \in Cached \cup Elems(toSend)

(* Where a span can be.                                                   *)
Places == {"fresh", "refused", "incoming", "fromPeer", "held", "delivered", "discarded"}

Held(s) == \E t \in Pending : s \in trace[t].spans

At(s, p) ==
    \/ p = "fresh" /\ s \in fresh
    \/ p = "refused" /\ s \in refused
    \/ p = "incoming" /\ s \in Elems(incoming)
    \/ p = "fromPeer" /\ s \in Elems(fromPeer)
    \/ p = "held" /\ Held(s)
    \/ p = "delivered" /\ delivered[s] > 0
    \/ p = "discarded" /\ s \in discarded

Distinct(q) == \A i, j \in DOMAIN q : q[i] = q[j] => i = j

InOnePlace(s) == \E p \in Places : \A q \in Places : At(s, q) <=> p = q

(* Every span is in exactly one place: not yet sent by a client, refused,  *)
(* in a channel, held by a trace that is still to be sent, delivered or    *)
(* discarded, and once only in that place.  No span is lost, delivered     *)
(* twice, or both delivered and dropped, whatever the order in which       *)
(* expiry, ejection, late arrival, reload and Stop meet it.                *)
SpanAccounting ==
    /\ \A s \in Spans : InOnePlace(s)
    /\ \A s \in Spans : delivered[s] <= 1
    /\ Distinct(incoming) /\ Distinct(fromPeer)
    /\ \A t, u \in Pending : t # u => trace[t].spans \cap trace[u].spans = {}

(* A remembered decision is final: while the sent cache knows a trace ID,  *)
(* no second trace with that ID gathers spans for another decision.  It    *)
(* holds for the legacy cache whatever falls out of its LRU; processSpan   *)
(* has to look in the cache of live traces before the sent cache for it.   *)
OneVerdict == \A t \in Pending : TraceOf[t] \notin DOMAIN lru

(* Until Stop purges the cache, every cached trace is still to be sent:    *)
(* whoever sends a trace also takes it out of the ring and of the map.     *)
OnlyUnsentCached ==
    stopPc \in {"running", "locking"} => \A t \in Cached : ~trace[t].sent

(* A reload reaches the samplers: once no reload is asked for or under     *)
(* way, no trace is decided by a sampler made from an older configuration, *)
(* even if a sampler is made while the configuration changes or the reload *)
(* signal is dropped because one is already waiting.                       *)
SamplersCurrent ==
    ~notify /\ ~reload /\ pc \notin {"reload", "panicked"} =>
        \A k \in DOMAIN samplers : samplers[k] = version

(* When Stop has purged the cache and collect() has returned, no trace is  *)
(* left unsent and no span is left in a channel.                           *)
PurgedAtStop ==
    stopPc = "stopped" /\ pc = "exited" =>
        Pending = {} /\ incoming = <<>> /\ fromPeer = <<>>

-----------------------------------------------------------------------------
(* What the collector promises about spans and decisions, for the legacy   *)
(* sent cache: module TraceVerdicts.  A decision is remembered by the sent *)
(* cache or by a sent trace that Stop left in the cache.                   *)
statusOf ==
    [s \in Spans |->
        CASE s \in fresh          -> "new"
          [] s \in refused        -> "refused"
          [] s \in discarded      -> "discarded"
          [] delivered[s] = 1     -> "delivered"
          [] delivered[s] > 1     -> "duplicated"
          [] OTHER                -> "held"]

verdictOf ==
    [id \in TraceIDs |->
        IF cache[id] # Nil /\ trace[cache[id]].sent
        THEN IF trace[cache[id]].keep THEN "keep" ELSE "drop"
        ELSE IF id \notin DOMAIN lru THEN "none"
        ELSE IF lru[id].keep THEN "keep" ELSE "drop"]

TV == INSTANCE TraceVerdicts WITH status <- statusOf, verdict <- verdictOf,
                                dryRun <- conf.dryRun

(* The collector implements TraceVerdicts: each trace is decided once as   *)
(* long as the decision is remembered, and all of its spans, late ones     *)
(* included, share the fate that decision gives them.                      *)
ImplementsVerdicts == TV!Spec

-----------------------------------------------------------------------------
(* Every span that a channel accepted is in the end delivered or dropped:  *)
(* a trace expires with or without its root span, also when it is moved to *)
(* another ring by a reload or by memory overrun.                          *)
EverySpanSettles ==
    \A s \in Spans : statusOf[s] = "held" ~> statusOf[s] \in {"delivered", "discarded"}

(* A configuration that stays is the one the samplers use in the end.      *)
ReloadTakesHold ==
    version = MaxReloads ~>
        [](\A k \in DOMAIN samplers : samplers[k] = MaxReloads)
=============================================================================
