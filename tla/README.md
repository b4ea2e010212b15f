# A verification of tracing-proxy

TLA+ modules for the parts of tracing-proxy that decide what becomes of a
span, TLC configurations that check them on small instances, and TLAPS proofs
of its safety properties: for the collector, its memory of dropped traces, the
live configuration, the peers, the routers, the transmission with its calls and
retries, and the outbound proxies. Paths
below are relative to the root of the repository (`collect/...`); `PROJECT.json`
maps every definition to the lines it models.

    tlc -workers 2 -config CollectorReload.cfg MCCollector   # a run
    tlapm DeliveryProofs.tla                                 # a module's proofs

## 1. The system

A tracing-proxy cluster does tail sampling. A span enters at any node, through
one of its **routers**. The router asks the **sharder** which node owns the
span's trace; it gives the span to its own **collector** or forwards it to the
owner's peer router through the **peer transmission**. The collector gathers
the spans of a trace until the root arrives or a deadline passes, makes one
sampling decision, and hands the spans of kept traces to the **upstream
transmission**, which cuts them into calls. Calls go through an **interceptor**
that adds a token, repeats what can be repeated and, where OpsRamp is reached
through **outbound proxies**, switches to another of them. A **sent cache**
remembers decisions for spans that come late. The **live configuration**
reloads all of these while they run, and **peer membership** (a redis set of
keys, or a file) changes the sharder's list of nodes; a node that cannot get a
token stops renewing its key and so leaves the ring.

| part | source | state | operations | what is hard |
|---|---|---|---|---|
| collector | `collect/collect.go` | live traces, two bounded channels, samplers, reload signal | AddSpan, AddSpanFromPeer, processSpan, tick, memory check, reload, Stop | the mutex is free once per tick only; reload, overrun and Stop meet traces in every phase; late spans |
| trace cache | `collect/cache/cache.go` | map, ring, insert point | Set, Get, GetAll, TakeExpiredTraces, RemoveTraces | ring and map must agree after ejection, expiry, and refill |
| sent caches | `collect/cache/*SentCache.go` | LRU, cuckoo filters | Record, Check, Resize, Stop | bounded memory, resizing, shutdown of the monitor |
| cuckoo filter pair | `collect/cache/cuckoo.go` | current, future filter, capacity | Add, Check, Maintain, SetNextCapacity | Maintain acts on a load read before it takes the write lock |
| live configuration | `config/file_config.go` | two vipers, conf, callbacks | watchers, onChange, getters | two onChange calls at once; invalid files |
| sharder | `sharder/deterministic.go` | peers, hashes, own shard | Start, loadPeerList, WhichShard | unsynchronised loads; rounding |
| membership | `internal/peer/`, `internal/redimem/` | peer list, redis keys | watchers, GetMembers, Register | partial scans, callbacks out of order, key expiry |
| routers | `route/route.go`, `route/otlp_trace.go` | none of their own but the lock of an environment cache | event, batch, OTLP, peer | nodes disagree about owners; answers and fates differ |
| transmission | `transmit/`, `pkg/libtrace/` | muster queue, batches under way, responses | Add, Flush, fired batches | Flush replaces the queue under those who add; call size limit |
| upstream | `pkg/libtrace/transmission/auth.go`, `conn.go`, `status.go`, `pkg/retry/` | token, connection, availability | interceptor, Renew, RenewConnection, registration | one call closes the connection of another; announcements overtake each other |
| outbound proxy | `proxy/proxy.go` | list of proxies, active one, environment | SwitchProxy, UpdateProxyEnvVars | the lock covers single reads and writes, not a switch |
| metrics | `metrics/opsramp.go` | token, client | the loop of Start, Push, Send | tokens and proxies fail while metrics are pushed |
| samplers | `sample/` | dynsampler state | GetSampleRate | rule scopes, types of values, rate arithmetic |
| conversion | `pkg/convert/`, `route/otlp_trace.go`, `pkg/libtrace/transmission/` | none | translation, hop to a peer, payload | types and zero values change on the way |
| logger, debug, middleware | `logger/`, `service/`, `route/middleware.go` | none | | no decision depends on them |

`PROJECT.json` lists each of these as a component, and the places where they
can go wrong in a way a test would hardly reach as hazards.

## 2. Modules

| module | models | extends |
|---|---|---|
| `Traces` | spans and trace IDs (`types/event.go`) | |
| `InMemCache` | the trace cache | `Traces` |
| `SentCache` | both sent caches, as the collector uses them | `Traces` |
| `Collector` | the collector goroutine and those around it | `InMemCache`, `SentCache` |
| `TraceVerdicts` | abstract: what a collector promises its clients | `Traces` |
| `CuckooChecker` | the two cuckoo filters and their monitor | |
| `FileConfig` | the two watched files, onChange, callbacks | |
| `Sharding` | the two sharding strategies as functions, peers changing | |
| `PeerWatch` | watchers, callbacks, loadPeerList, the sharder's Start | |
| `Routing` | the routers of a cluster, with the lock of their environment caches | |
| `BatchSplit` | cutting a list of spans or log records into calls, as operators | |
| `Transmission` | queue, workers, Flush, the calls of a batch, responses | `BatchSplit` |
| `Upstream` | interceptor, token, connection, back-off, availability, registration | |
| `OutboundProxy` | the list of proxies and SwitchProxy, for any number of callers | |
| `MetricsPush` | gRPC calls and metrics pushers that share the proxies | `OutboundProxy` |
| `SpanData` | the data of a span: translation, hop to a peer, payload, as operators | |
| `Samplers` | rules, keys and each kind of sampler, as operators | `SpanData` |
| `SpanJourney` | a trace on its way: received, forwarded, decided, sent | `Samplers` |
| `CollectorProofs` | proofs: trace cache, types and traces of the collector | `Collector` |
| `CollectorSafetyProofs` | proofs: its spans, and that it implements `TraceVerdicts` | `CollectorProofs` |
| `BatchSplitProofs` | proofs: the loop that cuts a list, with the induction it takes | `BatchSplit` |
| `TransmissionProofs` | proofs: types, locks, exports and places of a transmission | `Transmission`, `BatchSplitProofs` |
| `DeliveryProofs` | proofs: no event lost or sent twice, what Flush waits for | `TransmissionProofs` |
| `OutboundProofs` | proofs: the proxies and their use; the calls, their retries and their tokens | `MetricsPush`, `Upstream` |
| `RoutingProofs` | proofs: the routers | `Routing` |
| `WatcherProofs` | proofs: what runs in the background for peers, files and filters | `PeerWatch`, `FileConfig`, `CuckooChecker` |
| `MC*` | instances for TLC | |

Some modules define a variant of an operation just before the operation, marked
as such in a comment: a plausible mistake in that code (a dropped guard, a
missing reset). Replacing the operation by its variant makes TLC report the
property named in `PROJECT.json`, which shows that the property depends on
that line of the code.

### Collector

A `*types.Trace` is named by the span it was made for, so trace objects have
identity (a trace ID may get a second object after its decision is forgotten).
`trace[t]` holds the fields; `cache`, `insertionOrder`, `insertPoint` are the
map, ring and insert point of `DefaultInMemCache`; `lru`, `dropped` are the sent
cache. Time is the `ttl` left before SendBy; `Elapse` runs it down.

| action | code |
|---|---|
| `AddSpan`, `AddSpanFromPeer` | `add`: a non-blocking send, ErrWouldBlock when full |
| `FromPeer`, `NoPeerSpan`, `FromIncoming`, `IncomingClosed`, `Tick` | the selects of `collect()`: the peer channel first |
| `processSpan` | live trace, else remembered decision, else new trace; ejection from a full ring; root sets the send deadline |
| `send` | one call of `send`: decision, record, delivery; the loops of sends after a tick, ejection, overrun, reload, purge are `toSend`, one trace a step |
| `CheckAlloc`, `Relock` | `checkAlloc` with both overrun strategies, and the window in which the mutex is free |
| `ChangeConfig`, `sendReloadSignal`, `reloadConfigs`, `EndReload` | reload: callback, one-slot channel, new ring, new samplers |
| `Stop`, `Purge`, `EndStop` | `Stop` closes the channel, waits for the mutex, sends what is cached |
| `CycleFilter` | the cuckoo monitor forgets part of the dropped IDs (in detail: `CuckooChecker`) |

A sampling decision is an arbitrary choice, and so is the order in which the
impact strategy evicts, so what holds here holds for every sampler. The
settings the collector reads live (`conf`: cache capacity, kept size of the sent
cache, overrun strategy, dry run) are changed together by a reload; `version`
counts the reloads, and samplers remember the version they were made from.
`MaxReloads` and the finite set of spans are the bounds. `TraceVerdicts` is the
abstract specification: each trace has at most one remembered verdict, and every
span is delivered or dropped once, as its verdict says or, in dry run, always
delivered; `ImplementsVerdicts` checks the collector against it.

### The others

* `CuckooChecker`: a filter is the set of numbered additions it holds. `Maintain`
  is three actions, one for each stretch between its locks (`MaintainRead`,
  `MaintainGrow`, `MaintainCycle`); `SetNextCapacity` and `ReplaceMonitor` are
  the two halves of `Resize`. False positives are left out.
* `FileConfig`: one process per watcher: `ReadInConfig` (viper's own re-read),
  then `validate`, `unmarshal`, `RangeCallbacks`, `Callback`, `EndOnChange` for
  the parts of `onChange`. A file's contents are values, some of which fail
  validation, decoding, or parsing. viper and the validator are modelled from
  how `file_config.go` uses them.
* `Sharding`: hashes are parameters; `WhichShardHashed`, `WhichShardLegacy`,
  `partitionsPerPeer` are the code's arithmetic and its loops.
* `PeerWatch`: `Look`, `LookAgain`, `Compare` are a turn of the watcher (two
  scans for redis, one poll for a file); `LoadGet`, `LoadCompare`, `LoadSwap`
  are `loadPeerList` between its locks, run by `Start` and by callback
  goroutines; `StartLoad`, `StartFind`, `StartSet` are `Start`. Redis is a set
  of keys that come and go. Neither watcher waits for the sharder: a list that
  is published before Start has registered its callback is found by Start's own
  load. `outdated` is a history variable: a load that was overtaken by a newer
  one was the last to swap.
* `Routing`: a request is a sequence of events handled one a step; `view[n]` is
  what node n's sharder says, changing between any two events. `ToUpstream`,
  `ToPeer`, `ToCollector` are the three ends of `processEvent`;
  `ExportLogTraceProxy` is the peer's way in. Queues may refuse or lose. A
  request with a key of its own first goes through the environment cache:
  `get` takes its lock, and `lookupEnvironment` panics or fails, since the client
  it uses is not assigned anywhere; so nothing is ever cached.
* `BatchSplit`: `SendTraceBatches` is the loop that cuts a list, as a fold.
* `Transmission`: musters are numbered; `adder` holds what a goroutine in `Add`
  read under the lock, so a Flush may come between that and its send. `Receive`,
  `FireBatch`, `WorkerEnds` are muster's worker (a library, modelled from its
  use), `exportProtoMsgBatch`, `ExportTraces`, `ExportLogs`, `FireDone` the
  goroutine of a batch, `FlushStart`, `Swap`, `StopOld`, `FlushReturn` are Flush.
  Init has two kinds of states: a transmission about to start, and one that has
  just fired a batch, which is where the many sizes of batches are looked at.
* `Upstream`: a call is at a place of the interceptor (`Begin`, `GetToken`,
  `Invoked`, `Tick`, `Stop`, `GetConn`, `Renewed`); Renew is split where its lock
  is taken (`TryLock`, `Renew`, `Served`); `Set` delivers an announcement to
  `notifyStatus`, in any order; `newRedisPeers`, `Heartbeat`, `Unregister`,
  `Expires` are the node's key. `Change` is everything outside: OpsRamp, its
  token service, the tokens, redis.
* `OutboundProxy`: a goroutine in SwitchProxy is a record `switch[c]` whose steps
  are those between the locks of `Proxy`: `alone` is a history field that says
  that nothing else has touched the proxies since it began. `MetricsPush` adds
  who calls it: gRPC calls that fail or renew their token, and pushers.
* `SpanData`: a value is its Go type, a form of text and a number, so that the
  conversions (JSON on the way to a peer, protobuf's zero values, texts of
  numbers) are modelled by what they do to type and value.
* `Samplers`: `compare`, `conditionMatchesValue`, `RuleMatches`, `build` and one operator
  per sampler. What dynsampler answers is any rate of a set (external).
* `SpanJourney`: `Receive` translates a span where it is received, `Arrive` takes it
  to the owner of its trace, directly or through the message to a peer; `Decide`
  is the owner's sampler, which `Panic` says cannot be made at rate 0; `Send`
  merges the rates and makes the messages, and `dealWithSentTrace` does so for
  spans that come later. Which node does this and when is in `Routing`
  and `Collector`; here it is the data that counts.

## 3. Runs

### That pass

| run | instance | shows |
|---|---|---|
| `collector_reload` | 3 spans of 2 traces, ring of 1; a reload to capacity 0 with the impact strategy, or to 2 with dry run; legacy sent cache of 1; Stop | `SpanAccounting`: every span in exactly one place, delivered at most once. `NothingStranded`: no trace is let go of unsent. `OneVerdict`, `ImplementsVerdicts`: one decision per trace while it is remembered, late spans follow it. `SamplersCurrent`: with no reload outstanding, samplers are those of the loaded configuration |
| `collector_live` | fair; cuckoo sent cache, one reload that resizes it and the ring, no Stop | every accepted span is settled; a configuration that stays reaches the samplers; no deadlock |
| `cuckoo_cycle` | fair; filters of 4, resized to 2 and 6; 9 additions | `OldestForgottenFirst`. `CycledWhenFull`: the load factor Maintain acts on still holds under the write lock. `FullIsCycled`: a full filter is cycled and Resize comes to its end |
| `config_reload` | fair; 2 files, 5 contents, 2 consumers, 3 edits | whichever way the two onChange calls interleave, idle watchers mean informed consumers; files that stay valid take effect |
| `sharding_strategies` | lists of 2 to 4 of 4 peers, every score | the hashed loop finds the highest partition and the legacy shares are even; with an unchanged number of partitions a peer that comes or goes moves only its own share |
| `peers` | fair; redis or file peers, 2 nodes, 2 changes at any time, 2 callbacks at once beside Start, scans that break off | `NeverWithoutPeers`: a node that is up has peers. `SharderCurrent`: with no load under way the sharder has the published list, unless a load that was overtaken swapped last. `SharderFollows`: with the same exception it settles on the members (redis) or the active configured peers (file) once scans are complete |
| `routing` | fair; 2 nodes, 5 requests, two of which look an environment up at one node together, spans of one trace, 1 change of a view | spans of a trace meet on one node while no view has changed; at most one hop when nodes disagree; HTTP answers are the fate of the event; every request is answered and every span comes to rest, although lookups panic under a lock |
| `transmission` | fair; to upstream or to a peer; 3 events through a queue of 1, 2 goroutines that add, one batch at a time, 2 calls of Flush; and every batch of up to 4 spans that fill a call of 3, overflow it or are too large for it | `NoSendOnClosed`, `InOnePlace`: however Add, Flush and the workers interleave, no event goes to a stopped queue, is lost or is sent twice. `FlushSettles`, `EverythingSettles`: Flush returns, and not too early. `CutGreedily`: what the calls of a batch hold |
| `upstream` | fair; 2 calls (1 with redis), OpsRamp, token service, tokens and redis change twice (once with a peer file) | `OKMeansDelivered`: what a call reports is so. `FirstRefusalRenews`: one that was refused for its token at first goes out with one as new as its renewal gave. `CallsReturn`. `RingFollows`: the node's registration follows the availability of the token service, although announcements overtake each other |
| `proxies` | fair; a gRPC call and a pusher; 1 or 2 proxies with a change of one of them or a token that expires, or 3 without | `SettlesAlone`: a switch nothing interferes with ends on the next proxy that works, in index and environment. `Converges`, `PushesGetThrough`: once some proxy works and switches stop overlapping, gRPC calls and https requests go through one that does, and metrics are pushed |
| `span_journey` | single spans over 9 x 3 x 4 sets of attributes, with and without parent and events; traces of up to 3 spans under every kind of sampler, and late spans; each span with and without a hop | `TranslatedAsDefined`: status and class are what their loops are meant to find. `SentAsReceived`, `SameAtOwner`: what survives a hop through a peer, for OpsRamp and for the owner's rules. `NestedSamples`: a trace kept at a rate is kept at every lower one. `RateAtLeastOne`: a span of a kept trace leaves with the product of its own rate, 1 if it has none, and that of the trace |

### That shows a disagreement

`batch_split_last` checks `OnlyOversizedDropped`: transmission.go logs an item
above the limit of a call as "greater than 1mb, so dropping the span", and that
one only. But the `continue` that skips it also skips the test that closes the
last batch, so an oversized last item takes the batch before it along.
`CutGreedily` says that nothing else is lost. `findings` in `PROJECT.json`
quotes the lines.

### Behaviour to know of

Five configurations are kept for a reader who wants to see a counterexample;
each checks one property, stated in its module, that one would like to have
and that the code does not:

    tlc -config StopPurges.cfg MCCollector     # PurgedAtStop
    tlc -config ConfigStuck.cfg MCFileConfig   # LiveReload
    tlc -config PeersStale.cfg PeerWatch       # AlwaysFollows
    tlc -config RetryUnrenewed.cfg Upstream    # RenewedBeforeRetry
    tlc -config LogsRepeated.cfg MCTransmission  # LogCallsFit

* Stop purges the cache in the window of a tick; spans still queued at that time
  form traces that nobody sends (`collect/collect.go:496`).
* onChange validates the settings it is about to replace: an invalid file is
  taken in, and every later one refused (`config/file_config.go:303`).
* Loads of the peer list (Start's, a callback's) may overlap and finish out of
  order, and leave an old list for good (`internal/peer/redis.go:243`).
* The retry loop looks at the error of the first attempt only, because the later
  ones are assigned to a variable that shadows it
  (`pkg/libtrace/transmission/auth.go:266`). A call that was unavailable first and
  is then refused for its token is repeated with that token, against the comment
  at line 257 ("renew oauth token here before retry"); one that was cancelled
  first, because another closed the connection, goes on with the closed one. Each
  ends when its back-off does.
* `resourceLogs` is not reset between calls
  (`pkg/libtrace/transmission/transmission.go:524`): each call with log records
  carries those of the calls before it again, beyond the limit by which they were
  cut.

The models also have the following behaviour of the code, which a reader of its
comments might not expect. The properties are stated so as not to deny it.

* In dry run, spans of dropped traces leave with sample rate 0
  (`collect/collect.go:602`); `RateAtLeastOne` is about kept traces.
* A deterministic sampler with rate 0 panics when it is made, on the first trace
  that needs it (`sample/deterministic.go:33`).
* With at most one live trace, a memory overrun replaces the ring by one of
  the default 10000 slots (`collect/collect.go:325`).
* The cuckoo cache's `Check` answers "dropped" with found = false, so late spans
  start the trace anew (`collect/cache/cuckooSentCache.go:142`); `OneVerdict` is
  about the legacy cache.
* A reload that collect() takes up after Stop sends on the closed done channel
  and panics (`collect/cache/cuckooSentCache.go:186`).
* A burst of drops, or the shift between cycles, makes an empty filter current:
  the latest drops are forgotten with the oldest (`collect/cache/cuckoo.go:84`).
* A changed file that fails validation becomes the settings in use
  (`config/file_config.go:303`).
* Partitions per peer depend on the number of peers, so traces may move between
  peers that stay (`sharder/deterministic.go:292`); `StableShares` is about
  changes that leave the number of partitions alone.
* A SCAN that breaks off counts as complete (`internal/redimem/redimem.go:141`),
  and its part of the members is published.
* Start applies an index found in one list to another that a callback may have
  loaded meanwhile (`sharder/deterministic.go:231`), and so may take another node
  for itself.
* The file watcher does not "wait till the current peer servers are listening"
  (`internal/peer/file.go:55`): grpc.NewClient succeeds without connecting.
* The first call of GetPeers gets the configured list, whoever makes it, also a
  callback that was started for a newer one (`internal/peer/file.go:43`).
* With file peers the second attempt of Start reads a list with an empty name
  and fails (`internal/peer/file.go:42`).
* `proxyClient` is not assigned anywhere, so a request with a key that is not a
  legacy one panics when its environment is looked up (`route/route.go:883`). The
  lock is released on the way out and `panicCatcher` answers 500.
* A batch whose environment lookup fails before that, because OpsrampAPI does not
  parse, is answered with an error and processed (`route/route.go:509`); an OTLP
  client is not told of spans refused (`route/otlp_trace.go:103`).
* Only events dropped at a full queue get a response
  (`pkg/libtrace/transmission/transmission.go:293`); Add does not wait for a Flush
  under way, as its comment says, but for its short swap.
* Renew returns the old token when TryLock fails, which a reader suffices for.
* newRedisPeers registers with a context of one PeerTimeout, which may be over
  after its wait for the node to be online; the process then ends.
* Two SwitchProxy that rotate in lockstep skip a proxy each and can end on one
  that does not work, or leave the environment at another than the active one;
  hence the condition of `Converges`. The next failure switches again; where only
  HTTPS_PROXY is wrong, and its proxy listens, errors of the metrics client need
  not lead to a switch, and it is the next renewal of a gRPC token that repairs
  the environment.
* After a 407 the metrics client repeats a request whose body has been read;
  the outcome is an arbitrary choice.
* On the way to a peer a span loses the sample rate its client stated and its
  top-level copies of resource attributes; numbers become float64, attributes
  texts, and zero values vanish, so that status code and numbers of events and
  links are 0 at OpsRamp for a forwarded span. `SentAsReceived` lists what stays,
  `Portable` what rules can rely on. A span with an empty parent ID becomes a
  root only at a peer.
* The name of the application in log records carries over from an earlier span
  of the message that has one; a span without attributes gets no class; a span's
  own attribute `kind` is overwritten by its kind.

### Bounds

* Spans, traces: two spans of one trace and one of another give a root, an early
  and a late span, and two traces that compete for a ring of one slot.
  `DefaultCapacity = 3` stands for 10000, a ring larger than those configured,
  and `ShrinkFloor = 1` for 100, so that rings above it and at it occur.
  `QueueFactor` is the code's factor between ring and channels, 3 there.
* In `collector_live` the channels hold one span each, and one sampler serves both
  traces, to leave room for the liveness check; `collector_reload` has two.
* One reload is enough for old and new rings and samplers to meet every phase;
  a second one adds only the dropped signal, which the proof of
  `SamplersFollowConfig` covers for any number.
* `MaxAdds = 9` lets filters of 4 and 2 be filled and cycled twice or more;
  `MaxBurst = 3` is the number of additions between two readings of the load, so
  that half full and full can be passed in one.
* `MaxEdits = 3`: one edit of each file, and one that lands inside an onChange.
* `MaxCalls = 2`: the least number of callbacks that can overtake each other.
  `MaxChanges = 2` lets a peer leave and come back, and together with incomplete
  scans and the lists Start may begin with gives the watcher several different
  lists to publish.
* `Tries = 2` stands for 5: a first, and a last attempt.
* `MinPeers`, `MaxScore`: fewer peers or more scores multiply the initial
  states; three scores give ties and strict orders among the partitions.
* `Routing`: requests 4 and 5 look up an environment at the same node, one of them
  with a compressed body; a batch, an event and OTLP requests are among the five.
  One trace suffices for its spans to be split, and one change of a view for the
  nodes to disagree; the proofs cover any number.
* `Transmission`: `PendingWorkCapacity = 1` and two goroutines that add fill the
  queue; three events of two sizes give full, late and mixed batches, but do not
  fill the channel of responses, which only counts;
  `MaxFlushes = 2`, the Stops of collector and transmission; `MaxBatchSize = 3`.
  `maxApiSize = 3` with sizes up to 4 stands for the 1 MB limit.
* `Upstream`: `Lifetime = 2` heartbeats stands for 10 s to 3 s; `MaxTicks = 2`
  retries let a first error and a different later one occur; `MaxNotices = 2`
  announcements are the least that can overtake each other; `MaxChanges = 2` is
  something that fails and recovers, or fails while another recovers.
  `RedisCalls = 1`: with redis only one of the two calls is made, the other has
  ended, to leave room for the node's key.
* `MetricsPush`: two goroutines that switch are enough for a lockstep. Faults are
  bounded per configuration, because each one doubles the states.
* `SpanJourney`: hashes up to `MaxUint32 = 15`, rates up to `MaxInt32 = 7` and one
  past MaxUint32, which is 0 as a uint32. Attributes are
  chosen for their roles: status codes of every type, class labels at each level,
  keys that collide, values that cannot be sent.
* Deadlock is checked in `collector_live` and `sharding_strategies`; elsewhere a
  behaviour ends when the bounded inputs are used up or the process has stopped.

### Fairness

* Collector: weak fairness for what a running goroutine does next and for time;
  strong fairness for the cases of a select (`FromIncoming`, `Tick`,
  `reloadConfigs`, `IncomingClosed`), because Go picks at random among ready
  cases, so a case ready again and again is picked. Clients and the editor of
  the configuration are not fair.
* `CuckooChecker`: the monitor's ticker (weak), its select (strong).
* `Transmission`, `Routing`: as long as some goroutine can run, one does; what is
  under way is finite, so one weak fairness condition is enough.
* `Upstream`: weak fairness for renewals, announcements and the node's
  heartbeat, which are goroutines and tickers; strong fairness for the steps of
  calls, because a call that waits to read the token is let in when a renewal
  ends (`RWMutex` admits the readers that wait at Unlock). Changes outside and
  the end of the process are not fair.
* `MetricsPush`: weak fairness for every goroutine, for the minute between two
  switches and for gRPC calls: they keep being made, and fail, or get through
  until their token expires and is renewed. `Converges` assumes that some proxy
  works from some time on and that switches stop overlapping.
* `FileConfig`, `PeerWatch`: goroutines that can run do run. Edits,
  peers that come and go, and changes of views are not fair. That scans stop
  breaking off is an assumption of `SharderFollows` (`<>[]~broken`). Loads may
  overlap; `AlwaysFollows` is `SharderFollows` without its exception for lists
  that are `outdated`, and does not hold.

## 4. Proofs

All proofs are checked by TLAPS 1.4.5 (SMT, Zenon, LS4), for every set of spans
and trace IDs, every capacity, every number of reloads, every configuration,
every number of nodes, events, calls and flushes. They assume only the named
ASSUMEs of the modules (`SpansAssumption`, `CollectorAssumption`,
`TransmissionAssumption`, ...), which give the constants their types; TLC
evaluates them in every run.

Every safety invariant the runs check is proved but those of `Sharding` and
`SpanJourney`, and so are the safety action properties and the refinement.

### Collector

* `CollectorProofs` begins with the cache: what `Set`, `Take`, `RemoveTraces` and
  the refilled ring do to the set of cached traces, and that each keeps ring and
  map in agreement. `TypeCorrect`: `Spec => []TypeOK`. It then proves `Inv == TypeOK /\ Safe`
  inductive. None of the properties is inductive alone. That a trace is not
  stranded (`NothingStranded`) needs the ring and the map to agree, because the
  map is what `processSpan` looks in and the ring is what expiry walks. That an
  ID gets no second trace (`OneVerdict`) needs that at most one unsent trace
  exists for an ID (`OneTrace`); when a trace is sent and its ID recorded, no
  other can be left. That the cache holds unsent traces (`OnlyUnsentCached`)
  needs the cache and the running loop of sends to be disjoint until Stop purges
  (`Apart`). `Idle` says that the goroutine waits in its select only with no
  send left to do, and `Allocated` that cached objects hold spans. From it:
  `CacheConsistent`, `TracesNotStranded`, `CacheHoldsUnsent`, `VerdictFinal`.
  `SamplersFollowConfig`, that is `SamplersCurrent`, is inductive with the types
  alone.
* `CollectorSafetyProofs`: `SpansAccountedFor`, by induction relative to `Inv`.
  For each action, the spans that move are named, and shown to leave one place
  and to reach one other; all others stay (`Unmoved`).
* `CollectorImplements` proves the refinement of `TraceVerdicts` for the legacy
  sent cache (the cuckoo cache forgets verdicts it has given, section 3). The
  status of a span is where it is; the verdict of an ID is that of a sent trace
  that is still in the cache, or else that of the LRU. The two must not contradict
  each other when one of them goes, which `Inv` does not say: `Memory` adds that a
  trace still to be sent shares its ID with no sent trace in the cache (`Sole`),
  that a trace holds spans of its own ID (`OwnSpans`), that the LRU and a sent
  trace of the same ID agree (`Agree`), and that ranks stay below the size of the
  LRU (`Fits`), so that looking an ID up pushes no other out. Then `send` is
  `Judge`, a span of a decided trace is `Follow`, and every other step changes no
  verdict except to forget it (`Remembered`, `Forgets`).

### Transmission

* `BatchSplitProofs` is about lists of any length. The loops
  of the model are recursive functions of a position; the library's induction
  theorems cannot be used here, so `LeastNatural` derives from the well-foundedness of < that a set of
  naturals that is not empty has a least element, and `Induction` follows for sets.
  With it `LoopExists` and `LoopUnique` say that a loop, a value that goes through
  one step for each item, exists and is unique, and `SizeIsLoop`, `KeptIsLoop`,
  `FlattenIsLoop`, `CutIsLoop` that the definitions are such loops. What a turn
  preserves (`Cutting`, `Filling`, `Apart`) then holds at the end. `BatchSplit`
  defines its own `Flattened`, because the modules that define the library's
  reach RECURSIVE operators.
* `TransmissionProofs` and `DeliveryProofs` prove `DeliveryInv` inductive, for any
  events, sizes, capacities and number of flushes. `Locked` says that a muster
  is replaced when nobody adds to it, and closed later; `NeverSendsOnClosed`
  follows. `ExportSound` says that the calls of an export are the cut of its list;
  `CallsCutGreedily` follows from it and from the lemmas on the loop. `Placed` says for each event that it
  is held in one place at most, and in one if its fate is open, and that lists
  hold it once; each action moves the events it names from one place to one
  other. `NothingLostOrDoubled` counts the places. `Passed` says that a muster
  that was replaced is empty once Flush has waited for it, and `Due` that what
  was enqueued before a Flush is not in a later muster. A new event reaches a
  muster through Add only (`Flows`), so the old one runs dry, and `FlushWaits`
  follows.

### Upstream and proxies

* The calls (`OutboundProofs`), for any number of calls, retries and renewals:
  `UpInv` says what a call knows at each place of the interceptor (`Sound`). The
  one part that relates it to others is about tokens: a call whose first attempt
  was refused for its token, and which is about to go out again, was given a token
  by a renewal, and the token in use is at least as new, whoever renews meanwhile, because renewals
  only put newer ones in its place (`RenewGrows`). `OKIsDelivered`,
  `RetriesWithNewToken` (which is `FirstRefusalRenews`).
* The proxies (`OutboundProofs`), for any number of proxies, callers and faults:
  `ImplementsOutboundProxy` shows that the system with calls and pushers behaves
  as `OutboundProxy` says of callers in general (every step of `MetricsPush` is a
  `ProxyNext` step or leaves the proxies alone), so that the rest is proved about
  `ProxyNext`. `SwitchSettles` proves `SettlesAlone`. It needs `AloneInv`: while
  a switch is alone, the active proxy is as many rotations past the one it began
  with as it has counted, and none of those it has passed works. At the end
  either the active one works, and is the first (`IsBest`), or it has been all
  round and is back. `ModTurn` and `SplitNat` are the arithmetic of turning
  modulo the number of proxies; the environment is covered by the values that
  the running update has still to write. `SwitchesApart` proves `NoHaste`: a
  switch that is alone and rotates has passed `allowUpdate`, and nobody has set
  `lastUpdated` since.

### Routers, peers, configuration, filters

* `RoutingProofs`, for any number of nodes, requests, spans and changes of views:
  `SpanInv` says that a span still to be processed is with its client and has
  not been passed on (`Pending`, `Placed`), and that, while no view has changed,
  a span collected or on its way is at, or goes to, its owner in the one view
  (`Agreed`). From it `OneCollector`, `PassedOnOnce`, `AnsweredTruly`.
* Peers (`WatcherProofs`): `PeersAlwaysThere` proves `NeverWithoutPeers`: a load past
  its test has a list that is not empty (`LoadsFilled`). `PublishedIsLoaded` proves
  `SharderCurrent`, for any number of loads that overlap: if the sharder has not
  got the published list, and is not left with an outdated one, then some load
  has that list or has still to read it (`ListComing`).
* Configuration (`WatcherProofs`): `ConsumersInformed`. `ConfigInv` says that a
  consumer that has not looked at the settings in use still has a call coming
  from one of the two watchers (`Informed`), and that an onChange finds every
  consumer registered (`Prepared`), as long as no file has changed before every
  consumer had registered (`early`, a history variable): the consumers read their
  settings before they register, so a change in between is not announced to them.
* Cuckoo filters (`WatcherProofs`), of any sizes, with any number of additions and
  resizes: `ForgottenInOrder` proves `OldestForgottenFirst`, from `InsertAdds` (what
  `filter.Insert` does to a run of additions). `SingleMonitor` proves `OneMonitor`:
  the monitor that runs is the one the last Resize started (`Latest`).
  `CycledForFullness` proves `CycledWhenFull`: what Maintain has read before it
  took the write lock still holds when it cycles, because additions never lower a
  load, and nobody else cycles (`Loaded`).

What the proofs rest on besides the runs (`TypeOK`, `RingMatchesMap`,
`OnlyUnsentCached`, `OneMonitor`, `NoHaste`)
is stated in the modules and holds on the instances of the runs too.

### Only model-checked

* Liveness (`EverySpanSettles`, `ReloadTakesHold`, `FilesTakeEffect`,
  `FullIsCycled`, `SharderFollows`, `RequestsSettle`, `EverythingSettles`,
  `CallsReturn`, `RingFollows`, `Converges`, `PushesGetThrough`): fairness and
  ENABLED are out of the prover's reach.
* `SharesAsDefined` and `StableShares` of `Sharding`, and what `SpanJourney` says of
  `SpanData` and `Samplers` (`RateAtLeastOne` among it): they compare folds over sequences, by operators of the
  community modules, with a definition. Each fold would have to be restated as a
  loop and put through the induction of `BatchSplitProofs`.
* With the cuckoo sent cache, `ImplementsVerdicts` is not claimed.

## 5. What is not modelled

* Generated protocol code, packaging, mocks, logging, debug: no state that a
  modelled decision reads. Of `metrics/`, the registry of counters and the
  cleaning of what is pushed.
* HTTP middleware: stateless checks around the handlers.
* The builders and dynamic fields of `pkg/libtrace/` that this program does not
  use; `TraceProxy.Stop` and `Client.Close`, which only tests call;
  `reloadTransmissionBuilder`, which discards what it builds.
* Of conversion: truncation, additional resource attributes, the encoding of
  IDs, `meta.*` fields, negative or very small client rates.
* `Matches` and `Datatype` of `config/sampler_config.go`, which `sample/rules.go`
  does not use. In `Collector` a decision is arbitrary.
* The single-server sharder returns constants and is never selected.
* The order in which main builds and stops the parts (`cmd/tracing-proxy/main.go`,
  `app/`): it is sequential, and what it relies on is in the Init states of the
  modules. The switch of proxies at start is in `MetricsPush`.
* A goroutine of the back-off that is left behind when its call ends.
* Persistence: there is none, so a crash loses what is in memory by design.

## 6. Plan

1. Proofs for the loops of `Sharding` and `SpanData`, with the lemmas about loops of
   `BatchSplitProofs`.
2. A composition of `PeerWatch` and `Routing`: views that change as the watchers
   change them, instead of arbitrarily.
3. Three or more overlapping switches, and a bound on how long a lockstep lasts.
