---------------------------- MODULE SpanJourney -----------------------------
(***************************************************************************)
(* A trace on its way through the cluster: its spans are received by the   *)
(* node that owns it, or by another one which sends them there; the owner  *)
(* decides, and sends the trace to OpsRamp if it is kept.  Modules         *)
(* SpanData and Samplers say what each step does to the data; modules      *)
(* Routing and Collector, which node does it, and when.                    *)
(***************************************************************************)
EXTENDS Samplers

CONSTANTS
    Wires,          \* sets of spans, by name
    Scenarios       \* configurations of a sampler, with the name of a set of spans

VARIABLES
    scenario,   \* the sampler, the spans, how many of them, and options
    spans,      \* spans at the owner: as sent, as translated, and as they arrived
    transit,    \* the span that is between the two nodes
    stage,
    hash,       \* of the trace identifier
    verdict,
    sent        \* the messages for OpsRamp

vars == <<scenario, spans, transit, stage, hash, verdict, sent>>

Nothing == [items |-> <<>>, logs |-> <<>>]
Directs(s) == [i \in DOMAIN s |-> s[i].direct]
Datas(s) == [i \in DOMAIN s |-> s[i].data]

TypeOK ==
    /\ stage \in {"collect", "decided", "over", "panic"} /\ Len(spans) <= scenario.max
    /\ \A i \in DOMAIN spans : spans[i].direct.sampleRate \in Nat \ {0}
    /\ hash \in 0..MaxUint32 /\ verdict.rate \in Nat /\ verdict.keep \in BOOLEAN

Init ==
    /\ scenario \in Scenarios /\ spans = <<>> /\ transit = {} /\ stage = "collect" /\ sent = Nothing
    /\ hash \in IF scenario.cfg.type = "DeterministicSampler" /\ scenario.cfg.SampleRate > 1
                THEN 0..MaxUint32 ELSE {0}
    /\ verdict = [rate |-> 0, keep |-> FALSE]

\* A span is translated where it is received, and then goes to its owner: this
\* node, or a peer.
Receive(w) ==
    /\ stage \in {"collect", "over"} /\ transit = {} /\ Len(spans) < scenario.max
    /\ transit' = {[wire |-> w, direct |-> TranslateTraceRequest(w, scenario.sendEvents)]}
    /\ UNCHANGED <<scenario, spans, stage, hash, verdict, sent>>

Arrived(t, hop) ==
    [wire |-> t.wire, direct |-> t.direct, hop |-> hop,
     data |-> IF hop THEN ExportLogTraceProxy(payloadToSendPeer(t.direct)) ELSE t.direct]

Arrive(t, hop) ==
    /\ stage = "collect"
    /\ spans' = Append(spans, Arrived(t, hop))
    /\ transit' = {}
    /\ UNCHANGED <<scenario, stage, hash, verdict, sent>>

\* isRootSpan; a span of this program has no field parentId.
IsRoot(ev) == ~Has(ev.fields, "traceParentID")

\* The root, the last one to arrive if there are several, gets the number of
\* spans, if that is configured.
Counted(evs) ==
    LET roots == {i \in DOMAIN evs : IsRoot(evs[i])}
        last == {i \in roots : scenario.spanCount /\ \A j \in roots : j <= i}
    IN [i \in DOMAIN evs |->
          IF i \in last
          THEN [evs[i] EXCEPT !.fields = Over(@, [k \in {"meta.span_count"} |-> Int64(Len(evs))])]
          ELSE evs[i]]

\* The sampler is made, in vain, on the first trace that needs it.
Panic ==
    /\ stage = "collect" /\ spans # <<>> /\ transit = {} /\ StartPanics(scenario.cfg)
    /\ stage' = "panic"
    /\ UNCHANGED <<scenario, spans, transit, hash, verdict, sent>>

\* The sampler of the owner decides, and may write its key into the spans.
Decide ==
    LET cfg == scenario.cfg
        evs == Counted(Datas(spans))
        configs == KeyConfigs(cfg, evs)
        marked == IF configs = {} THEN evs ELSE buildAndAdd(CHOOSE c \in configs : TRUE, evs)
    IN /\ stage = "collect" /\ spans # <<>> /\ transit = {} /\ ~StartPanics(cfg)
       /\ stage' = "decided"
       /\ verdict' \in GetSampleRate(cfg, evs, hash)
       /\ spans' = [i \in DOMAIN spans |-> [spans[i] EXCEPT !.data = marked[i]]]
       /\ UNCHANGED <<scenario, transit, hash, sent>>

\* Variant: a span with no rate of its own has rate 0.
mergeUnlifted(ev, rate) == [ev EXCEPT !.sampleRate = ev.sampleRate * rate]

\* A span with no rate of its own counts once.
mergeTraceAndSpanSampleRates(ev, rate) ==
    [ev EXCEPT !.sampleRate = (IF ev.sampleRate < 1 THEN 1 ELSE ev.sampleRate) * rate]

\* A kept trace, and any trace in a dry run, is sent with the rates of its
\* spans and its own.  Fields that are added here are not in the messages.
Leaves == verdict.keep \/ scenario.dryRun

Send ==
    /\ stage = "decided" /\ stage' = "over"
    /\ sent' = IF Leaves THEN payloadToUpstream(Datas(spans)) ELSE Nothing
    /\ spans' = [i \in DOMAIN spans |->
                   [spans[i] EXCEPT !.data = IF Leaves
                       THEN mergeTraceAndSpanSampleRates(@, verdict.rate) ELSE @]]
    /\ UNCHANGED <<scenario, transit, hash, verdict>>

\* A span that comes later follows the decision that is remembered, with its
\* rate if the trace was kept.
dealWithSentTrace(t, hop) ==
    LET late == Arrived(t, hop)
        own == payloadToUpstream(<<late.data>>)
    IN /\ stage = "over"
       /\ spans' = Append(spans, [late EXCEPT !.data = IF verdict.keep
                        THEN mergeTraceAndSpanSampleRates(@, verdict.rate) ELSE @])
       /\ sent' = IF Leaves THEN [items |-> sent.items \o own.items, logs |-> sent.logs \o own.logs]
                  ELSE sent
       /\ transit' = {}
       /\ UNCHANGED <<scenario, stage, hash, verdict>>

Next ==
    \/ \E w \in Wires[scenario.wires] : Receive(w)
    \/ \E t \in transit, hop \in BOOLEAN : Arrive(t, hop) \/ dealWithSentTrace(t, hop)
    \/ Panic \/ Decide \/ Send

Spec == Init /\ [][Next]_vars

-----------------------------------------------------------------------------
\* A translated span is an error exactly if an attribute has a bad status, and
\* reports the first one: the loop of TranslateTraceRequest stops there.
FirstBadStatus ==
    \A i \in DOMAIN spans :
        LET a == spans[i].wire.attributes
            bad == {j \in DOMAIN a : Bad(a[j])}
            f == spans[i].direct.fields
        IN /\ Has(f, "error") <=> bad # {}
           /\ f.statusCode[3] = IF bad = {} THEN 0
                                ELSE statusNumber(a[CHOOSE j \in bad : \A k \in bad : j <= k][2])

\* A span with attributes is a web transaction if it, its scope or its resource
\* is one, and has the category and language of the innermost that has one:
\* what the two applications of NormalizeClassification amount to.
InnermostClass ==
    \A i \in DOMAIN spans : spans[i].wire.attributes # <<>> =>
        LET w == spans[i].wire
            class == [l \in 1..3 |-> DetermineClassification(<<w.attributes, w.scope, w.resource>>[l])]
            inner(k) == IF \E l \in 1..3 : class[l][k] # unknown
                        THEN CHOOSE l \in 1..3 : /\ class[l][k] # unknown
                                                 /\ \A m \in 1..(l - 1) : class[m][k] = unknown
                        ELSE 3
            category == inner("transaction.category")
        IN \A k \in LabelKeys \ DOMAIN addAttributesToMap(Empty, w.scope) :
             spans[i].direct.span[k] =
               CASE k = "transaction.type" /\ (\E l \in 1..3 : class[l][k] = web) -> web
                 [] k \in {"transaction.category", "transaction.sub_category"} -> class[category][k]
                 [] OTHER -> class[inner(k)][k]

\* What the loops of TranslateTraceRequest compute of the status and the class
\* of a span is what their definitions say.
TranslatedAsDefined == FirstBadStatus /\ InnermostClass

\* Fields that come to OpsRamp the same way whichever node received the span.
Kept == {"traceTraceID", "traceParentID", "traceSpanID", "type", "spanName", "spanKind",
         "statusMessage", "durationMs", "startTime", "endTime", "error"}

\* Whether or not it came through a peer, a span is sent with its identity,
\* times and error as they were translated, and with each attribute whose
\* value can be sent, as that value or its text; the kind is its last attribute.
SentAsReceived ==
    \A i \in DOMAIN sent.items :
        LET direct == spans[i].direct
            item == sent.items[i]
            same(m, n) == \A k \in DOMAIN m : Bare(m[k]) # Nil => Has(n, k) /\ Text(n[k]) = Text(m[k])
            ownKind == [k \in DOMAIN direct.span \ {"kind"} |-> direct.span[k]]
        IN /\ \A f \in Kept : item.fields[f] = Asserted(direct.fields)[f]
           /\ same(direct.resource, item.resource) /\ same(direct.event, item.event)
           /\ same(ownKind, item.span) /\ item.span["kind"] = direct.fields.spanKind

\* A field that a condition can rely on: the span does not have it, or has it
\* in the type of the messages, and not zero; or it is nested, and has a text.
Portable(cond, ev) ==
    IF cond.Field[1] = ""
    THEN LET f == cond.Field[2] IN
         ~Has(ev.fields, f) \/ ( /\ f \in Fields /\ TypeOf(ev.fields[f]) = FieldTypes[f]
                                 /\ ~IsZero(ev.fields[f]))
    ELSE LET m == IF cond.Field[1] = "spanAttributes" THEN ev.span ELSE ev.resource
         IN cond.Field[2] # "kind" /\ (Has(m, cond.Field[2]) => Bare(m[cond.Field[2]]) # Nil)

\* The owner of a trace sees it as the node that received a span would have:
\* a span is a root for both or neither, unless its parent is "" (which only a
\* peer takes for none), and a rule on portable fields matches for both or
\* neither, though numbers have changed their type on the way.
SameAtOwner ==
    /\ \A i \in DOMAIN spans : spans[i].wire.parent # Str(0) =>
          (IsRoot(spans[i].data) <=> IsRoot(spans[i].direct))
    /\ scenario.cfg.type = "RulesBasedSampler" /\ stage = "collect" =>
          \A r \in Range(scenario.cfg.Rule) :
            (\A cond \in Range(r.Condition), ev \in Range(Directs(spans)) : Portable(cond, ev)) =>
                \A nested \in BOOLEAN :
                    RuleMatches(Datas(spans), r, nested) <=> RuleMatches(Directs(spans), r, nested)

\* Every span of a kept trace stands for as many as its client and its trace
\* stand for: it leaves with the rate its client stated, times that of the
\* trace, and never with 0.  A span that came through a peer, which loses the
\* client's rate, counts once, and a late span is weighed as the others are.
RateAtLeastOne ==
    stage = "over" /\ verdict.keep => \A i \in DOMAIN spans :
        /\ spans[i].data.sampleRate >= 1
        /\ spans[i].data.sampleRate =
             verdict.rate * (IF spans[i].hop THEN 1 ELSE spans[i].direct.sampleRate)

\* A trace that the deterministic sampler keeps at a rate it keeps at every
\* lower rate, so nodes that still have another rate agree on it.
NestedSamples ==
    scenario.cfg.type = "DeterministicSampler" /\ verdict.keep =>
        \A rate \in 1..scenario.cfg.SampleRate : \A v \in Deterministic(rate, hash) : v.keep
=============================================================================
