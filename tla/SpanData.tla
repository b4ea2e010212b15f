------------------------------ MODULE SpanData ------------------------------
(***************************************************************************)
(* What a span carries on its way: an OTLP span becomes the data of an     *)
(* event (pkg/convert), which is sent to the peer that owns its trace and  *)
(* read there (payloadToSendPeer, route/otlp_trace.go), and in the end to  *)
(* OpsRamp (payloadToUpstream).                                            *)
(*                                                                         *)
(* A value is its Go type, the form of a text, and a number: the value of  *)
(* a number, 1 for true, which of the texts of that form.  Text 0 is "".   *)
(* Arrays, maps and bytes are their JSON; truncation of long ones is left  *)
(* out.                                                                    *)
(***************************************************************************)
EXTENDS Integers, Sequences, FiniteSets, SequencesExt, TLC

CONSTANT MaxInt32       \* the largest int32

Str(n) == <<"string", "text", n>>
Digits(n) == <<"string", "digits", n>>
Int64(n) == <<"int64", "", n>>
GoInt(n) == <<"int", "", n>>
Float(n) == <<"float64", "", n>>
Bool(b) == <<"bool", "", IF b THEN 1 ELSE 0>>
Nil == <<"nil", "", 0>>
Array(n) == <<"array", "", n>>
unknown == <<"string", "unknown", 0>>

TypeOf(v) == v[1]
Zero(type) == IF type = "string" THEN Str(0) ELSE <<type, "", 0>>
IsZero(v) == v[3] = 0 /\ v[2] \in {"", "text"}

Empty == [k \in {} |-> Nil]
Has(m, k) == k \in DOMAIN m

\* Later entries of a map replace earlier ones.
Over(f, g) == g @@ f

-----------------------------------------------------------------------------
\* pkg/convert.  Attributes are sequences of keys and values; the value of a
\* key may be missing.
getValue(v) == IF TypeOf(v) = "array" THEN <<"string", "json", v[3]>> ELSE v

\* The last value of each key.
MapOf(attributes) ==
    FoldLeft(LAMBDA m, a : Over(m, [k \in {a[1]} |-> a[2]]), Empty, attributes)

addAttributesToMap(m, attributes) ==
    LET new == MapOf(SelectSeq(attributes, LAMBDA a : a[2] # Nil))
    IN Over(m, [k \in DOMAIN new |-> getValue(new[k])])

\* The number in a status attribute: an integer, or digits.
statusNumber(v) == IF TypeOf(v) = "int64" \/ v[2] = "digits" THEN v[3] ELSE 0

IsHTTP(k) == k \in {"http.status_code", "http.response.status_code"}
IsGRPC(k) == k = "rpc.grpc.status_code"

Bad(a) ==
    \/ IsHTTP(a[1]) /\ (statusNumber(a[2]) >= 400 \/ statusNumber(a[2]) = 0)
    \/ IsGRPC(a[1]) /\ statusNumber(a[2]) # 0

\* The loop over the attributes of a span that stops at the first bad status;
\* without one the code is that of no status, 0.
spanStatus(attributes) ==
    FoldLeft(LAMBDA acc, a : IF ~acc.isError /\ Bad(a)
                             THEN [code |-> statusNumber(a[2]), isError |-> TRUE] ELSE acc,
             [code |-> 0, isError |-> FALSE], attributes)

\* Classification: the keys that make a span a web transaction (all that start
\* with http., rpc. or user_agent.), and those that give it a category, the
\* first in this order: three of the nine of the code.  Keys are in lower case
\* and without blanks around them, to which the code converts them here.
WebKeys == {"http.status_code", "http.response.status_code", "rpc.grpc.status_code", "rpc.system"}
_categoryAttributes == <<"db.system", "rpc.system", "telemetry.sdk.language">>

stringValue(v) == IF TypeOf(v) = "string" THEN v ELSE Str(0)

web == <<"string", "web", 0>>
LabelKeys == {"transaction.type", "transaction.category", "transaction.sub_category", "language"}

DetermineClassification(attributes) ==
    LET m == MapOf(attributes)
        found == SelectSeq(_categoryAttributes, LAMBDA k : Has(m, k))
        sdk == "telemetry.sdk.language"
    IN [k \in LabelKeys |->
          CASE k = "transaction.type" -> IF DOMAIN m \cap WebKeys # {} THEN web
                                         ELSE <<"string", "non-web", 0>>
            [] k = "transaction.category" /\ found # <<>> -> <<"string", found[1], 0>>
            [] k = "transaction.sub_category" /\ found # <<>> -> stringValue(m[found[1]])
            [] k = "language" /\ Has(m, sdk) /\ stringValue(m[sdk]) # Str(0) -> m[sdk]
            [] OTHER -> unknown]

\* Variant: the class of the inner attributes replaces the outer one.
NormalizeClassificationInner(m, attributes) == DetermineClassification(attributes)

\* The class of inner attributes, completed by the outer one.
NormalizeClassification(m, attributes) ==
    LET inner == DetermineClassification(attributes) IN
    [k \in LabelKeys |->
        IF IF k = "transaction.type" THEN m[k] = web
           ELSE inner[IF k = "language" THEN k ELSE "transaction.category"] = unknown
        THEN m[k] ELSE inner[k]]

\* The first of some keys that a map has.
FirstKey(m, keys) == SelectSeq(keys, LAMBDA k : Has(m, k))
possibleServiceNames == <<"service_name", "service.name">>
possibleInstanceNames == <<"instance", "k8s.pod.name", "host.name">>

normalizeService(m) ==
    LET keys == FirstKey(m, possibleServiceNames) IN
    IF keys = <<>> THEN Over(m, [k \in {"service_name"} |-> unknown])
    ELSE Over([k \in DOMAIN m \ {keys[1]} |-> m[k]], [k \in {"service_name"} |-> m[keys[1]]])

normalizeInstance(m) ==
    LET keys == FirstKey(m, possibleInstanceNames) IN
    Over(m, [k \in {"instance"} |-> IF keys = <<>> THEN unknown ELSE m[keys[1]]])

\* The rate a client has sampled at, among attributes that the event has: an
\* integer, up to a limit, or digits, up to which they parse.  0 is taken for 1,
\* and the attribute removed.  Rates below 0 are left out.
getSampleRate(m) ==
    LET keys == FirstKey(m, <<"sampleRate", "SampleRate">>)
        v == m[keys[1]]
        n == CASE TypeOf(v) = "int64" -> IF v[3] < MaxInt32 THEN v[3] ELSE MaxInt32
               [] v[2] = "digits" /\ v[3] <= MaxInt32 -> v[3]
               [] OTHER -> 1
    IN IF keys = <<>> THEN [rate |-> 1, rest |-> m]
       ELSE [rate |-> IF n = 0 THEN 1 ELSE n,
             rest |-> [k \in DOMAIN m \ {keys[1]} |-> m[k]]]

-----------------------------------------------------------------------------
\* An OTLP span w has a kind, a parent (absent, "" or a name), times, counts,
\* a status message, attributes and events, and the attributes of its resource
\* and scope.  An event has the fields of its data, three maps of attributes,
\* its span events, and the rate it was sampled at.
TranslateTraceRequest(w, sendEvents) ==
    LET status == spanStatus(w.attributes)
        resourceAttrs == addAttributesToMap(Empty, w.resource)
        scopeAttrs == addAttributesToMap(Empty, w.scope)
        resource == normalizeInstance(normalizeService(resourceAttrs))
        class == NormalizeClassification(
                    NormalizeClassification(DetermineClassification(w.resource), w.scope),
                    w.attributes)
        error == [k \in IF status.isError THEN {"error"} ELSE {} |-> Bool(TRUE)]
        own == Over(error, addAttributesToMap(Empty, w.attributes))
        labelled == IF w.attributes = <<>> THEN own ELSE Over(own, class)
        placed == IF FirstKey(resourceAttrs, possibleInstanceNames) = <<>>
                  THEN normalizeInstance(labelled) ELSE labelled
        span == Over(placed, scopeAttrs)
        named == IF sendEvents /\ w.events # <<>> /\ ~Has(span, "instance")
                 THEN Over(span, [k \in {"instance"} |-> resource["instance"]]) ELSE span
        optional == [traceParentID |-> w.parent, statusMessage |-> w.message]
        fields == [traceTraceID |-> w.traceID, traceSpanID |-> w.spanID, type |-> w.kind,
                   spanKind |-> w.kind, spanName |-> w.name,
                   durationMs |-> Float(w.end - w.start), startTime |-> Int64(w.start),
                   endTime |-> Int64(w.end), statusCode |-> Int64(status.code),
                   spanNumLinks |-> GoInt(w.links), spanNumEvents |-> GoInt(Len(w.events))]
        given == {k \in DOMAIN optional : optional[k] # Nil}
        rated == getSampleRate(
                    Over(Over(Over(Over(fields, [k \in given |-> optional[k]]), error),
                              resourceAttrs), scopeAttrs))
    IN [fields |-> Over(rated.rest, [k \in {"time"} |-> Int64(w.start)]),
        resource |-> resource, span |-> named,
        event |-> IF sendEvents THEN addAttributesToMap(Empty, FlattenSeq(w.events)) ELSE Empty,
        spanEvents |-> IF sendEvents
                       THEN [i \in DOMAIN w.events |->
                               Over(addAttributesToMap(Empty, w.events[i]),
                                    [traceId |-> w.traceID, spanId |-> w.spanID,
                                     trace_operation |-> w.name,
                                     trace_instance |-> named["instance"],
                                     trace_service |-> resource["service_name"]])]
                       ELSE <<>>,
        sampleRate |-> rated.rate]

-----------------------------------------------------------------------------
\* The fields of the messages to peers and to OpsRamp, with their types.
FieldTypes ==
    [traceTraceID |-> "string", traceParentID |-> "string", traceSpanID |-> "string",
     traceLinkTraceID |-> "string", traceLinkSpanID |-> "string", type |-> "string",
     metaType |-> "string", spanName |-> "string", spanKind |-> "string",
     spanNumEvents |-> "int64", spanNumLinks |-> "int64", statusCode |-> "int64",
     statusMessage |-> "string", time |-> "int64", durationMs |-> "float64",
     startTime |-> "int64", endTime |-> "int64", error |-> "bool", fromProxy |-> "bool",
     parentName |-> "string"]
Fields == DOMAIN FieldTypes

\* Go's fields, _ = v.(type): the zero value for what is absent or of another type.
Asserted(m) ==
    [f \in Fields |-> IF Has(m, f) /\ TypeOf(m[f]) = FieldTypes[f] THEN m[f]
                      ELSE Zero(FieldTypes[f])]

\* The values an attribute may have in a message; another one leaves its key bare.
Bare(v) == IF TypeOf(v) \in {"string", "bool", "int64"} THEN v ELSE Nil
BareMap(m) == [k \in DOMAIN m |-> Bare(m[k])]

\* The attributes of a span; its kind comes last, and so replaces one of that name.
SpanAttributes(ev) == Over(BareMap(ev.span), [kind |-> Asserted(ev.fields).spanKind])

payloadToSendPeer(ev) ==
    [fields |-> Asserted(ev.fields), resource |-> BareMap(ev.resource),
     span |-> SpanAttributes(ev), event |-> BareMap(ev.event),
     spanEvents |-> [i \in DOMAIN ev.spanEvents |-> BareMap(ev.spanEvents[i])]]

\* An attribute becomes a text; one without a value, the text of no message.
extractKeyValue(v) ==
    CASE TypeOf(v) = "string" -> v
      [] TypeOf(v) = "int64" -> Digits(v[3])
      [] TypeOf(v) = "bool" -> <<"string", "bool", v[3]>>
      [] OTHER -> <<"string", "<nil>", 0>>
Extracted(m) == [k \in DOMAIN m |-> extractKeyValue(m[k])]

ConvertKeyValueSliceToMap(m) == [k \in DOMAIN m |-> IF m[k] = Nil THEN Str(0) ELSE m[k]]

\* Through JSON: zero values are left out, and every number is a float64.
RoundTrip(fields) ==
    [f \in {g \in DOMAIN fields : ~IsZero(fields[g])} |->
        IF TypeOf(fields[f]) = "int64" THEN Float(fields[f][3]) ELSE fields[f]]

\* Variant: the times are left as JSON gave them.
ExportLogTraceProxyPlain(msg) ==
    [fields |-> RoundTrip(msg.fields), resource |-> Extracted(msg.resource),
     span |-> Extracted(msg.span), event |-> Extracted(msg.event),
     spanEvents |-> [i \in DOMAIN msg.spanEvents |-> ConvertKeyValueSliceToMap(msg.spanEvents[i])],
     sampleRate |-> 0]

\* What a peer makes of the message: the times are restored, the rate is not.
ExportLogTraceProxy(msg) ==
    [fields |-> Over(RoundTrip(msg.fields), [startTime |-> msg.fields.startTime,
                                             endTime |-> msg.fields.endTime]),
     resource |-> Extracted(msg.resource), span |-> Extracted(msg.span),
     event |-> Extracted(msg.event),
     spanEvents |-> [i \in DOMAIN msg.spanEvents |-> ConvertKeyValueSliceToMap(msg.spanEvents[i])],
     sampleRate |-> 0]

\* The messages for OpsRamp: one item for each event, and one log record for
\* each span event, with the application of the last event that named one.
payloadToUpstream(events) ==
    LET app(i) ==
          LET named == {j \in 1..i : Has(events[j].resource, "app")}
          IN IF named = {} THEN Str(0)
             ELSE events[CHOOSE j \in named : \A k \in named : k <= j].resource["app"]
    IN [items |-> [i \in DOMAIN events |->
                     [fields |-> Asserted(events[i].fields),
                      resource |-> BareMap(events[i].resource), span |-> SpanAttributes(events[i]),
                      event |-> BareMap(events[i].event)]],
        logs |-> [i \in DOMAIN events |->
                    [j \in DOMAIN events[i].spanEvents |->
                       Over(BareMap(events[i].spanEvents[j]), [trace_app |-> app(i)])]]]
=============================================================================
