--------------------------- MODULE MCSpanJourney ----------------------------
(* Spans one at a time, with every mix of attributes below, and traces of  *)
(* up to three spans under each kind of sampler.                           *)
EXTENDS SpanJourney

Wire(attributes, scope, resource, parent, message, start, end, events) ==
    [traceID |-> Str(1), spanID |-> Str(2), name |-> Str(3), kind |-> Str(4), links |-> 1,
     parent |-> parent, message |-> message, start |-> start, end |-> end,
     attributes |-> attributes, scope |-> scope, resource |-> resource, events |-> events]

Attributes == {
    <<>>,
    << <<"color", Str(5)>>, <<"kind", Str(6)>> >>,
    << <<"http.status_code", Int64(200)>>, <<"rpc.grpc.status_code", Int64(0)>> >>,
    << <<"http.status_code", Int64(500)>>, <<"rpc.grpc.status_code", Int64(2)>> >>,
    << <<"rpc.grpc.status_code", Digits(3)>>, <<"http.response.status_code", Int64(200)>> >>,
    << <<"http.status_code", Str(7)>>, <<"color", Nil>> >>,
    << <<"http.status_code", Digits(404)>>, <<"db.system", Str(8)>> >>,
    << <<"db.system", Int64(1)>>, <<"telemetry.sdk.language", Str(9)>> >>,
    << <<"size", Float(3)>>, <<"size", Int64(4)>>, <<"list", Array(1)>>, <<"instance", Bool(FALSE)>> >>}
Scopes == {<<>>, << <<"rpc.system", Str(8)>>, <<"sampleRate", Int64(0)>> >>,
           << <<"telemetry.sdk.language", Str(0)>>, <<"color", Str(10)>> >>}
Resources == {<<>>, << <<"service.name", Str(11)>>, <<"host.name", Str(12)>>, <<"app", Str(13)>> >>,
              << <<"service_name", Int64(7)>>, <<"service.name", Str(11)>>, <<"SampleRate", Digits(3)>>,
                 <<"ratio", Float(2)>>, <<"db.system", Str(14)>> >>,
              << <<"telemetry.sdk.language", Str(15)>>, <<"on", Bool(TRUE)>>, <<"http.status_code", Nil>> >>}
Events == {<<>>, << << <<"color", Str(16)>> >>, << <<"size", Float(1)>>, <<"color", Int64(2)>> >> >>}
Stated == {Int64(MaxInt32 + 1), Digits(MaxInt32), Digits(MaxInt32 + 1), Float(2)}

Singles == {Wire(a, s, r, p, m, t[1], t[2], e) :
              a \in Attributes, s \in Scopes, r \in Resources, p \in {Nil, Str(0), Str(17)},
              m \in {Nil}, t \in {<<5, 8>>}, e \in Events} \cup
           {Wire(a, <<>>, <<>>, Nil, m, t[1], t[2], <<>>) :
              a \in Attributes, m \in {Nil, Str(18)}, t \in {<<0, 0>>, <<0, 2>>, <<3, 3>>}} \cup
           {Wire(<<>>, << <<"sampleRate", v>> >>, <<>>, Nil, Nil, 5, 8, <<>>) : v \in Stated}

\* Spans for traces: with or without a bad status, a message, and attributes.
Several == {
    Wire(<<>>, <<>>, <<>>, Nil, Nil, 5, 8, <<>>),
    Wire(<< <<"http.status_code", Int64(500)>>, <<"color", Str(5)>> >>, <<>>,
         << <<"region", Str(1)>>, <<"app", Str(13)>> >>, Str(17), Str(18), 5, 5, <<>>),
    Wire(<< <<"http.status_code", Int64(404)>>, <<"color", Int64(4)>> >>, <<>>,
         << <<"region", Str(2)>> >>, Str(17), Str(19), 5, 7, << <<>> >>),
    Wire(<< <<"color", Float(4)>> >>, <<>>, << <<"app", Str(20)>>, <<"sampleRate", Int64(2)>> >>, Str(0), Nil, 0, 3, << <<>> >>)}

Cond(map, field, op, value) == [Field |-> <<map, field>>, Operator |-> op, Value |-> value]
Conditions == {
    Cond("", "statusCode", ">=", GoInt(500)), Cond("", "statusCode", "<", Float(500)),
    Cond("", "statusCode", "=", Int64(404)), Cond("", "error", "!=", Bool(FALSE)),
    Cond("", "durationMs", "<=", Int64(2)), Cond("", "durationMs", ">", GoInt(1)),
    Cond("", "statusMessage", "starts-with", Str(18)), Cond("", "statusMessage", "not-exists", Nil),
    Cond("", "region", "exists", Nil), Cond("", "meta.span_count", ">=", GoInt(2)),
    Cond("", "spanNumEvents", ">", GoInt(0)),
    Cond("", "startTime", "=", Str(5)), Cond("", "spanName", "contains", Str(0)),
    Cond("spanAttributes", "color", "=", Digits(4)),
    Cond("spanAttributes", "color", "does-not-contain", Str(5)),
    Cond("resourceAttributes", "region", "!=", Str(1)), Cond("", "region", "like", Str(1))}

KeyCfg(fields, add) == [FieldList |-> fields, UseTraceLength |-> add,
                        AddSampleRateKeyToTrace |-> add, KeyField |-> "meta.key"]
Rule(scope, conditions, rate, drop, sampler) ==
    [Scope |-> scope, Condition |-> conditions, SampleRate |-> rate, Drop |-> drop,
     Sampler |-> sampler, key |-> KeyCfg(<<"statusCode", "statusMessage">>, FALSE)]
Rules(rules) == [type |-> "RulesBasedSampler", CheckNestedFields |-> TRUE, Rule |-> rules]

\* Rules with one condition, and with the pairs that tell the scopes apart.
RuleLists ==
    {<<Rule("trace", <<c>>, 2, FALSE, "no")>> : c \in Conditions} \cup
    {<<Rule(scope, <<c, d>>, 0, FALSE, "no"), Rule("", <<>>, 2, TRUE, "no")>> :
        scope \in {"span", "trace"},
        c \in {Cond("", "statusCode", ">=", GoInt(500)), Cond("", "durationMs", ">", GoInt(1))},
        d \in {Cond("", "statusMessage", "exists", Nil), Cond("", "region", "exists", Nil)}} \cup
    {<<Rule("span", <<Cond("", "error", "=", Bool(TRUE))>>, 1, FALSE, "EMADynamicSampler"),
       Rule("trace", <<Cond("", "error", "=", GoInt(1))>>, 1, FALSE, "no"),
       Rule("any", <<>>, 1, FALSE, "missing")>>}

WiresDef == [single |-> Singles, several |-> Several,
             plain |-> {Wire(<<>>, <<>>, <<>>, Nil, Nil, 5, 8, <<>>)}]
Scenario(cfg, wires, max, option) ==
    [cfg |-> cfg, wires |-> wires, max |-> max, sendEvents |-> option,
     spanCount |-> option, dryRun |-> ~option]
ScenariosDef ==
    {Scenario([type |-> "DeterministicSampler", SampleRate |-> 1], "single", 1, e) : e \in BOOLEAN} \cup
    {Scenario([type |-> "DeterministicSampler", SampleRate |-> r], "plain", 2, r > 4) :
        r \in {0, MaxUint32 + 1} \cup 2..7} \cup
    {Scenario(Rules(rules), "several", 2, TRUE) : rules \in RuleLists} \cup
    {Scenario([type |-> t, key |-> KeyCfg(fields, t # "EMADynamicSampler")], "several", 3, TRUE) :
        fields \in {<<"statusCode", "statusMessage">>, <<"region", "traceParentID">>},
        t \in DynamicTypes}
=============================================================================
