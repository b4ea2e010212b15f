------------------------------ MODULE Samplers ------------------------------
(***************************************************************************)
(* The samplers (sample/*.go): how the rules of a configuration match the  *)
(* spans of a trace, the key that traces are grouped by, and the rate and  *)
(* verdict of each kind of sampler.  A trace is the sequence of its spans, *)
(* events of module SpanData, with the hash of its identifier.  What the   *)
(* library dynsampler answers, and random numbers, are any.                *)
(***************************************************************************)
EXTENDS SpanData

CONSTANTS
    MaxUint32,      \* the largest uint32, and hash of a trace identifier
    Rates           \* what dynsampler may answer

less == -1
equal == 0
more == 1
Uncomparable == 2

Forms == <<"text", "digits", "json", "bool", "unknown", "<nil>">>
Order(m, n) == IF m < n THEN less ELSE IF m > n THEN more ELSE equal

\* Texts are ordered by their forms, and texts of a form by their numbers.
Compare(a, b) ==
    IF a[2] = b[2] THEN Order(a[3], b[3])
    ELSE Order(CHOOSE i \in DOMAIN Forms : Forms[i] = a[2],
               CHOOSE i \in DOMAIN Forms : Forms[i] = b[2])

\* Variant: a value compares with values of its own type only.
compareStrict(a, b) ==
    IF a = Nil /\ b = Nil THEN equal
    ELSE IF a = Nil THEN less
    ELSE IF b = Nil THEN more
    ELSE IF TypeOf(a) # TypeOf(b) THEN Uncomparable
    ELSE IF TypeOf(a) = "string" THEN Compare(a, b) ELSE Order(a[3], b[3])

\* A value of a span with that of a condition: numbers of any type compare,
\* but a Go int is never the value of a span.
compare(a, b) ==
    IF a = Nil /\ b = Nil THEN equal
    ELSE IF a = Nil THEN less
    ELSE IF b = Nil THEN more
    ELSE IF \/ TypeOf(a) \in {"int64", "float64"} /\ TypeOf(b) \in {"int", "int64", "float64"}
            \/ TypeOf(a) = "bool" /\ TypeOf(b) = "bool"
         THEN Order(a[3], b[3])
    ELSE IF TypeOf(a) = "string" /\ TypeOf(b) = "string" THEN Compare(a, b)
    ELSE Uncomparable

\* Whether a text starts with another: only "" and itself, here.
Prefixed(a, b) == b = Str(0) \/ a = b

\* The operators on a value that exists.
conditionMatchesValue(cond, value, exists) ==
    LET c == compare(value, cond.Value)
        strings == TypeOf(value) = "string" /\ TypeOf(cond.Value) = "string"
    IN IF ~exists THEN cond.Operator = "not-exists"
       ELSE CASE cond.Operator = "exists" -> TRUE
              [] cond.Operator = "!=" -> c \in {less, more}
              [] cond.Operator = "=" -> c = equal
              [] cond.Operator = ">" -> c = more
              [] cond.Operator = ">=" -> c \in {more, equal}
              [] cond.Operator = "<" -> c = less
              [] cond.Operator = "<=" -> c \in {less, equal}
              [] cond.Operator \in {"starts-with", "contains"} ->
                   strings /\ Prefixed(value, cond.Value)
              [] cond.Operator = "does-not-contain" -> strings /\ ~Prefixed(value, cond.Value)
              [] OTHER -> FALSE

\* The text of a value: whole numbers read the same whatever their type.
Text(v) ==
    CASE TypeOf(v) = "string" -> v
      [] TypeOf(v) = "bool" -> <<"string", "bool", v[3]>>
      [] OTHER -> Digits(v[3])

\* Nested fields are found in the JSON of the data, and are texts.  A field is
\* the name of a map, or "", and a key.
Nested(ev, field) ==
    LET m == CASE field[1] = "resourceAttributes" -> ev.resource
               [] field[1] = "spanAttributes" -> ev.span
               [] OTHER -> Empty
    IN IF Has(m, field[2]) THEN Text(m[field[2]]) ELSE Nil

\* The value of a field, or no value, which no span has.
extractValueFromSpan(ev, cond, checkNestedFields) ==
    IF cond.Field[1] = "" THEN IF Has(ev.fields, cond.Field[2]) THEN ev.fields[cond.Field[2]] ELSE Nil
    ELSE IF checkNestedFields THEN Nested(ev, cond.Field) ELSE Nil

Matches(cond, ev, nested) ==
    LET v == extractValueFromSpan(ev, cond, nested)
    IN conditionMatchesValue(cond, v, v # Nil)

\* Every condition holds of some span.
ruleMatchesTrace(spans, rule, nested) ==
    \A i \in DOMAIN rule.Condition : \E j \in DOMAIN spans :
        Matches(rule.Condition[i], spans[j], nested)

\* Some span has every condition hold.
ruleMatchesSpanInTrace(spans, rule, nested) ==
    rule.Condition = <<>> \/ \E j \in DOMAIN spans : \A i \in DOMAIN rule.Condition :
        Matches(rule.Condition[i], spans[j], nested)

\* A rule whose scope is neither matches every trace.
RuleMatches(spans, rule, nested) ==
    CASE rule.Scope = "span" -> ruleMatchesSpanInTrace(spans, rule, nested)
      [] rule.Scope \in {"trace", ""} -> ruleMatchesTrace(spans, rule, nested)
      [] OTHER -> TRUE

-----------------------------------------------------------------------------
\* Sorted, and without repetitions; a leading "" repeats what comes before it.
Collapse(texts) ==
    LET sorted == SortSeq(texts, LAMBDA a, b : Compare(a, b) = less)
    IN SelectSeq([i \in DOMAIN sorted |->
                    IF sorted[i] = (IF i = 1 THEN Str(0) ELSE sorted[i - 1]) THEN Nil ELSE sorted[i]],
                 LAMBDA t : t # Nil)

\* The key of a trace: the values of each field, and the number of spans.
build(cfg, spans) ==
    LET with(f) == SelectSeq(spans, LAMBDA ev : Has(ev.fields, f))
        texts(f) == [i \in DOMAIN with(f) |-> Text(with(f)[i].fields[f])]
    IN [fields |-> [i \in DOMAIN cfg.FieldList |-> Collapse(texts(cfg.FieldList[i]))],
        length |-> IF cfg.UseTraceLength THEN Len(spans) ELSE 0]

\* The key is also written into the spans, when configured.
KeyText == <<"string", "key", 0>>
buildAndAdd(cfg, spans) ==
    IF cfg.AddSampleRateKeyToTrace
    THEN [i \in DOMAIN spans |->
            [spans[i] EXCEPT !.fields = Over(@, [k \in {cfg.KeyField} |-> KeyText])]]
    ELSE spans

-----------------------------------------------------------------------------
\* The verdicts a sampler may give: rates, and whether the trace is kept.
Chance(rate) == IF rate = 1 THEN {TRUE} ELSE BOOLEAN

\* A rate below 1 is taken for 1.
AtLeastOne(rate) == IF rate < 1 THEN 1 ELSE rate
Sampled(rates) ==
    UNION {{[rate |-> AtLeastOne(r), keep |-> k] : k \in Chance(AtLeastOne(r))} : r \in rates}

DynamicSampler == Sampled(Rates)
EMADynamicSampler == Sampled(Rates)
TotalThroughputSampler == Sampled(Rates)

\* Variant: the remainder, not the quotient, bounds the hashes that are kept.
upperBoundRest(rate) == MaxUint32 % rate

\* DeterministicSampler: Start divides by the rate as a uint32, and panics if
\* that is 0; GetSampleRate.
Uint32(rate) == rate % (MaxUint32 + 1)
StartPanics(cfg) == cfg.type = "DeterministicSampler" /\ Uint32(cfg.SampleRate) = 0
upperBound(rate) == MaxUint32 \div Uint32(rate)
Deterministic(rate, hash) ==
    IF rate <= 1 THEN {[rate |-> 1, keep |-> TRUE]}
    ELSE {[rate |-> rate, keep |-> hash <= upperBound(rate)]}

\* RulesBasedSampler.Start makes the samplers of rules that name one; a rule
\* that names none that can be made is found without one.
DynamicTypes == {"DynamicSampler", "EMADynamicSampler", "TotalThroughputSampler"}
Downstream(rule) == rule.Sampler \in DynamicTypes
DynamicVerdicts(type) ==
    CASE type = "DynamicSampler" -> DynamicSampler
      [] type = "EMADynamicSampler" -> EMADynamicSampler
      [] type = "TotalThroughputSampler" -> TotalThroughputSampler

\* A rule that matches: its sampler decides, or its rate, of which 0 keeps nothing.
RuleVerdicts(rule) ==
    IF rule.Sampler = "no"
    THEN {[rate |-> rule.SampleRate, keep |-> k] :
            k \in IF rule.Drop \/ rule.SampleRate = 0 THEN {FALSE} ELSE Chance(rule.SampleRate)}
    ELSE IF Downstream(rule) THEN DynamicVerdicts(rule.Sampler) ELSE {[rate |-> 1, keep |-> TRUE]}

\* RulesBasedSampler.GetSampleRate: the first rule that matches decides.
FirstMatch(cfg, spans) ==
    SelectSeq(cfg.Rule, LAMBDA rule : RuleMatches(spans, rule, cfg.CheckNestedFields))
RulesBased(cfg, spans) ==
    IF FirstMatch(cfg, spans) = <<>> THEN {[rate |-> 1, keep |-> TRUE]}
    ELSE RuleVerdicts(FirstMatch(cfg, spans)[1])

\* The dynamic sampler that a trace gets to, if any: its key is built.
KeyConfigs(cfg, spans) ==
    IF cfg.type = "DeterministicSampler" THEN {}
    ELSE IF cfg.type # "RulesBasedSampler" THEN {cfg.key}
    ELSE {FirstMatch(cfg, spans)[i].key :
            i \in {j \in DOMAIN FirstMatch(cfg, spans) : j = 1 /\ Downstream(FirstMatch(cfg, spans)[j])}}

\* The sampler that GetSamplerImplementationForKey makes of a configuration.
GetSampleRate(cfg, spans, hash) ==
    CASE cfg.type = "DeterministicSampler" -> Deterministic(cfg.SampleRate, hash)
      [] cfg.type = "RulesBasedSampler" -> RulesBased(cfg, spans)
      [] OTHER -> DynamicVerdicts(cfg.type)
=============================================================================
