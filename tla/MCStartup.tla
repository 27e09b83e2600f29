------------------------------ MODULE MCStartup ------------------------------
(* Configurations with a fault in any one place: every field of the broker *)
(* missing or of another kind, every field of a route, and every           *)
(* combination of the fields of a stream transformer of each type.  An int *)
(* has three bits and an unsigned long five, 8 and 32 values.              *)
EXTENDS Startup

MCIsValidIp(text) == text = "10.0.2.2"
MCHasTlsPrefix(text) == text = "ssl://10.0.2.2"

Str(text) == [kind |-> "string", text |-> text]
TopicOf(levels) == [kind |-> "string", levels |-> levels]
Num(n) == [kind |-> "unsigned", number |-> n]
Bool(b) == [kind |-> "boolean", truth |-> b]
Other == [kind |-> "other"]
List(elements) == [kind |-> "array", elements |-> elements]
Doc(fields) == [kind |-> "object", fields |-> fields]
Without(fields, key) == [k \in DOMAIN fields \ {key} |-> fields[k]]
With(fields, key, value) ==
    [k \in DOMAIN fields \cup {key} |-> IF k = key THEN value ELSE fields[k]]
(* The fields as they are, one of them missing, one of them another value. *)
Faulty(fields, values) ==
    {fields} \cup {Without(fields, key) : key \in DOMAIN fields}
             \cup {With(fields, key, v) : key \in DOMAIN fields, v \in values}

GoodBroker ==
    [brokerAddress |-> Str("10.0.2.2"), brokerUser |-> Str("u"),
     brokerPassword |-> Str("p"), clientId |-> Str("c"),
     keepAliveInterval |-> Num(3), ssl |-> Bool(TRUE), trustStore |-> Str("t"),
     keyStore |-> Str("k"), privateKey |-> Str("")]
Brokers ==
    Faulty(GoodBroker, {Other})
        \cup Faulty([GoodBroker EXCEPT !.ssl = Bool(FALSE)], {Other})
        \cup {With(GoodBroker, "brokerAddress", Str("localhost")),
              With(GoodBroker, "brokerAddress", Str("ssl://10.0.2.2")),
              With(GoodBroker, "keepAliveInterval", Num(6))}

(* A field of a transformer: absent or one of these values.                *)
Froms == {Num(1), Num(6), Num(9), Str("a"), Other}
Ass == {Str("number"), Str("weird"), Other}
Keeps == {Bool(TRUE), Str("true")}
Absent == [kind |-> "absent"]
Present(fields) ==
    Doc([k \in {key \in DOMAIN fields : fields[key] # Absent} |-> fields[k]])
Typed(types) ==
    {Present([type |-> type, from |-> from, to |-> to, as |-> as, keep |-> keep]) :
        type \in types, from \in Froms \cup {Absent}, to \in Froms \cup {Absent},
        as \in Ass \cup {Absent}, keep \in Keeps \cup {Absent}}
SomeTransformers ==
    Typed({Str("topicToTopic"), Str("topicToPayload"),
           Str("payloadToTopic"), Str("payloadToPayload")})
        \cup {Other, Doc([from |-> Num(1)]), Doc([type |-> Other]),
              Doc([type |-> Str("topicToNowhere"), from |-> Num(1), to |-> Num(1)])}

GoodTransformer ==
    Doc([type |-> Str("payloadToPayload"), from |-> Str("a"), to |-> Str("b")])
BadTransformer ==
    Doc([type |-> Str("payloadToPayload"), from |-> Str("a"), to |-> Str("b"),
         as |-> Str("string"), keep |-> Str("true")])
In == TopicOf(<<"in">>)
RouteOf(transformers) ==
    [name |-> Str("r"), inputTopic |-> In, outputTopic |-> TopicOf(<<"out", "x">>),
     streamTransformers |-> transformers]
Topics == {TopicOf(<< >>), TopicOf(<<"", "">>), TopicOf(<<"", "x">>), TopicOf(<<"x", "">>),
           TopicOf(<<"x", "", "x">>), Other}
FewRoutes ==
    {Doc(Without(RouteOf(Other), "streamTransformers")),
     Doc(RouteOf(List(<<GoodTransformer, GoodTransformer>>))),
     Doc(RouteOf(List(<<GoodTransformer, BadTransformer>>))),
     Doc(With(RouteOf(List(<< >>)), "inputTopic", TopicOf(<<"aux">>)))}
SomeRoutes ==
    FewRoutes
        \cup {Other}
        \cup {Doc(f) : f \in Faulty(RouteOf(List(<<GoodTransformer>>)), {Other})}
        \cup {Doc(With(RouteOf(List(<< >>)), key, topic)) :
                 key \in {"inputTopic", "outputTopic"}, topic \in Topics}
        \cup {Doc(RouteOf(List(<<t>>))) : t \in SomeTransformers}

RouteLists ==
    {<< >>} \cup {<<r>> : r \in SomeRoutes} \cup {<<r, s>> : r, s \in FewRoutes}
        \cup {<<r, s, t>> : r, s, t \in FewRoutes}
MCConfigurations ==
    {Doc(With(b, "routes", List(<<Doc(RouteOf(List(<<GoodTransformer>>)))>>))) : b \in Brokers}
        \cup {Doc(With(GoodBroker, "routes", List(list))) : list \in RouteLists}
        \cup {Doc(GoodBroker), Doc(With(GoodBroker, "routes", Other)), Other}
MCUnparsable == [kind |-> "unparsable"]
=============================================================================
