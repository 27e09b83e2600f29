------------------------------- MODULE Startup -------------------------------
(***************************************************************************)
(* The life of the process around its threads: main (main.cpp), which      *)
(* reads config.json, and TrafficWarden::init with retrieve_routes, up to  *)
(* the start of the threads, which init then waits for.                    *)
(***************************************************************************)
EXTENDS Configuration, FiniteSets, Functions

CONSTANTS
    Configurations,     \* documents that config.json may hold
    Unparsable          \* what config.json holds when it is not JSON

ASSUME ConfigurationsAssumption ==
    /\ Unparsable \notin Configurations
    /\ \A document \in Configurations :
          /\ HasKindedFields(document)
          /\ Has(document, "routes", "array") =>
                LET list == document.fields["routes"].elements
                IN  \A i \in DOMAIN list :
                       /\ HasKindedFields(list[i])
                       /\ \A key \in {"inputTopic", "outputTopic"} :
                             Has(list[i], key, "string") =>
                                 list[i].fields[key].levels \in Seq(STRING)
                       /\ Has(list[i], "streamTransformers", "array") =>
                             \A j \in DOMAIN list[i].fields["streamTransformers"].elements :
                                HasKindedFields(
                                    list[i].fields["streamTransformers"].elements[j])

VARIABLES
    config,         \* the document
    phase,          \* what init() does next, or how it ended
    client,         \* m_mqttClient: a sequence of at most one client
    routeNumber,    \* it_route
    properties,     \* l_routeProperties, while a route is being read
    routes,         \* l_routeConfigurations, later m_routes
    error,          \* the exception that ended init()
    typed,          \* the last character main() has read from standard input
    exited          \* "no", "success", "failure" or "killed"
vars == <<config, phase, client, routeNumber, properties, routes, error, typed, exited>>

Init ==
    /\ config \in Configurations \cup {Unparsable}
    /\ phase = "start"
    /\ client = << >>
    /\ routeNumber = 1
    /\ properties = << >>
    /\ routes = << >>
    /\ error = "none" /\ typed = "nothing" /\ exited = "no"

(* An exception leaves init(); main() catches it and returns EXIT_FAILURE. *)
Throw(exception) ==
    /\ phase' = "failed"
    /\ error' = exception
    /\ exited' = "failure"
    /\ UNCHANGED <<config, client, routeNumber, properties, routes, typed>>

-----------------------------------------------------------------------------
(* json::parse, retrieve_broker_infos, configure_mqtt_client.              *)
ConfigureBroker ==
    /\ phase = "start"
    /\ IF config = Unparsable
       THEN Throw("json")
       ELSE IF ~IsValidBroker(config)
            THEN Throw("initialization")
            ELSE /\ client' = <<ClientOf(config)>>
                 /\ phase' = "routes"
                 /\ UNCHANGED <<config, routeNumber, properties, routes,
                                error, typed, exited>>

(* p_configurations.at("routes"), which throws when there is none, and the *)
(* first lines of retrieve_routes.                                         *)
BeginRoutes ==
    /\ phase = "routes"
    /\ IF ~Contains(config, "routes")
       THEN Throw("json")
       ELSE IF ~Has(config, "routes", "array")
            THEN Throw("initialization")
            ELSE /\ phase' = "nextRoute"
                 /\ UNCHANGED <<config, client, routeNumber, properties, routes,
                                error, typed, exited>>

RouteList == config.fields["routes"].elements
Route == RouteList[routeNumber]
TransformerList ==
    IF Contains(Route, "streamTransformers")
    THEN Route.fields["streamTransformers"].elements
    ELSE << >>

(* The head of the loop over the routes: is_valid_route, the properties,   *)
(* and the check that the list of stream transformers is one.              *)
BeginRoute ==
    /\ phase = "nextRoute"
    /\ routeNumber <= Len(RouteList)
    /\ IF IsValidRoute(Route) /\ MayHave(Route, "streamTransformers", "array")
       THEN /\ properties' = [outputTopic |-> Route.fields["outputTopic"].levels,
                              streamTransformers |-> << >>]
            /\ phase' = "inRoute"
            /\ UNCHANGED <<config, client, routeNumber, routes, error, typed, exited>>
       ELSE Throw("initialization")

(* One iteration of the loop over the route's stream transformers.         *)
AddTransformer ==
    /\ phase = "inRoute"
    /\ Len(properties.streamTransformers) < Len(TransformerList)
    /\ LET setup == SetupTransformer(
                        TransformerList[Len(properties.streamTransformers) + 1])
       IN  CASE setup.outcome = "set" ->
                  /\ properties' = [properties EXCEPT !.streamTransformers =
                                        Append(@, setup.transformer)]
                  /\ UNCHANGED <<config, phase, client, routeNumber, routes,
                                 error, typed, exited>>
             [] setup.outcome = "rejected" -> Throw("initialization")
             [] setup.outcome = "jsonError" -> Throw("json")

(* The tail of the loop over the routes: a list of its own for a topic that*)
(* has none yet, the end of its list for one that has.  (X_Fault is X with *)
(* a fault in it that a property must reveal.)                             *)
WithRoute_Replaces(table, topic, p) ==
    [t \in DOMAIN table \cup {topic} |-> IF t = topic THEN <<p>> ELSE table[t]]
WithRoute(table, topic, p) ==
    [t \in DOMAIN table \cup {topic} |->
        IF t # topic THEN table[t]
        ELSE IF topic \in DOMAIN table THEN Append(table[topic], p) ELSE <<p>>]
EndRoute ==
    /\ phase = "inRoute"
    /\ Len(properties.streamTransformers) = Len(TransformerList)
    /\ routes' = WithRoute(routes, Route.fields["inputTopic"].levels, properties)
    /\ properties' = << >>
    /\ routeNumber' = routeNumber + 1
    /\ phase' = "nextRoute"
    /\ UNCHANGED <<config, client, error, typed, exited>>

(* The rest of init(): the threads start and are waited for, for ever; or, *)
(* without a route, init() returns.                                        *)
EndRoutes ==
    /\ phase = "nextRoute"
    /\ routeNumber > Len(RouteList)
    /\ phase' = IF DOMAIN routes = {} THEN "noRoutes" ELSE "relaying"
    /\ UNCHANGED <<config, client, routeNumber, properties, routes, error,
                   typed, exited>>

(* main(): read characters until a q; at its end standard input returns the*)
(* same value again and again.                                             *)
ReadCharacter ==
    /\ phase = "noRoutes"
    /\ exited = "no"
    /\ typed # "end"
    /\ \E c \in {"q", "other", "end"} :
          /\ typed' = c
          /\ exited' = IF c = "q" THEN "success" ELSE "no"
    /\ UNCHANGED <<config, phase, client, routeNumber, properties, routes, error>>

(* SIGINT.  main() installs no handler, so the signal does what it does by *)
(* default.                                                                *)
Interrupt ==
    /\ exited = "no"
    /\ phase' = "killed"
    /\ exited' = "killed"
    /\ UNCHANGED <<config, client, routeNumber, properties, routes, error, typed>>

MainThread ==
    \/ ConfigureBroker
    \/ BeginRoutes \/ BeginRoute \/ AddTransformer \/ EndRoute \/ EndRoutes
    \/ ReadCharacter
Next == MainThread \/ Interrupt

(* The main thread runs.  A signal need not come.                          *)
Safety == Init /\ [][Next]_vars
Spec == Safety /\ WF_vars(MainThread)

-----------------------------------------------------------------------------
(* The reference for what is accepted: a schema per stream transformer.    *)
Schema ==
    [topicToTopic |-> [from |-> "unsigned", to |-> "unsigned"],
     topicToPayload |-> [from |-> "unsigned", to |-> "string", as |-> "string"],
     payloadToTopic |-> [from |-> "string", to |-> "unsigned", keep |-> "boolean"],
     payloadToPayload |-> [from |-> "string", to |-> "string", as |-> "string",
                           keep |-> "boolean"]]
ConformsToSchema(json) ==
    /\ Has(json, "type", "string")
    /\ json.fields["type"].text \in DOMAIN Schema
    /\ LET schema == Schema[json.fields["type"].text]
       IN  /\ {"from", "to"} \subseteq DOMAIN json.fields
           /\ \A key \in DOMAIN schema \cap DOMAIN json.fields :
                 json.fields[key].kind = schema[key]
           /\ ("as" \in DOMAIN schema \cap DOMAIN json.fields) =>
                 json.fields["as"].text \in {"number", "string", "boolean"}
RouteConforms(route) ==
    /\ route.kind = "object"
    /\ {"name", "inputTopic", "outputTopic"} \subseteq DOMAIN route.fields
    /\ \A key \in {"name", "inputTopic", "outputTopic"} : route.fields[key].kind = "string"
    /\ \A key \in {"inputTopic", "outputTopic"} :
          LET levels == route.fields[key].levels
          IN  IF levels = <<"", "">> THEN TRUE
              ELSE Len(levels) > 0 /\ levels[1] # "" /\ levels[Len(levels)] # ""
    /\ "streamTransformers" \in DOMAIN route.fields =>
          /\ route.fields["streamTransformers"].kind = "array"
          /\ \A i \in DOMAIN route.fields["streamTransformers"].elements :
                ConformsToSchema(route.fields["streamTransformers"].elements[i])

(* Every phase holds what it should, there is a client from the second one *)
(* on, and the indices are unsigned numbers, whatever was configured.      *)
TypeOK ==
    /\ phase \in {"start", "routes", "nextRoute", "inRoute", "noRoutes", "relaying", "failed",
                 "killed"}
    /\ Len(client) <= 1 /\ (phase \in {"start", "failed", "killed"} \/ client # << >>)
    /\ \A i \in DOMAIN client : client[i].keepAliveInterval \in IntRange \cup {60}
    /\ phase = "inRoute" => Len(properties.streamTransformers) <= Len(TransformerList)
    /\ \A topic \in DOMAIN routes : \A i \in DOMAIN routes[topic] :
          \A t \in Range(routes[topic][i].streamTransformers) :
             /\ t.type \in {"topicToTopic", "topicToPayload"} =>
                   t.from \in 0 .. LongSize - 1
             /\ t.type \in {"topicToTopic", "payloadToTopic"} =>
                   t.to \in 0 .. LongSize - 1
    /\ error \in {"none", "initialization", "json"}
    /\ exited \in {"no", "success", "failure", "killed"}

(* The threads start only on a configuration all of whose routes and       *)
(* transformers conform, and one such is never rejected: wherever in a list*)
(* the fault is, and although two of the checks are made by different code.*)
AcceptedIffConforming ==
    /\ phase \in {"relaying", "noRoutes"} =>
          \A i \in DOMAIN RouteList : RouteConforms(RouteList[i])
    /\ (phase = "failed" /\ client # << >> /\ Has(config, "routes", "array")) =>
          \E i \in DOMAIN RouteList : ~RouteConforms(RouteList[i])

(* The threads work on the routes of the document: for each input topic    *)
(* those that name it, in their order, with all their transformers.  An    *)
(* index that an int does not hold stands for the one of the int's range   *)
(* that differs from it by a multiple of IntSize, and when this is negative*)
(* for one beyond every topic.                                             *)
StandsFor(index, number) ==
    \E held \in IntRange :
        /\ \E n \in 0..number + 1 : number = held + IntSize * n
        /\ index = IF held < 0 THEN LongSize + held ELSE held
SameTransformer(t, json) ==
    /\ t.type = json.fields["type"].text
    /\ \A key \in {"from", "to"} :
          IF json.fields[key].kind = "unsigned"
          THEN StandsFor(t[key], json.fields[key].number)
          ELSE t[key] = json.fields[key].text
SameRoute(p, route) ==
    LET transformers == IF "streamTransformers" \in DOMAIN route.fields
                        THEN route.fields["streamTransformers"].elements ELSE << >>
    IN  /\ p.outputTopic = route.fields["outputTopic"].levels
        /\ Len(p.streamTransformers) = Len(transformers)
        /\ \A i \in DOMAIN transformers :
              SameTransformer(p.streamTransformers[i], transformers[i])
Naming(topic) == {i \in DOMAIN RouteList : RouteList[i].fields["inputTopic"].levels = topic}
RoutesAsConfigured ==
    phase \in {"relaying", "noRoutes"} =>
        /\ DOMAIN routes = {RouteList[i].fields["inputTopic"].levels : i \in DOMAIN RouteList}
        /\ \A t \in DOMAIN routes :
              \E place \in [DOMAIN routes[t] -> Naming(t)] :
                 /\ Range(place) = Naming(t)
                 /\ \A i, j \in DOMAIN routes[t] : i < j => place[i] < place[j]
                 /\ \A i \in DOMAIN routes[t] : SameRoute(routes[t][i], RouteList[place[i]])

(* The client is made with the ssl options exactly when the document says  *)
(* ssl: this is inferred from the stores, of which none may be missing then*)
(* and which are not looked at otherwise.                                  *)
SslOptionsAsConfigured ==
    phase \in {"relaying", "noRoutes"} =>
        (client[1].hasSslOptions <=> config.fields["ssl"].truth)

(* "with ssl": a client made with the ssl options connects with TLS.       *)
SslMeansTls ==
    \A i \in DOMAIN client :
        client[i].hasSslOptions => ConnectsWithTls(client[i])

(* "No routes have been defined, exiting.": the program then exits.        *)
ExitsWithoutRoutes == (phase = "noRoutes") ~> (exited # "no")
=============================================================================
