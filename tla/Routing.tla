------------------------------ MODULE Routing ------------------------------
(***************************************************************************)
(* What the routes of a TrafficWarden are, and what it means to carry a    *)
(* message along one of them (traffic_warden.h, stream_transformer.h).     *)
(*                                                                         *)
(* Topics, payloads and stream transformers are opaque values: the         *)
(* pipeline copies them and hands them to execute(), it never looks inside.*)
(* The module declares no variable; the abstract service (Relay) and the   *)
(* threads that provide it (TrafficWarden) both extend it.                 *)
(***************************************************************************)
EXTENDS Naturals, Sequences

CONSTANTS
    Topic,          \* topics, with or without a route
    Payload,        \* JSON documents
    Transformer,    \* configured stream transformers
    Routes,         \* m_routes: input topic -> list of route properties
    Execute(_, _, _, _, _)
        \* StreamTransformer::execute(transformer, input topic,
        \* input payload, output topic, output payload)

RouteProperties == [outputTopic: Topic, streamTransformers: Seq(Transformer)]

(* How a call of execute() ends: "done" (it returned, the outputs are      *)
(* updated), "skipped" (it threw the StreamTransformerExecutionException   *)
(* that transform() catches) or "thrown" (any other exception, which       *)
(* nobody catches).                                                        *)
ExecuteResult == [outcome: {"done", "skipped", "thrown"},
                  topic: Topic, payload: Payload]

ASSUME RoutesAssumption ==
    /\ DOMAIN Routes \subseteq Topic
    /\ \A t \in DOMAIN Routes : Routes[t] \in Seq(RouteProperties)

ASSUME ExecuteAssumption ==
    \A s \in Transformer, it, ot \in Topic, ip, op \in Payload :
        Execute(s, it, ip, ot, op) \in ExecuteResult

-----------------------------------------------------------------------------
(* m_routes.find(topic): the routes of a topic, none if it is not a key.   *)
RoutesOf(t) == IF t \in DOMAIN Routes THEN Routes[t] ELSE << >>

(* A token names one delivery the program owes: message number origin,     *)
(* which arrived on topic from, along route number route of that topic.    *)
StreamTransformersOf(token) ==
    RoutesOf(token.from)[token.route].streamTransformers

(* A route without stream transformers goes straight to the publisher      *)
(* thread, any other one through the transformer thread: the two lanes.    *)
Direct(token) == StreamTransformersOf(token) = << >>
SameLane(a, b) == Direct(a) <=> Direct(b)

(* The order in which ingest() hands the tokens over.                      *)
Precedes(a, b) ==
    \/ a.origin < b.origin
    \/ a.origin = b.origin /\ a.route < b.route

-----------------------------------------------------------------------------
(* The output of the chain of stream transformers: the output topic and    *)
(* payload are updated in place; the inputs stay the message as it arrived.*)
Output == [topic: Topic, payload: Payload]

(* The transformer threw nothing that transform() does not catch.          *)
Survives(s, it, ip, out) ==
    Execute(s, it, ip, out.topic, out.payload).outcome # "thrown"

(* A failed ("skipped") transformer leaves the outputs as they were and    *)
(* the chain goes on with the next one.                                    *)
Transformed(s, it, ip, out) ==
    LET result == Execute(s, it, ip, out.topic, out.payload)
    IN  IF result.outcome = "done"
        THEN [topic |-> result.topic, payload |-> result.payload]
        ELSE out

(* steps are the outputs after each transformer of a whole run of chain.   *)
IsChainRun(steps, chain, it, ip, initial) ==
    \A i \in DOMAIN chain :
        LET before == IF i = 1 THEN initial ELSE steps[i - 1]
        IN  /\ Survives(chain[i], it, ip, before)
            /\ steps[i] = Transformed(chain[i], it, ip, before)

(* What carrying a message (it, ip) along a route may put in its output:   *)
(* one value, none if a transformer throws.                                *)
ChainOutputs(route, it, ip) ==
    LET chain == route.streamTransformers
        initial == [topic |-> route.outputTopic, payload |-> ip]
        runs == {steps \in [DOMAIN chain -> Output] :
                    IsChainRun(steps, chain, it, ip, initial)}
    IN  IF chain = << >> THEN {initial} ELSE {steps[Len(chain)] : steps \in runs}
=============================================================================
