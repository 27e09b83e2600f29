-------------------------- MODULE MCTrafficWarden --------------------------
(* A small TrafficWarden: two routed topics, one with a direct and a       *)
(* transformed route, and transformers that succeed, fail and throw.       *)
EXTENDS TrafficWarden

MCTopic == {"in", "aux", "out"}
MCPayload == {"p", "q"}
MCTransformer == {"flip", "copyTopic", "fussy"}

(* "aux" shares no route with "in"; "out" has none, like a message that    *)
(* only matched a wildcard subscription.                                   *)
MCRoutes ==
    [t \in {"in", "aux"} |->
        IF t = "in"
        THEN <<[outputTopic |-> "out", streamTransformers |-> <<"flip", "copyTopic">>],
               [outputTopic |-> "out", streamTransformers |-> << >>]>>
        ELSE <<[outputTopic |-> "in", streamTransformers |-> <<"fussy">>]>>]

(* flip: the other payload; copyTopic: the output topic becomes the input  *)
(* topic, unless the input payload is q (skipped); fussy: throws on q.     *)
MCExecute(s, it, ip, ot, op) ==
    CASE s = "flip" ->
            [outcome |-> "done", topic |-> ot,
             payload |-> IF op = "p" THEN "q" ELSE "p"]
      [] s = "copyTopic" ->
            [outcome |-> IF ip = "q" THEN "skipped" ELSE "done",
             topic |-> it, payload |-> op]
      [] s = "fussy" ->
            [outcome |-> IF ip = "q" THEN "thrown" ELSE "done",
             topic |-> ot, payload |-> "q"]
=============================================================================
