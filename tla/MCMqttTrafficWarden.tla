------------------------ MODULE MCMqttTrafficWarden ------------------------
(* One plain input topic with a transformed route, and one wildcard topic, *)
(* whose subscription matches only a topic that has no route: what arrives *)
(* through it is dropped.                                                  *)
EXTENDS MqttTrafficWarden

MCTopic == {"in", "any/#", "any/1", "out"}
MCPayload == {"p"}
MCTransformer == {"toInput"}
MCRoutes ==
    [t \in {"in", "any/#"} |->
        IF t = "in"
        THEN <<[outputTopic |-> "out", streamTransformers |-> <<"toInput">>]>>
        ELSE <<[outputTopic |-> "out", streamTransformers |-> << >>]>>]
MCTopicList == <<"in", "any/#">>
MCMatching == [t \in {"in", "any/#"} |-> IF t = "in" THEN {"in"} ELSE {"any/1"}]

(* The output topic becomes the input topic.                               *)
MCExecute(s, it, ip, ot, op) == [outcome |-> "done", topic |-> it, payload |-> op]
=============================================================================
