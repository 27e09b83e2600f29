----------------------------- MODULE MCFeedback -----------------------------
(* "a" leads to "b" directly and through a transformer, "b" to "c" through *)
(* one that copies a topic on one payload and throws on none; "c" has no   *)
(* route, as the last topic of every way must not.                         *)
EXTENDS Feedback

MCTopic == {"a", "b", "c"}
MCPayload == {"p", "q"}
MCTransformer == {"flip", "toEnd"}
Route(outputTopic, chain) == [outputTopic |-> outputTopic, streamTransformers |-> chain]
MCRoutes ==
    [t \in {"a", "b"} |->
        IF t = "a" THEN <<Route("b", << >>), Route("b", <<"toEnd", "flip">>)>>
        ELSE <<Route("c", <<"flip">>)>>]
(* flip: the other payload; toEnd: with payload q, the topic becomes "c".  *)
MCExecute(s, it, ip, ot, op) ==
    IF s = "flip"
    THEN [outcome |-> "done", topic |-> ot, payload |-> IF op = "p" THEN "q" ELSE "p"]
    ELSE [outcome |-> IF ip = "q" THEN "done" ELSE "skipped", topic |-> "c", payload |-> op]
MCVisits == [t \in {"a", "b"} |-> IF t = "a" THEN 3 ELSE 1]
=============================================================================
