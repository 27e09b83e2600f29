--------------------------- MODULE TransformChain ---------------------------
(***************************************************************************)
(* The loop of TrafficWarden::transform over the stream transformers of    *)
(* one item, with the four transformers of the program: each reads the     *)
(* message as it arrived and changes the output topic and payload in       *)
(* place, on top of what those before it have done.                        *)
(***************************************************************************)
EXTENDS StreamTransformers, FiniteSetsExt

CONSTANTS
    Chains,         \* the lists of transformers to run
    Messages,       \* the messages to run them on
    OutputTopics    \* the output topics of the routes

ASSUME ChainsAssumption == Chains \subseteq Seq(Transformers)
ASSUME MessagesAssumption ==
    \A m \in Messages : m.topic \in TopicName /\ m.payload \in Document
ASSUME OutputTopicsAssumption == OutputTopics \subseteq TopicName

VARIABLES
    chain,      \* l_streamTransformers
    message,    \* l_inputTopic and l_inputPayload
    configured, \* the output topic of the route
    topic,      \* l_outputTopic
    payload,    \* l_outputPayload
    outcomes,   \* history: how the transformers ended so far
    status      \* "running", "pushed" on the outgoing queue, or "terminated"
vars == <<chain, message, configured, topic, payload, outcomes, status>>

Init ==
    /\ chain \in Chains
    /\ message \in Messages
    /\ configured \in OutputTopics
    /\ topic = configured
    /\ payload = message.payload
    /\ outcomes = << >>
    /\ status = "running"

(* it_streamTransformer: the transformer whose turn it is.                *)
Current == chain[Len(outcomes) + 1]

(* One iteration: an execution error is logged and leaves the outputs to   *)
(* the next transformer; another exception ends the process.               *)
StatusAfter_StopsOnError(outcome) ==
    IF outcome = "done" THEN "running" ELSE "terminated"
StatusAfter(outcome) == IF outcome = "thrown" THEN "terminated" ELSE "running"
Step ==
    /\ status = "running"
    /\ Len(outcomes) < Len(chain)
    /\ LET result == ExecuteTransformer(Current, message.topic, message.payload,
                                        topic, payload)
       IN  /\ topic' = result.topic
           /\ payload' = result.payload
           /\ outcomes' = Append(outcomes, result.outcome)
           /\ status' = StatusAfter(result.outcome)
    /\ UNCHANGED <<chain, message, configured>>

Push ==
    /\ status = "running"
    /\ Len(outcomes) = Len(chain)
    /\ status' = "pushed"
    /\ UNCHANGED <<chain, message, configured, topic, payload, outcomes>>

Next == Step \/ Push
Spec == Init /\ [][Next]_vars

-----------------------------------------------------------------------------
(* The chain, the message and the outputs are of their kinds.              *)
TypeOK ==
    /\ chain \in Chains /\ message \in Messages /\ configured \in OutputTopics
    /\ topic \in TopicName
    /\ payload \in Document
    /\ outcomes \in Seq({"done", "skipped", "thrown"}) /\ Len(outcomes) <= Len(chain)
    /\ status \in {"running", "pushed", "terminated"}

(* A chain cannot terminate the process on a payload that is an object and *)
(* has every key that a payloadToPayload transformer of the chain reads:   *)
(* whatever the transformers before it have erased or converted.           *)
HasWhatChainReads ==
    /\ message.payload.kind = "object"
    /\ \A i \in DOMAIN chain :
          chain[i].type = "payloadToPayload" => HasField(message.payload, chain[i].from)
NeverTerminatesOnExpectedPayload == HasWhatChainReads => status # "terminated"

(* The reference for the payload.  The last transformer that concerns a    *)
(* key decides it, and what it puts there is made of the message as it     *)
(* arrived.                                                                *)
SourceOf(t) ==
    IF t.type = "topicToPayload"
    THEN String(message.topic[t.from + 1])
    ELSE message.payload.fields[t.from]
Converted(value, as) ==
    CASE as = "unknown" -> value
      [] as = "string" -> String(value.text)
      [] as = "number" -> AsNumber(value.text)
      [] as = "boolean" -> Boolean(value.text)
Erases(t, key) ==
    t.type \in {"payloadToTopic", "payloadToPayload"} /\ t.from = key /\ ~t.keep
Writes(t, key) ==
    /\ t.type \in {"topicToPayload", "payloadToPayload"}
    /\ t.to = key
    /\ ~Erases(t, key)
    /\ t.as = "boolean" => IsBool(SourceOf(t).text)
Concerning(key) ==
    {i \in DOMAIN outcomes :
        outcomes[i] = "done" /\ (Writes(chain[i], key) \/ Erases(chain[i], key))}
FieldsAfter(key) ==
    IF Concerning(key) = {}
    THEN IF HasField(message.payload, key) THEN {message.payload.fields[key]} ELSE {}
    ELSE LET t == chain[Max(Concerning(key))]
         IN  IF Erases(t, key) THEN {} ELSE {Converted(SourceOf(t), t.as)}
FieldOf(document, key) == IF HasField(document, key) THEN {document.fields[key]} ELSE {}
LastTransformerDecides == \A key \in Key : FieldOf(payload, key) = FieldsAfter(key)

(* The output topic is the configured one with levels put in: no           *)
(* transformer takes a level away or changes the order of those there are, *)
(* and each that succeeds puts in what it read.                            *)
LevelsPutIn(t) ==
    CASE t.type = "topicToTopic" -> <<message.topic[t.from + 1]>>
      [] t.type = "payloadToTopic" -> LevelsOf(PrintedText(message.payload.fields[t.from]))
      [] OTHER -> << >>
IsSubsequence(s, t) ==
    \E place \in [DOMAIN s -> DOMAIN t] :
        /\ \A i \in DOMAIN s : s[i] = t[place[i]]
        /\ \A i, j \in DOMAIN s : i < j => place[i] < place[j]
TopicOnlyGrows ==
    /\ IsSubsequence(configured, topic)
    /\ \A i \in DOMAIN outcomes :
          outcomes[i] = "done" => IsSubsequence(LevelsPutIn(chain[i]), topic)
=============================================================================
