------------------------ MODULE TransformChain_proofs ------------------------
(***************************************************************************)
(* What the stream transformers of one item make of it, for all chains,    *)
(* messages and output topics and whatever the conversions between texts   *)
(* and values are: the kinds, what terminates the process, what ends up in *)
(* the payload and what in the topic.                                      *)
(***************************************************************************)
EXTENDS TransformChain, TLAPS

(* What execute() of the transformer whose turn it is returns or throws.   *)
Result == ExecuteTransformer(Current, message.topic, message.payload, topic, payload)

(* It is a step of the loop that is considered.                            *)
Turn == TypeOK /\ status = "running" /\ Len(outcomes) < Len(chain)

-----------------------------------------------------------------------------
(* The transformer whose turn it is is one of the chain.                   *)
LEMMA CurrentIsTransformer ==
    ASSUME Turn
    PROVE  /\ chain \in Seq(Transformers) /\ Len(outcomes) + 1 \in DOMAIN chain
           /\ Current \in Transformers
<1>1. chain \in Seq(Transformers)
  BY ChainsAssumption DEF Turn, TypeOK
<1>2. Len(outcomes) \in Nat /\ Len(outcomes) + 1 \in 1..Len(chain)
  BY <1>1 DEF Turn, TypeOK
<1> QED BY <1>1, <1>2 DEF Current

(* The message is a topic and a document.                                  *)
LEMMA MessageKinds ==
    ASSUME TypeOK
    PROVE  message.topic \in TopicName /\ message.payload \in Document
BY MessagesAssumption DEF TypeOK

(* The value of a field of a document.                                     *)
LEMMA FieldIsValue ==
    ASSUME NEW document \in Document, NEW key, HasField(document, key)
    PROVE  key \in Key /\ document.fields[key] \in Value
<1>1. document \in Object
  BY DEF Document, NonObject, HasField
<1>2. PICK keys \in SUBSET Key : document.fields \in [keys -> Value]
  BY <1>1 DEF Object
<1> QED BY <1>2 DEF HasField

(* An assignment to a key makes a document of a document.                  *)
LEMMA WithFieldIsDocument ==
    ASSUME NEW document \in Document, Assignable(document), NEW key \in Key, NEW value \in Value
    PROVE  WithField(document, key, value) \in Object
<1>1. PICK keys \in SUBSET Key : document.fields \in [keys -> Value]
  <2>1. CASE document \in Object
    BY <2>1 DEF Object
  <2>2. CASE document \in NonObject
    <3>1. document.fields = << >>
      BY <2>2 DEF NonObject
    <3> QED BY <3>1
  <2> QED BY <2>1, <2>2 DEF Document
<1>2. (keys \cup {key}) \in SUBSET Key
  OBVIOUS
<1>3. WithField(document, key, value).fields \in [keys \cup {key} -> Value]
  BY <1>1 DEF WithField
<1> QED BY <1>2, <1>3 DEF WithField, Object

(* erase() makes a document of a document.                                 *)
LEMMA WithoutFieldIsDocument ==
    ASSUME NEW document \in Object, NEW key
    PROVE  WithoutField(document, key) \in Object
<1>1. PICK keys \in SUBSET Key : document.fields \in [keys -> Value]
  BY DEF Object
<1>2. (keys \ {key}) \in SUBSET Key
  OBVIOUS
<1>3. WithoutField(document, key).fields \in [keys \ {key} -> Value]
  BY <1>1 DEF WithoutField
<1> QED BY <1>2, <1>3 DEF WithoutField, Object

(* Levels put in a topic make a topic.                                     *)
LEMMA InsertIsTopic ==
    ASSUME NEW t \in TopicName, NEW index \in Nat, NEW levels \in TopicName
    PROVE  Insert(t, index, levels) \in TopicName
BY DEF Insert, TopicName

(* What a topic level or a field becomes in a payload is a value.          *)
LEMMA ConvertedIsValue ==
    ASSUME NEW value \in Value, NEW as \in AsTypes,
           as = "number" => IsNumber(value.text),
           as = "boolean" => IsBool(value.text)
    PROVE  Converted(value, as) \in Value
<1>1. value.text \in Text
  BY DEF Value
<1>2. CASE as = "unknown"
  BY <1>2 DEF Converted
<1>3. CASE as = "string"
  BY <1>1, <1>3 DEF Converted, String, Value
<1>4. CASE as = "number"
  <2>1. AsNumber(value.text).text \in Text /\ AsNumber(value.text).kind = "number"
    BY <1>1, <1>4, ConversionsAssumption DEF AsNumber
  <2> QED BY <1>4, <2>1 DEF Converted, Value, AsNumber
<1>5. CASE as = "boolean"
  BY <1>1, <1>5, ConversionsAssumption DEF Converted, Boolean, Value
<1> QED BY <1>2, <1>3, <1>4, <1>5 DEF AsTypes

-----------------------------------------------------------------------------
(* The ways execute() ends.  It leaves the outputs alone when it throws    *)
(* and, of a level that should be a boolean and is not, when it returns.   *)
LeavesAlone ==
    \/ Result = Skipped(topic, payload)
    \/ /\ Result = Thrown(topic, payload)
       /\ ~Assignable(payload) \/ (Current.type = "payloadToPayload" /\
                                     ~HasField(message.payload, Current.from))
    \/ /\ Result = Done(topic, payload)
       /\ Current.type = "topicToPayload"
       /\ \A key : ~Writes(Current, key)
FillsTopic ==
    /\ Current.type \in {"topicToTopic", "payloadToTopic"}
    /\ LevelsPutIn(Current) \in TopicName
    /\ Result = Done(Insert(topic, Current.to, LevelsPutIn(Current)),
                     IF Current.type = "payloadToTopic" /\ HasField(payload, Current.from)
                     THEN Finished(Current.keep, payload, Current.from) ELSE payload)
FillsPayload ==
    /\ Current.type \in {"topicToPayload", "payloadToPayload"}
    /\ Assignable(payload)
    /\ Converted(SourceOf(Current), Current.as) \in Value
    /\ Current.as = "boolean" => IsBool(SourceOf(Current).text)
    /\ Result = Done(topic,
                     LET filled == WithField(payload, Current.to,
                                             Converted(SourceOf(Current), Current.as))
                     IN  IF Current.type = "topicToPayload" THEN filled
                         ELSE Finished(Current.keep, filled, Current.from))

(* A topicToTopic transformer skips or puts a level of the message's topic *)
(* in the output topic.                                                    *)
LEMMA ResultOfTopicToTopic ==
    ASSUME Turn, Current.type = "topicToTopic"
    PROVE  LeavesAlone \/ FillsTopic
<1>1. Current.from \in Nat
  BY CurrentIsTransformer DEF Transformers, Index
<1>2. Result = TopicToTopic(Current, message.topic, message.payload, topic, payload)
  BY DEF Result, ExecuteTransformer
<1>3. message.topic \in Seq(Text)
  BY MessageKinds DEF Turn, TopicName
<1>4. CASE Len(message.topic) <= Current.from
  BY <1>2, <1>4 DEF TopicToTopic, LeavesAlone
<1>5. CASE ~(Len(message.topic) <= Current.from)
  <2>1. message.topic[Current.from + 1] \in Text
    BY <1>1, <1>3, <1>5
  <2>2. LevelsPutIn(Current) = <<message.topic[Current.from + 1]>>
    BY DEF LevelsPutIn
  <2>3. LevelsPutIn(Current) \in TopicName
    BY <2>1, <2>2 DEF TopicName
  <2> QED BY <1>2, <1>5, <2>2, <2>3 DEF TopicToTopic, FillsTopic
<1> QED BY <1>4, <1>5

(* A topicToPayload transformer skips, throws, or puts a level of the      *)
(* message's topic in the payload; or it returns without doing so.         *)
LEMMA ResultOfTopicToPayload ==
    ASSUME Turn, Current.type = "topicToPayload"
    PROVE  LeavesAlone \/ FillsPayload
<1> DEFINE level == message.topic[Current.from + 1]
<1>1. Current.from \in Nat /\ Current.as \in AsTypes
  BY CurrentIsTransformer DEF Transformers, Index
<1>2. Result = TopicToPayload(Current, message.topic, message.payload, topic, payload)
  BY DEF Result, ExecuteTransformer
<1>3. message.topic \in Seq(Text)
  BY MessageKinds DEF Turn, TopicName
<1>4. SourceOf(Current) = String(level) /\ SourceOf(Current).text = level
  BY DEF SourceOf, String
<1>5. CASE Len(message.topic) <= Current.from
  BY <1>2, <1>5 DEF TopicToPayload, LeavesAlone
<1>6. CASE ~(Len(message.topic) <= Current.from)
  <2>1. level \in Text
    BY <1>1, <1>3, <1>6
  <2>2. SourceOf(Current) \in Value
    BY <1>4, <2>1 DEF String, Value
  <2>3. CASE Current.as = "number" /\ ~IsNumber(level)
    BY <1>2, <1>6, <2>3 DEF TopicToPayload, LeavesAlone
  <2>4. CASE Current.as = "boolean" /\ ~IsBool(level)
    <3>1. Result = Done(topic, payload)
      BY <1>2, <1>6, <2>4 DEF TopicToPayload
    <3>2. \A key : ~Writes(Current, key)
      BY <1>4, <2>4 DEF Writes
    <3> QED BY <3>1, <3>2 DEF LeavesAlone
  <2>5. CASE /\ Current.as = "number" => IsNumber(level)
             /\ Current.as = "boolean" => IsBool(level)
    <3>1. Converted(SourceOf(Current), Current.as) \in Value
      BY <1>1, <1>4, <2>2, <2>5, ConvertedIsValue
    <3>2. CASE ~Assignable(payload)
      BY <1>1, <1>2, <1>6, <2>5, <3>2 DEF TopicToPayload, LeavesAlone, AsTypes
    <3>3. CASE Assignable(payload)
      <4>1. Result = Done(topic, WithField(payload, Current.to,
                                           Converted(SourceOf(Current), Current.as)))
        BY <1>1, <1>2, <1>4, <1>6, <2>5, <3>3 DEF TopicToPayload, Converted, AsTypes
      <4> QED BY <1>4, <2>5, <3>1, <3>3, <4>1 DEF FillsPayload
    <3> QED BY <3>2, <3>3
  <2> QED BY <2>3, <2>4, <2>5
<1> QED BY <1>5, <1>6

(* What a payloadToTopic transformer reads becomes levels.                 *)
LEMMA ResultOfPayloadToTopic ==
    ASSUME Turn, Current.type = "payloadToTopic"
    PROVE  LeavesAlone \/ FillsTopic
<1> DEFINE value == message.payload.fields[Current.from]
<1>1. Result = PayloadToTopic(Current, message.topic, message.payload, topic, payload)
  BY DEF Result, ExecuteTransformer
<1>2. CASE ~HasField(message.payload, Current.from) \/ ~Printable(value)
  BY <1>1, <1>2 DEF PayloadToTopic, LeavesAlone
<1>3. CASE HasField(message.payload, Current.from) /\ Printable(value)
  <2>1. value \in Value
    BY <1>3, MessageKinds, FieldIsValue DEF Turn
  <2>2. LevelsPutIn(Current) = LevelsOf(PrintedText(value))
    BY DEF LevelsPutIn
  <2>3. LevelsPutIn(Current) \in TopicName
    BY <1>3, <2>1, <2>2, ConversionsAssumption DEF TopicName
  <2>4. Result = Done(Insert(topic, Current.to, LevelsPutIn(Current)),
                      IF HasField(payload, Current.from)
                      THEN Finished(Current.keep, payload, Current.from) ELSE payload)
    BY <1>1, <1>3, <2>2 DEF PayloadToTopic
  <2> QED BY <2>3, <2>4 DEF FillsTopic
<1> QED BY <1>2, <1>3

(* A payloadToPayload transformer throws, skips what does not convert, or  *)
(* puts a field of the message's payload in the output payload.            *)
LEMMA ResultOfPayloadToPayload ==
    ASSUME Turn, Current.type = "payloadToPayload"
    PROVE  LeavesAlone \/ FillsPayload
<1> DEFINE value == message.payload.fields[Current.from]
<1>1. Current.as \in AsTypes
  BY CurrentIsTransformer DEF Transformers, Index
<1>2. Result = PayloadToPayload(Current, message.topic, message.payload, topic, payload)
  BY DEF Result, ExecuteTransformer
<1>3. SourceOf(Current) = value
  BY DEF SourceOf
<1>4. CASE ~HasField(message.payload, Current.from)
  BY <1>2, <1>4 DEF PayloadToPayload, LeavesAlone
<1>5. CASE HasField(message.payload, Current.from)
  <2>1. value \in Value
    BY <1>5, MessageKinds, FieldIsValue DEF Turn
  <2>2. CASE \/ Current.as = "number" /\ ~IsNumber(value.text)
             \/ Current.as = "boolean" /\ ~IsBool(value.text)
    BY <1>2, <1>5, <2>2 DEF PayloadToPayload, LeavesAlone
  <2>3. CASE /\ Current.as = "number" => IsNumber(value.text)
             /\ Current.as = "boolean" => IsBool(value.text)
    <3>1. Converted(SourceOf(Current), Current.as) \in Value
      BY <1>1, <1>3, <2>1, <2>3, ConvertedIsValue
    <3>2. CASE ~Assignable(payload)
      BY <1>1, <1>2, <1>5, <2>3, <3>2 DEF PayloadToPayload, LeavesAlone, AsTypes
    <3>3. CASE Assignable(payload)
      <4>1. Result = Done(topic, Finished(Current.keep,
                          WithField(payload, Current.to,
                                    Converted(SourceOf(Current), Current.as)),
                          Current.from))
        BY <1>1, <1>2, <1>3, <1>5, <2>3, <3>3 DEF PayloadToPayload, Converted, AsTypes
      <4> QED BY <1>3, <2>3, <3>1, <3>3, <4>1 DEF FillsPayload
    <3> QED BY <3>2, <3>3
  <2> QED BY <2>2, <2>3
<1> QED BY <1>4, <1>5

(* execute() leaves the outputs alone, fills the topic (and may erase a    *)
(* field) or fills the payload, whichever transformer it is of.            *)
LEMMA Results ==
    ASSUME Turn
    PROVE  LeavesAlone \/ FillsTopic \/ FillsPayload
<1>1. Current.type \in {"topicToTopic", "topicToPayload", "payloadToTopic", "payloadToPayload"}
  BY CurrentIsTransformer DEF Transformers
<1> QED BY <1>1, ResultOfTopicToTopic, ResultOfTopicToPayload, ResultOfPayloadToTopic,
           ResultOfPayloadToPayload

-----------------------------------------------------------------------------
(* What execute() leaves are a topic and a document.                       *)
LEMMA ResultKinds ==
    ASSUME Turn
    PROVE  /\ Result.topic \in TopicName
           /\ Result.payload \in Document
           /\ Result.outcome \in {"done", "skipped", "thrown"}
<1>1. topic \in TopicName /\ payload \in Document
  BY DEF Turn, TypeOK
<1>2. CASE LeavesAlone
  BY <1>1, <1>2 DEF LeavesAlone, Done, Skipped, Thrown
<1>3. CASE FillsTopic
  <2>1. Current.to \in Nat
    BY <1>3, CurrentIsTransformer DEF FillsTopic, Transformers, Index
  <2>2. Insert(topic, Current.to, LevelsPutIn(Current)) \in TopicName
    BY <1>1, <1>3, <2>1, InsertIsTopic DEF FillsTopic
  <2>3. ASSUME HasField(payload, Current.from)
        PROVE  Finished(Current.keep, payload, Current.from) \in Document
    <3>1. payload \in Object
      BY <1>1, <2>3 DEF HasField, Document, NonObject
    <3> QED BY <1>1, <3>1, WithoutFieldIsDocument DEF Finished, Document
  <2> QED BY <1>1, <1>3, <2>2, <2>3 DEF FillsTopic, Done
<1>4. CASE FillsPayload
  <2> DEFINE filled == WithField(payload, Current.to, Converted(SourceOf(Current), Current.as))
  <2>1. Current.to \in Key
    BY <1>4, CurrentIsTransformer DEF FillsPayload, Transformers
  <2>2. filled \in Object
    BY <1>1, <1>4, <2>1, WithFieldIsDocument DEF FillsPayload
  <2>3. Finished(Current.keep, filled, Current.from) \in Object
    BY <2>2, WithoutFieldIsDocument DEF Finished
  <2> HIDE DEF filled
  <2> QED BY <1>1, <1>4, <2>2, <2>3 DEF FillsPayload, Done, Document, filled
<1> QED BY <1>2, <1>3, <1>4, Results

(* A step of the loop, or a stutter, keeps the kinds.                      *)
LEMMA TypeStep ==
    ASSUME TypeOK, [Next]_vars
    PROVE  TypeOK'
<1>1. CASE Step
  <2>1. Turn
    BY <1>1 DEF Step, Turn
  <2>2. /\ topic' = Result.topic /\ payload' = Result.payload
        /\ outcomes' = Append(outcomes, Result.outcome)
        /\ status' = StatusAfter(Result.outcome)
        /\ UNCHANGED <<chain, message, configured>>
    BY <1>1 DEF Step, Result
  <2>3. /\ outcomes' \in Seq({"done", "skipped", "thrown"})
        /\ Len(outcomes') = Len(outcomes) + 1
    BY <2>2, ResultKinds, <2>1 DEF TypeOK
  <2>4. Len(outcomes') <= Len(chain')
    BY <2>1, <2>2, <2>3, CurrentIsTransformer DEF Turn, TypeOK
  <2>5. topic' \in TopicName /\ payload' \in Document
    BY <2>1, <2>2, ResultKinds
  <2>6. status' \in {"running", "pushed", "terminated"}
    BY <2>2 DEF StatusAfter
  <2> QED BY <2>2, <2>3, <2>4, <2>5, <2>6 DEF TypeOK
<1>2. CASE Push
  BY <1>2 DEF Push, TypeOK
<1>3. CASE UNCHANGED vars
  BY <1>3 DEF vars, TypeOK
<1> QED BY <1>1, <1>2, <1>3 DEF Next

(* At the start the payload is the message's and nothing has been executed.*)
LEMMA TypeInit ==
    ASSUME Init
    PROVE  TypeOK
<1>1. chain \in Seq(Transformers)
  BY ChainsAssumption DEF Init
<1> QED BY <1>1, MessagesAssumption, OutputTopicsAssumption DEF Init, TypeOK

(* The kinds: however the transformers of a chain interfere, what they     *)
(* leave behind is a topic and a document.                                 *)
THEOREM ChainTypeCorrect == Spec => []TypeOK
<1>1. Init => TypeOK
  BY TypeInit
<1>2. TypeOK /\ [Next]_vars => TypeOK'
  BY TypeStep
<1> QED BY <1>1, <1>2, PTL DEF Spec

-----------------------------------------------------------------------------
(* A step of the loop, in the terms of the lemmas.                         *)
LEMMA StepIsTurn ==
    ASSUME TypeOK, Step
    PROVE  /\ Turn
           /\ topic' = Result.topic /\ payload' = Result.payload
           /\ outcomes' = Append(outcomes, Result.outcome)
           /\ status' = StatusAfter(Result.outcome)
           /\ chain' = chain /\ message' = message /\ configured' = configured
BY DEF Step, Turn, Result

(* What keeps the process alive: on a payload that has what the chain      *)
(* reads, the output payload is an object after every step.                *)
ObjectInv == HasWhatChainReads => status # "terminated" /\ payload.kind = "object"

(* A step leaves an object, which nothing can fail to be assigned to.      *)
LEMMA ObjectStep ==
    ASSUME TypeOK, ObjectInv, [Next]_vars
    PROVE  ObjectInv'
<1> SUFFICES ASSUME HasWhatChainReads'
             PROVE  status' # "terminated" /\ payload'.kind = "object"
  BY DEF ObjectInv
<1>1. CASE Step
  <2>1. HasWhatChainReads /\ payload.kind = "object"
    BY <1>1, StepIsTurn DEF HasWhatChainReads, ObjectInv, HasField
  <2>2. CASE LeavesAlone
    <3>1. Current.type = "payloadToPayload" => HasField(message.payload, Current.from)
      BY <1>1, <2>1, StepIsTurn, CurrentIsTransformer DEF HasWhatChainReads, Current
    <3>2. Assignable(payload)
      BY <2>1 DEF Assignable
    <3>3. Result \in {Skipped(topic, payload), Done(topic, payload)}
      BY <2>2, <3>1, <3>2 DEF LeavesAlone
    <3> QED BY <1>1, <2>1, <3>3, StepIsTurn DEF Skipped, Done, StatusAfter
  <2>3. CASE FillsTopic
    BY <1>1, <2>1, <2>3, StepIsTurn DEF FillsTopic, Done, Finished, WithoutField, StatusAfter
  <2>4. CASE FillsPayload
    BY <1>1, <2>4, StepIsTurn
       DEF FillsPayload, Done, Finished, WithField, WithoutField, StatusAfter
  <2> QED BY <1>1, <2>2, <2>3, <2>4, StepIsTurn, Results
<1>2. CASE Push
  BY <1>2 DEF Push, ObjectInv, HasWhatChainReads, HasField
<1>3. CASE UNCHANGED vars
  BY <1>3 DEF vars, ObjectInv, HasWhatChainReads, HasField
<1> QED BY <1>1, <1>2, <1>3 DEF Next

(* No chain terminates the process on a payload that has the keys its      *)
(* payloadToPayload transformers read, whatever those before have erased.  *)
THEOREM ExpectedPayloadsSurvive == Spec => []NeverTerminatesOnExpectedPayload
<1>1. Init => TypeOK /\ ObjectInv
  BY TypeInit DEF Init, ObjectInv, HasWhatChainReads
<1>2. TypeOK /\ ObjectInv /\ [Next]_vars => (TypeOK /\ ObjectInv)'
  BY TypeStep, ObjectStep
<1>3. ObjectInv => NeverTerminatesOnExpectedPayload
  BY DEF ObjectInv, NeverTerminatesOnExpectedPayload
<1> QED BY <1>1, <1>2, <1>3, PTL DEF Spec

-----------------------------------------------------------------------------
(* The fields after an assignment.                                         *)
LEMMA FieldOfWith ==
    ASSUME NEW document \in Document, Assignable(document), NEW k, NEW value, NEW key
    PROVE  FieldOf(WithField(document, k, value), key) =
               IF key = k THEN {value} ELSE FieldOf(document, key)
<1>1. ~HasField(document, key) => key \notin DOMAIN document.fields
  <2>1. document.kind = "null" => document.fields = << >>
    BY DEF Document, NonObject, Object
  <2>2. DOMAIN << >> = {}
    OBVIOUS
  <2> QED BY <2>1, <2>2 DEF HasField, Assignable
<1> QED BY <1>1 DEF FieldOf, HasField, WithField

(* The fields after an erasure.                                            *)
LEMMA FieldOfWithout ==
    ASSUME NEW document \in Object, NEW k, NEW key
    PROVE  FieldOf(WithoutField(document, k), key) =
               IF key = k THEN {} ELSE FieldOf(document, key)
BY DEF FieldOf, HasField, WithoutField, Object

(* The last of numbers that are followed by the next one.                  *)
LEMMA MaxOfNext ==
    ASSUME NEW n \in Nat, NEW S \in SUBSET (1..n)
    PROVE  Max(S \cup {n + 1}) = n + 1
<1>1. \A y \in S \cup {n + 1} : y \in Int /\ n + 1 >= y
  OBVIOUS
<1>2. \A x \in S \cup {n + 1} :
          (\A y \in S \cup {n + 1} : x >= y) => x = n + 1
  BY <1>1
<1> QED BY <1>1, <1>2 DEF Max

(* The transformer whose turn it is changes what a key is to hold.         *)
Concerns(key) == Writes(Current, key) \/ Erases(Current, key)

(* It joins those that concern the key, if it succeeds and does so.        *)
LEMMA ConcerningStep ==
    ASSUME TypeOK, Step, NEW key
    PROVE  Concerning(key)' =
               Concerning(key) \cup
                   (IF Result.outcome = "done" /\ Concerns(key) THEN {Len(outcomes) + 1} ELSE {})
<1>1. /\ outcomes \in Seq({"done", "skipped", "thrown"})
      /\ outcomes' = Append(outcomes, Result.outcome)
      /\ chain' = chain /\ message' = message
  BY StepIsTurn DEF TypeOK
<1>2. \A t : Writes(t, key)' = Writes(t, key) /\ Erases(t, key)' = Erases(t, key)
  BY <1>1 DEF Writes, Erases, SourceOf
<1>3. /\ DOMAIN outcomes' = DOMAIN outcomes \cup {Len(outcomes) + 1}
      /\ Len(outcomes) + 1 \notin DOMAIN outcomes
      /\ \A i \in DOMAIN outcomes : outcomes'[i] = outcomes[i]
      /\ outcomes'[Len(outcomes) + 1] = Result.outcome
  BY <1>1
<1> DEFINE P(i) == Writes(chain[i], key) \/ Erases(chain[i], key)
<1>4. Concerning(key)' = {i \in DOMAIN outcomes' : outcomes'[i] = "done" /\ P(i)}
  BY <1>1 DEF Concerning, Writes, Erases, SourceOf
<1>5. Concerning(key) = {i \in DOMAIN outcomes : outcomes[i] = "done" /\ P(i)}
  BY DEF Concerning
<1>6. P(Len(outcomes) + 1) <=> Concerns(key)
  BY DEF Concerns, Current
<1> HIDE DEF P
<1> QED BY <1>3, <1>4, <1>5, <1>6

(* Nothing new about a key: the reference keeps what it says of it.        *)
LEMMA FieldsUnconcerned ==
    ASSUME NEW key, chain' = chain, message' = message, Concerning(key)' = Concerning(key)
    PROVE  FieldsAfter(key)' = FieldsAfter(key)
BY DEF FieldsAfter, Erases, SourceOf, Converted, HasField

(* Otherwise the reference follows the transformer whose turn it was.      *)
LEMMA FieldsConcerned ==
    ASSUME TypeOK, Step, NEW key, Result.outcome = "done", Concerns(key)
    PROVE  FieldsAfter(key)' =
               IF Erases(Current, key) THEN {} ELSE {Converted(SourceOf(Current), Current.as)}
<1> DEFINE n == Len(outcomes)
<1>1. n \in Nat /\ DOMAIN outcomes = 1..n
  BY DEF TypeOK
<1>2. Concerning(key) \subseteq 1..n
  BY <1>1 DEF Concerning
<1>3. Concerning(key)' = Concerning(key) \cup {n + 1}
  BY ConcerningStep
<1>4. Max(Concerning(key)') = n + 1 /\ Concerning(key)' # {}
  BY <1>1, <1>2, <1>3, MaxOfNext
<1>5. chain' = chain /\ message' = message /\ Current = chain[n + 1]
  BY StepIsTurn DEF Current
<1> HIDE DEF n
<1> QED BY <1>4, <1>5 DEF FieldsAfter, Erases, SourceOf, Converted

(* One step of the loop: what the output payload then holds under a key is *)
(* what the reference says, if it was before.                              *)
LEMMA FieldStep ==
    ASSUME TypeOK, Step, NEW key, FieldOf(payload, key) = FieldsAfter(key)
    PROVE  FieldOf(payload, key)' = FieldsAfter(key)'
<1> USE StepIsTurn
<1>1. payload \in Document
  BY DEF TypeOK
<1>2. FieldOf(payload, key)' = FieldOf(payload', key)
  BY DEF FieldOf, HasField
<1>3. ASSUME Result.outcome # "done" \/ ~Concerns(key),
             FieldOf(Result.payload, key) = FieldOf(payload, key)
      PROVE  FieldOf(payload, key)' = FieldsAfter(key)'
  <2> DEFINE new == IF Result.outcome = "done" /\ Concerns(key) THEN {Len(outcomes) + 1} ELSE {}
  <2>1. Concerning(key)' = Concerning(key)
    <3>1. Concerning(key)' = Concerning(key) \cup new
      BY ConcerningStep
    <3>2. new = {}
      BY <1>3
    <3> HIDE DEF new
    <3> QED BY <3>1, <3>2
  <2> QED BY <1>2, <1>3, <2>1, FieldsUnconcerned
<1>4. ASSUME Result.outcome = "done", Concerns(key),
             FieldOf(Result.payload, key) =
                 IF Erases(Current, key) THEN {}
                 ELSE {Converted(SourceOf(Current), Current.as)}
      PROVE  FieldOf(payload, key)' = FieldsAfter(key)'
  BY <1>2, <1>4, FieldsConcerned
<1>5. CASE LeavesAlone
  <2>1. Result.payload = payload
    BY <1>5 DEF LeavesAlone, Skipped, Thrown, Done
  <2>2. Result.outcome # "done" \/ ~Concerns(key)
    BY <1>5 DEF LeavesAlone, Skipped, Thrown, Done, Concerns, Erases
  <2> QED BY <1>3, <2>1, <2>2
<1>6. CASE FillsTopic
  <2>1. Result.outcome = "done" /\ ~Writes(Current, key)
    BY <1>6 DEF FillsTopic, Done, Writes
  <2>2. CASE Erases(Current, key)
    <3>1. Current.type = "payloadToTopic" /\ Current.from = key /\ ~Current.keep
      BY <1>6, <2>2 DEF FillsTopic, Erases
    <3>2. FieldOf(Result.payload, key) = {}
      BY <1>6, <3>1 DEF FillsTopic, Done, Finished, FieldOf, HasField, WithoutField
    <3> QED BY <1>4, <2>1, <2>2, <3>2 DEF Concerns
  <2>3. CASE ~Erases(Current, key)
    <3>1. FieldOf(Result.payload, key) = FieldOf(payload, key)
      <4>1. CASE /\ Current.type = "payloadToTopic" /\ HasField(payload, Current.from)
                 /\ ~Current.keep
        <5>1. payload \in Object /\ Current.from # key
          BY <1>1, <2>3, <4>1 DEF HasField, Document, NonObject, Erases
        <5>2. Result.payload = WithoutField(payload, Current.from)
          BY <1>6, <4>1 DEF FillsTopic, Done, Finished
        <5> QED BY <5>1, <5>2, FieldOfWithout
      <4>2. CASE ~(/\ Current.type = "payloadToTopic" /\ HasField(payload, Current.from)
                   /\ ~Current.keep)
        BY <1>6, <4>2 DEF FillsTopic, Done, Finished
      <4> QED BY <4>1, <4>2
    <3> QED BY <1>3, <2>1, <2>3, <3>1 DEF Concerns
  <2> QED BY <2>2, <2>3
<1>7. CASE FillsPayload
  <2>1. PICK value, to, from : /\ value = Converted(SourceOf(Current), Current.as)
                               /\ to = Current.to /\ from = Current.from
    OBVIOUS
  <2>2. PICK filled : filled = WithField(payload, to, value)
    OBVIOUS
  <2>3. /\ Result.outcome = "done"
        /\ Result.payload = IF Current.type = "topicToPayload" THEN filled
                            ELSE Finished(Current.keep, filled, from)
        /\ Current.type \in {"topicToPayload", "payloadToPayload"}
        /\ Current.as = "boolean" => IsBool(SourceOf(Current).text)
    BY <1>7, <2>1, <2>2 DEF FillsPayload, Done
  <2>4. Assignable(payload) /\ value \in Value /\ to \in Key
    BY <1>7, <2>1, CurrentIsTransformer DEF FillsPayload, Transformers
  <2>5. filled \in Object
    BY <1>1, <2>2, <2>4, WithFieldIsDocument
  <2>6. FieldOf(filled, key) = IF key = to THEN {value} ELSE FieldOf(payload, key)
    BY <1>1, <2>2, <2>4, FieldOfWith
  <2>7. Concerns(key) <=> (key = to \/ Erases(Current, key))
    BY <2>1, <2>3 DEF Concerns, Writes
  <2>8. Erases(Current, key) <=>
            Current.type = "payloadToPayload" /\ from = key /\ ~Current.keep
    BY <2>1, <2>3 DEF Erases
  <2>9. FieldOf(WithoutField(filled, from), key) =
            IF key = from THEN {} ELSE FieldOf(filled, key)
    BY <2>5, FieldOfWithout
  <2>10. FieldOf(Result.payload, key) =
             IF Erases(Current, key) THEN {} ELSE FieldOf(filled, key)
    BY <2>3, <2>8, <2>9 DEF Finished
  <2> QED BY <1>3, <1>4, <2>1, <2>3, <2>6, <2>7, <2>10
<1> QED BY <1>5, <1>6, <1>7, Results

(* The last transformer that concerns a key decides what the payload holds *)
(* under it, for all chains and messages.                                  *)
THEOREM LastDecides == Spec => []LastTransformerDecides
<1>1. Init => TypeOK /\ LastTransformerDecides
  <2> SUFFICES ASSUME Init, NEW key \in Key
               PROVE  FieldOf(payload, key) = FieldsAfter(key)
    BY TypeInit DEF LastTransformerDecides
  <2>1. Concerning(key) = {} /\ payload = message.payload
    BY DEF Init, Concerning
  <2> QED BY <2>1 DEF FieldsAfter, FieldOf
<1>2. TypeOK /\ LastTransformerDecides /\ [Next]_vars => (TypeOK /\ LastTransformerDecides)'
  <2> SUFFICES ASSUME TypeOK, LastTransformerDecides, [Next]_vars
               PROVE  LastTransformerDecides'
    BY TypeStep
  <2> SUFFICES ASSUME NEW key \in Key
               PROVE  FieldOf(payload, key)' = FieldsAfter(key)'
    BY DEF LastTransformerDecides
  <2>1. FieldOf(payload, key) = FieldsAfter(key)
    BY DEF LastTransformerDecides
  <2>2. CASE Step
    BY <2>1, <2>2, FieldStep
  <2>3. CASE Push \/ UNCHANGED vars
    <3>1. UNCHANGED <<chain, message, payload, outcomes>>
      BY <2>3 DEF Push, vars
    <3>2. Concerning(key)' = Concerning(key)
      BY <3>1 DEF Concerning, Writes, Erases, SourceOf
    <3>3. FieldOf(payload, key)' = FieldOf(payload, key)
      BY <3>1 DEF FieldOf, HasField
    <3> QED BY <2>1, <3>1, <3>2, <3>3, FieldsUnconcerned
  <2> QED BY <2>2, <2>3 DEF Next
<1> QED BY <1>1, <1>2, PTL DEF Spec

-----------------------------------------------------------------------------
(* The levels of two lists, one after the other.                           *)
LEMMA JoinPlaces ==
    ASSUME NEW a \in TopicName, NEW b \in TopicName
    PROVE  /\ (a \o b) \in TopicName
           /\ Len(a \o b) = Len(a) + Len(b)
           /\ \A j \in 1..Len(a) : (a \o b)[j] = a[j]
           /\ \A j \in 1..Len(b) : (a \o b)[Len(a) + j] = b[j]
<1> USE DEF TopicName
<1>1. (a \o b) \in TopicName /\ Len(a \o b) = Len(a) + Len(b)
  OBVIOUS
<1>2. \A j \in 1..Len(a) : (a \o b)[j] = a[j]
  OBVIOUS
<1>3. \A j \in 1..Len(b) : (a \o b)[Len(a) + j] = b[j]
  OBVIOUS
<1> QED BY <1>1, <1>2, <1>3

(* Where the levels of a topic are after levels were put in.               *)
PutAt(t, index) == IF Len(t) <= index THEN Len(t) ELSE index

(* Those before the place stay, those behind it move, and the levels that  *)
(* were put in are between them.                                           *)
LEMMA InsertPlaces ==
    ASSUME NEW t \in TopicName, NEW index \in Nat, NEW levels \in TopicName
    PROVE  LET after == Insert(t, index, levels)
               at == PutAt(t, index)
           IN  /\ Len(after) = Len(t) + Len(levels)
               /\ at \in 0..Len(t)
               /\ \A j \in 1..Len(t) :
                     after[IF j <= at THEN j ELSE j + Len(levels)] = t[j]
               /\ \A j \in 1..Len(levels) : after[at + j] = levels[j]
<1> DEFINE after == Insert(t, index, levels)
<1> USE DEF TopicName
<1>1. CASE Len(t) <= index
  <2>1. after = t \o levels /\ PutAt(t, index) = Len(t)
    BY <1>1 DEF Insert, PutAt
  <2> HIDE DEF after
  <2>2. /\ Len(after) = Len(t) + Len(levels)
        /\ \A j \in 1..Len(t) : after[j] = t[j]
        /\ \A j \in 1..Len(levels) : after[Len(t) + j] = levels[j]
    BY <2>1
  <2>3. Len(t) \in Nat /\ \A j \in 1..Len(t) : j <= Len(t)
    OBVIOUS
  <2> QED BY <2>1, <2>2, <2>3 DEF after
<1>2. CASE ~(Len(t) <= index)
  <2> DEFINE front == SubSeq(t, 1, index)
             back == SubSeq(t, index + 1, Len(t))
             upTo == front \o levels
  <2>1. front \in TopicName /\ back \in TopicName
    <3>1. Len(t) \in Nat /\ index <= Len(t)
      BY <1>2
    <3>2. front \in TopicName
      BY <3>1
    <3>3. back \in TopicName
      BY <3>1
    <3> QED BY <3>2, <3>3
  <2>2. /\ Len(front) = index /\ Len(back) = Len(t) - index
        /\ \A j \in 1..index : front[j] = t[j]
        /\ \A j \in 1..Len(t) - index : back[j] = t[index + j]
    BY <1>2
  <2>3. after = upTo \o back /\ PutAt(t, index) = index
    BY <1>2 DEF Insert, PutAt
  <2> HIDE DEF after, front, back
  <2>4. /\ upTo \in TopicName
        /\ Len(upTo) = index + Len(levels)
        /\ \A j \in 1..index : upTo[j] = front[j]
        /\ \A j \in 1..Len(levels) : upTo[index + j] = levels[j]
    BY <2>1, <2>2, JoinPlaces
  <2> HIDE DEF upTo
  <2>5. /\ Len(after) = index + Len(levels) + Len(back)
        /\ \A j \in 1..(index + Len(levels)) : after[j] = upTo[j]
        /\ \A j \in 1..Len(back) : after[index + Len(levels) + j] = back[j]
    <3>1. /\ Len(upTo \o back) = Len(upTo) + Len(back)
          /\ \A j \in 1..Len(upTo) : (upTo \o back)[j] = upTo[j]
          /\ \A j \in 1..Len(back) : (upTo \o back)[Len(upTo) + j] = back[j]
      BY <2>1, <2>4, JoinPlaces
    <3>2. after = upTo \o back /\ Len(upTo) = index + Len(levels)
      BY <2>3, <2>4
    <3> QED BY <3>1, <3>2
  <2>6. ASSUME NEW j \in 1..Len(t)
        PROVE  after[IF j <= index THEN j ELSE j + Len(levels)] = t[j]
    <3>1. CASE j <= index
      BY <2>2, <2>4, <2>5, <3>1
    <3>2. CASE ~(j <= index)
      <4>1. j - index \in 1..Len(back) /\ Len(levels) \in Nat
        BY <2>2, <3>2
      <4>2. after[index + Len(levels) + (j - index)] = back[j - index]
        BY <2>5, <4>1
      <4>3. back[j - index] = t[index + (j - index)]
        BY <2>2, <4>1
      <4> QED BY <3>2, <4>1, <4>2, <4>3
    <3> QED BY <3>1, <3>2
  <2>7. ASSUME NEW j \in 1..Len(levels)
        PROVE  after[index + j] = levels[j]
    BY <2>4, <2>5
  <2>8. Len(after) = Len(t) + Len(levels) /\ index \in 0..Len(t)
    BY <1>2, <2>2, <2>5
  <2> QED BY <2>3, <2>6, <2>7, <2>8 DEF after
<1> QED BY <1>1, <1>2

(* Levels that are there in an order remain there in that order.           *)
LEMMA SubsequenceStays ==
    ASSUME NEW s \in TopicName, NEW t \in TopicName, IsSubsequence(s, t),
           NEW index \in Nat, NEW levels \in TopicName
    PROVE  IsSubsequence(s, Insert(t, index, levels))
<1>1. PICK place \in [DOMAIN s -> DOMAIN t] :
          /\ \A i \in DOMAIN s : s[i] = t[place[i]]
          /\ \A i, j \in DOMAIN s : i < j => place[i] < place[j]
  BY DEF IsSubsequence
<1>2. PICK after, at : after = Insert(t, index, levels) /\ at = PutAt(t, index)
  OBVIOUS
<1>3. /\ after \in TopicName
      /\ Len(after) = Len(t) + Len(levels)
      /\ at \in 0..Len(t)
      /\ \A j \in 1..Len(t) : after[IF j <= at THEN j ELSE j + Len(levels)] = t[j]
  BY <1>2, InsertPlaces, InsertIsTopic
<1>4. /\ DOMAIN after = 1..Len(after) /\ DOMAIN t = 1..Len(t)
      /\ Len(t) \in Nat /\ Len(levels) \in Nat
  BY <1>3 DEF TopicName
<1> DEFINE moved == [i \in DOMAIN s |->
                        IF place[i] <= at THEN place[i] ELSE place[i] + Len(levels)]
<1>5. moved \in [DOMAIN s -> DOMAIN after]
  BY <1>1, <1>3, <1>4
<1>6. ASSUME NEW i \in DOMAIN s
      PROVE  s[i] = after[moved[i]]
  <2>1. place[i] \in 1..Len(t)
    BY <1>1, <1>4
  <2> QED BY <1>1, <1>3, <2>1
<1>7. ASSUME NEW i \in DOMAIN s, NEW j \in DOMAIN s, i < j
      PROVE  moved[i] < moved[j]
  <2>1. place[i] \in 1..Len(t) /\ place[j] \in 1..Len(t) /\ place[i] < place[j]
    BY <1>1, <1>4, <1>7
  <2> QED BY <1>3, <1>4, <2>1
<1> HIDE DEF moved
<1>8. IsSubsequence(s, after)
  BY <1>5, <1>6, <1>7 DEF IsSubsequence
<1> QED BY <1>2, <1>8

(* The levels that were put in are there.                                  *)
LEMMA LevelsArePut ==
    ASSUME NEW t \in TopicName, NEW index \in Nat, NEW levels \in TopicName
    PROVE  IsSubsequence(levels, Insert(t, index, levels))
<1>1. PICK after, at : after = Insert(t, index, levels) /\ at = PutAt(t, index)
  OBVIOUS
<1>2. /\ after \in TopicName
      /\ Len(after) = Len(t) + Len(levels)
      /\ at \in 0..Len(t)
      /\ \A j \in 1..Len(levels) : after[at + j] = levels[j]
  BY <1>1, InsertPlaces, InsertIsTopic
<1>3. /\ DOMAIN after = 1..Len(after) /\ DOMAIN levels = 1..Len(levels)
      /\ Len(t) \in Nat /\ Len(levels) \in Nat
  BY <1>2 DEF TopicName
<1> DEFINE place == [j \in DOMAIN levels |-> at + j]
<1>4. place \in [DOMAIN levels -> DOMAIN after]
  BY <1>2, <1>3
<1>5. \A j \in DOMAIN levels : levels[j] = after[place[j]]
  BY <1>2, <1>3
<1>6. \A i, j \in DOMAIN levels : i < j => place[i] < place[j]
  BY <1>2, <1>3
<1> HIDE DEF place
<1>7. IsSubsequence(levels, after)
  BY <1>4, <1>5, <1>6 DEF IsSubsequence
<1> QED BY <1>1, <1>7

(* A topic is a subsequence of itself, and that without levels of any.     *)
LEMMA Subsequences ==
    ASSUME NEW t \in TopicName
    PROVE  IsSubsequence(t, t) /\ IsSubsequence(<< >>, t)
<1>1. IsSubsequence(t, t)
  <2>1. [i \in DOMAIN t |-> i] \in [DOMAIN t -> DOMAIN t]
    OBVIOUS
  <2> QED BY <2>1 DEF IsSubsequence
<1>2. IsSubsequence(<< >>, t)
  <2>1. DOMAIN << >> = {}
    OBVIOUS
  <2>2. << >> \in [DOMAIN << >> -> DOMAIN t]
    BY <2>1
  <2> QED BY <2>1, <2>2 DEF IsSubsequence
<1> QED BY <1>1, <1>2

(* One execution: every list of levels found in the output topic is found  *)
(* there after it, and so is what it put in, if it succeeded.              *)
LEMMA TopicStep ==
    ASSUME Turn
    PROVE  /\ \A s \in TopicName : IsSubsequence(s, topic) => IsSubsequence(s, Result.topic)
           /\ Result.outcome = "done" => /\ LevelsPutIn(Current) \in TopicName
                                         /\ IsSubsequence(LevelsPutIn(Current), Result.topic)
<1>1. topic \in TopicName /\ Current \in Transformers
  BY CurrentIsTransformer DEF Turn, TypeOK
<1>2. CASE FillsTopic
  <2>1. PICK levels \in TopicName, index \in Nat :
            levels = LevelsPutIn(Current) /\ index = Current.to
    BY <1>1, <1>2 DEF FillsTopic, Transformers, Index
  <2>2. Result.topic = Insert(topic, index, levels)
    BY <1>2, <2>1 DEF FillsTopic, Done
  <2> QED BY <1>1, <2>1, <2>2, SubsequenceStays, LevelsArePut
<1>3. CASE LeavesAlone \/ FillsPayload
  <2>1. Result.topic = topic
    BY <1>3 DEF LeavesAlone, FillsPayload, Done, Skipped, Thrown
  <2>2. Result.outcome = "done" => LevelsPutIn(Current) = << >>
    BY <1>3 DEF LeavesAlone, FillsPayload, Done, Skipped, Thrown, LevelsPutIn
  <2>3. << >> \in TopicName
    BY DEF TopicName
  <2> QED BY <1>1, <2>1, <2>2, <2>3, Subsequences
<1> QED BY <1>2, <1>3, Results

(* With the topics of the levels: what the theorem below says, and that    *)
(* the levels the transformers put in are ones.                            *)
TopicInv ==
    /\ TopicOnlyGrows
    /\ \A i \in DOMAIN outcomes : outcomes[i] = "done" => LevelsPutIn(chain[i]) \in TopicName

(* A step of the loop, or a stutter, keeps what is in the topic there.     *)
LEMMA TopicInvStep ==
    ASSUME TypeOK, TopicInv, [Next]_vars
    PROVE  TopicInv'
<1>1. CASE Step
  <2>1. /\ outcomes \in Seq({"done", "skipped", "thrown"})
        /\ outcomes' = Append(outcomes, Result.outcome)
        /\ chain' = chain /\ message' = message /\ configured' = configured
        /\ topic' = Result.topic
        /\ configured \in TopicName
    BY <1>1, StepIsTurn, OutputTopicsAssumption DEF TypeOK
  <2>2. IsSubsequence(configured, Result.topic)
    BY <1>1, <2>1, StepIsTurn, TopicStep DEF TopicInv, TopicOnlyGrows
  <2>3. ASSUME NEW i \in DOMAIN outcomes', outcomes'[i] = "done"
        PROVE  /\ LevelsPutIn(chain[i]) \in TopicName
               /\ IsSubsequence(LevelsPutIn(chain[i]), Result.topic)
    <3>1. CASE i = Len(outcomes) + 1
      <4>1. Result.outcome = "done" /\ Current = chain[i]
        BY <2>1, <2>3, <3>1 DEF Current
      <4> QED BY <1>1, <4>1, StepIsTurn, TopicStep
    <3>2. CASE i # Len(outcomes) + 1
      <4>1. i \in DOMAIN outcomes /\ outcomes[i] = "done"
        BY <2>1, <2>3, <3>2
      <4>2. PICK levels \in TopicName : levels = LevelsPutIn(chain[i])
        BY <4>1 DEF TopicInv
      <4>3. IsSubsequence(levels, topic)
        BY <4>1, <4>2 DEF TopicInv, TopicOnlyGrows
      <4> QED BY <1>1, <4>2, <4>3, StepIsTurn, TopicStep
    <3> QED BY <3>1, <3>2
  <2>4. IsSubsequence(configured, topic)'
    BY <2>1, <2>2 DEF IsSubsequence
  <2>5. ASSUME NEW i \in DOMAIN outcomes', outcomes'[i] = "done"
        PROVE  /\ LevelsPutIn(chain[i])' \in TopicName
               /\ IsSubsequence(LevelsPutIn(chain[i]), topic)'
    <3>1. LevelsPutIn(chain[i])' = LevelsPutIn(chain[i])
      BY <2>1 DEF LevelsPutIn
    <3>2. PICK levels \in TopicName, result \in TopicName :
              /\ levels = LevelsPutIn(chain[i]) /\ result = Result.topic
              /\ IsSubsequence(levels, result)
      BY <1>1, <2>3, <2>5, StepIsTurn, ResultKinds
    <3>3. levels = LevelsPutIn(chain[i])' /\ result = topic'
      BY <2>1, <3>1, <3>2
    <3> QED BY <3>2, <3>3 DEF IsSubsequence
  <2> QED BY <2>4, <2>5 DEF TopicInv, TopicOnlyGrows
<1>2. CASE Push \/ UNCHANGED vars
  <2>1. UNCHANGED <<chain, message, configured, topic, outcomes>>
    BY <1>2 DEF Push, vars
  <2>2. IsSubsequence(configured, topic)'
    BY <2>1 DEF TopicInv, TopicOnlyGrows, IsSubsequence
  <2>3. ASSUME NEW i \in DOMAIN outcomes', outcomes'[i] = "done"
        PROVE  /\ LevelsPutIn(chain[i])' \in TopicName
               /\ IsSubsequence(LevelsPutIn(chain[i]), topic)'
    <3>1. LevelsPutIn(chain[i])' = LevelsPutIn(chain[i])
      BY <2>1 DEF LevelsPutIn
    <3> QED BY <2>1, <2>3, <3>1 DEF TopicInv, TopicOnlyGrows, IsSubsequence
  <2> QED BY <2>2, <2>3 DEF TopicInv, TopicOnlyGrows
<1> QED BY <1>1, <1>2 DEF Next

(* No transformer takes a level of the output topic away or moves one past *)
(* another, and what each that succeeds has read is in it at the end.      *)
THEOREM NoLevelIsLost == Spec => []TopicOnlyGrows
<1>1. Init => TypeOK /\ TopicInv
  <2> SUFFICES ASSUME Init
               PROVE  TopicInv
    BY TypeInit
  <2>1. topic = configured /\ DOMAIN outcomes = {}
    BY DEF Init
  <2>2. IsSubsequence(configured, topic)
    BY <2>1, TypeInit, Subsequences DEF TypeOK
  <2> QED BY <2>1, <2>2 DEF TopicInv, TopicOnlyGrows
<1>2. TypeOK /\ TopicInv /\ [Next]_vars => (TypeOK /\ TopicInv)'
  BY TypeStep, TopicInvStep
<1>3. TopicInv => TopicOnlyGrows
  BY DEF TopicInv
<1> QED BY <1>1, <1>2, <1>3, PTL DEF Spec
=============================================================================
