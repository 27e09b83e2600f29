------------------------- MODULE StreamTransformers -------------------------
(***************************************************************************)
(* execute() of the four stream transformers (stream_transformer_*.cpp).   *)
(*                                                                         *)
(* A topic is the sequence of its levels, what splitString makes of it.  A *)
(* JSON value is its kind and its text: of a string the characters, of     *)
(* anything else what dump() writes.  A document is a value too; only an   *)
(* object has fields.  The conversions between texts and numbers, booleans *)
(* and characters are constants, which an instance gives with Casts.       *)
(***************************************************************************)
EXTENDS Naturals, Sequences

CONSTANTS
    Key,            \* keys of the fields of a document
    Text,           \* texts: levels of topics, strings, what dump() writes
    IsInt(_), IsFloat(_), IsDouble(_), IsBool(_),       \* utilities.cpp
    AsLong(_), AsFloat(_), AsDouble(_), AsBoolean(_),   \* lexical_cast, as text
    AsCharacter(_), \* what assigning a number or boolean to a string leaves
    LevelsOf(_)     \* the levels of a text that becomes part of a topic

Value == [kind: {"string", "number", "boolean", "null", "object", "array"}, text: Text]
Object == [kind: {"object"}, fields: UNION {[keys -> Value] : keys \in SUBSET Key}]
NonObject == [kind: {"null", "number", "string", "boolean", "array"}, fields: {<< >>}]
Document == Object \cup NonObject
TopicName == Seq(Text)

Index == Nat
AsTypes == {"unknown", "number", "string", "boolean"}
Transformers ==
         [type: {"topicToTopic"}, from: Index, to: Index]
    \cup [type: {"topicToPayload"}, from: Index, to: Key, as: AsTypes]
    \cup [type: {"payloadToTopic"}, from: Key, to: Index, keep: BOOLEAN]
    \cup [type: {"payloadToPayload"}, from: Key, to: Key, as: AsTypes, keep: BOOLEAN]

-----------------------------------------------------------------------------
(* execute() returned; it threw a StreamTransformerExecutionException; it  *)
(* threw an exception of the JSON library.                                 *)
Done(topic, payload) == [outcome |-> "done", topic |-> topic, payload |-> payload]
Skipped(topic, payload) == [outcome |-> "skipped", topic |-> topic, payload |-> payload]
Thrown(topic, payload) == [outcome |-> "thrown", topic |-> topic, payload |-> payload]

(* at(key) of an object that has the key; contains(key).                   *)
HasField(document, key) == document.kind = "object" /\ key \in DOMAIN document.fields

(* document[key] = value; a null document becomes an object.               *)
Assignable(document) == document.kind \in {"object", "null"}
(* (X_Fault is X with a fault in it: it is not used, and stands for a      *)
(* mistake that a property must reveal.)                                   *)
WithField_StaysNull(document, key, value) ==
    [document EXCEPT !.fields = [k \in DOMAIN @ \cup {key} |-> IF k = key THEN value ELSE @[k]]]
WithField(document, key, value) ==
    [kind |-> "object",
     fields |-> [k \in DOMAIN document.fields \cup {key} |->
                    IF k = key THEN value ELSE document.fields[k]]]

(* erase(key)                                                              *)
WithoutField(document, key) ==
    [kind |-> "object",
     fields |-> [k \in DOMAIN document.fields \ {key} |-> document.fields[k]]]
Finished(keep, document, key) == IF keep THEN document ELSE WithoutField(document, key)

(* splitString, insert and joinStrings; append when there is no such index.*)
Insert_AfterIndex(topic, index, levels) ==
    IF Len(topic) <= index
    THEN topic \o levels
    ELSE SubSeq(topic, 1, index) \o levels \o SubSeq(topic, index + 2, Len(topic))
Insert(topic, index, levels) ==
    IF Len(topic) <= index
    THEN topic \o levels
    ELSE SubSeq(topic, 1, index) \o levels \o SubSeq(topic, index + 1, Len(topic))

(* A text as a number: a 32-bit integer, else a float, else a double.      *)
IsNumber(text) == IsInt(text) \/ IsFloat(text) \/ IsDouble(text)
AsNumber_FloatFirst(text) ==
    [kind |-> "number",
     text |-> IF IsFloat(text) THEN AsFloat(text)
              ELSE IF IsInt(text) THEN AsLong(text) ELSE AsDouble(text)]
AsNumber(text) ==
    [kind |-> "number",
     text |-> IF IsInt(text) THEN AsLong(text)
              ELSE IF IsFloat(text) THEN AsFloat(text) ELSE AsDouble(text)]
String(text) == [kind |-> "string", text |-> text]
Boolean(text) == [kind |-> "boolean", text |-> AsBoolean(text)]

-----------------------------------------------------------------------------
(* StreamTransformerTopicToTopic::execute                                  *)
TopicToTopic(t, inputTopic, inputPayload, topic, payload) ==
    IF Len(inputTopic) <= t.from
    THEN Skipped(topic, payload)
    ELSE Done(Insert(topic, t.to, <<inputTopic[t.from + 1]>>), payload)

(* StreamTransformerTopicToPayload::execute; a level that should be a      *)
(* boolean and is not leaves the payload alone, without an error.          *)
TopicToPayload(t, inputTopic, inputPayload, topic, payload) ==
    LET level == inputTopic[t.from + 1]
        Assign(value) == IF Assignable(payload)
                         THEN Done(topic, WithField(payload, t.to, value))
                         ELSE Thrown(topic, payload)
    IN  IF Len(inputTopic) <= t.from
        THEN Skipped(topic, payload)
        ELSE CASE t.as = "number" ->
                    IF IsNumber(level) THEN Assign(AsNumber(level)) ELSE Skipped(topic, payload)
               [] t.as = "boolean" ->
                    IF IsBool(level) THEN Assign(Boolean(level)) ELSE Done(topic, payload)
               [] t.as \in {"unknown", "string"} ->
                    Assign(String(level))

(* json_to_string: a string as it is, a number or a boolean through an     *)
(* assignment to std::string, which takes it for a character.              *)
Printable(value) == value.kind \in {"string", "number", "boolean"}
PrintedText(value) ==
    IF value.kind = "string" THEN value.text ELSE AsCharacter(value.text)

(* The conversions make texts of texts.                                    *)
ASSUME ConversionsAssumption ==
    /\ \A text \in Text :
          /\ IsNumber(text) => AsNumber(text).text \in Text
          /\ IsBool(text) => AsBoolean(text) \in Text
    /\ \A value \in Value : Printable(value) => LevelsOf(PrintedText(value)) \in Seq(Text)

(* StreamTransformerPayloadToTopic::execute                                *)
PayloadToTopic(t, inputTopic, inputPayload, topic, payload) ==
    IF ~HasField(inputPayload, t.from) \/ ~Printable(inputPayload.fields[t.from])
    THEN Skipped(topic, payload)
    ELSE Done(Insert(topic, t.to, LevelsOf(PrintedText(inputPayload.fields[t.from]))),
              IF HasField(payload, t.from)
              THEN Finished(t.keep, payload, t.from)
              ELSE payload)

(* StreamTransformerPayloadToPayload::execute; at() throws what nobody     *)
(* catches when the key is missing or the payload is not an object.        *)
PayloadToPayload_ErasesFirst(t, inputTopic, inputPayload, topic, payload) ==
    IF ~HasField(inputPayload, t.from)
    THEN Thrown(topic, payload)
    ELSE Done(topic, WithField(Finished(t.keep, payload, t.from), t.to,
                               inputPayload.fields[t.from]))
PayloadToPayload(t, inputTopic, inputPayload, topic, payload) ==
    LET value == inputPayload.fields[t.from]
        Assign(v) ==
            IF Assignable(payload)
            THEN Done(topic, Finished(t.keep, WithField(payload, t.to, v), t.from))
            ELSE Thrown(topic, payload)
    IN  IF ~HasField(inputPayload, t.from)
        THEN Thrown(topic, payload)
        ELSE CASE t.as = "unknown" ->
                    Assign(value)
               [] t.as = "number" ->
                    IF IsNumber(value.text)
                    THEN Assign(AsNumber(value.text)) ELSE Skipped(topic, payload)
               [] t.as = "string" ->
                    Assign(String(value.text))
               [] t.as = "boolean" ->
                    IF IsBool(value.text)
                    THEN Assign(Boolean(value.text)) ELSE Skipped(topic, payload)

(* it_streamTransformer->execute(...): the virtual call.                   *)
ExecuteTransformer(t, inputTopic, inputPayload, topic, payload) ==
    CASE t.type = "topicToTopic" ->
            TopicToTopic(t, inputTopic, inputPayload, topic, payload)
      [] t.type = "topicToPayload" ->
            TopicToPayload(t, inputTopic, inputPayload, topic, payload)
      [] t.type = "payloadToTopic" ->
            PayloadToTopic(t, inputTopic, inputPayload, topic, payload)
      [] t.type = "payloadToPayload" ->
            PayloadToPayload(t, inputTopic, inputPayload, topic, payload)
=============================================================================
