-------------------------- MODULE MCTransformChain --------------------------
(* Chains of up to three transformers on messages with and without the     *)
(* keys and levels they read, with an index far out of range, and the      *)
(* conversions of Casts with an int of 6 and a float of 3 bits: "010" is   *)
(* read as an octal number, 3.14 goes through a float, and no text is a    *)
(* boolean.                                                                *)
EXTENDS TransformChain

MCCharacter == [code \in 0..3 |-> IF code = 2 THEN "/" ELSE "x"]
Conversions == INSTANCE Casts WITH
    IntBits <- 6, FloatBits <- 3, LargestFloat <- 112, DoubleBits <- 6,
    LargestDouble <- 4032, Fractions <- 3, Character <- MCCharacter

MCKey == {"a", "b"}
Octal == <<"0", "1", "0">>
Fraction == <<"3", ".", "1", "4">>
True == <<"t", "r", "u", "e">>
NullText == <<"n", "u", "l", "l">>
MCText ==
    {<< >>, <<"x">>, <<"y">>, <<"z">>, <<"y", "/", "z">>, <<"/">>, True, NullText,
     Octal, <<"8">>, Fraction, <<"3", ".", "0">>}
MCIsInt(text) == Conversions!isInt(text)
MCIsFloat(text) == Conversions!isFloat(text)
MCIsDouble(text) == Conversions!isDouble(text)
MCIsBool(text) == Conversions!isBool(text)
MCAsLong(text) == Conversions!lexical_cast_long(text)
MCAsFloat(text) == Conversions!lexical_cast_float(text)
MCAsDouble(text) == Conversions!lexical_cast_double(text)
MCAsBoolean(text) == Conversions!lexical_cast_bool(text)
MCAsCharacter(text) == Conversions!json_to_string(text)
MCLevelsOf(text) == IF text = << >> THEN << << >> >> ELSE Conversions!splitString(text, "/")

V(kind, text) == [kind |-> kind, text |-> text]
Doc(fields) == [kind |-> "object", fields |-> fields]
MCMessages ==
    [topic: {<<<<"x">>, Octal>>}, payload:
        {Doc([k \in MCKey |-> IF k = "a" THEN V("string", <<"y", "/", "z">>)
                                         ELSE V("number", Fraction)]),
         Doc([k \in {"a"} |-> V("boolean", True)]),
         Doc([k \in MCKey |-> IF k = "a" THEN V("null", NullText) ELSE V("string", Octal)]),
         [kind |-> "null", fields |-> << >>],
         [kind |-> "number", fields |-> << >>]}]

Some ==
    {[type |-> "topicToTopic", from |-> 0, to |-> 1],
     [type |-> "topicToTopic", from |-> 2, to |-> 0],
     [type |-> "topicToTopic", from |-> 1, to |-> 1000],
     [type |-> "topicToPayload", from |-> 1, to |-> "a", as |-> "number"],
     [type |-> "topicToPayload", from |-> 0, to |-> "b", as |-> "unknown"],
     [type |-> "topicToPayload", from |-> 0, to |-> "a", as |-> "boolean"],
     [type |-> "payloadToTopic", from |-> "a", to |-> 0, keep |-> FALSE],
     [type |-> "payloadToTopic", from |-> "b", to |-> 2, keep |-> TRUE],
     [type |-> "payloadToPayload", from |-> "a", to |-> "b", as |-> "unknown", keep |-> FALSE],
     [type |-> "payloadToPayload", from |-> "b", to |-> "a", as |-> "number", keep |-> FALSE],
     [type |-> "payloadToPayload", from |-> "b", to |-> "b", as |-> "string", keep |-> FALSE],
     [type |-> "payloadToPayload", from |-> "b", to |-> "a", as |-> "boolean", keep |-> TRUE]}
(* Those that read or write a field another one erases or converts.        *)
Interfering == {s \in Some : s.type # "topicToTopic" /\ ("keep" \in DOMAIN s => ~s.keep)}
MCChains == {<<s>> : s \in Some} \cup {<<s, t>> : s, t \in Some}
               \cup {<<s, t, u>> : s, t, u \in Interfering}
MCOutputTopics == {<<<<"x">>>>, <<<<"y">>, <<"x">>>>}
=============================================================================
