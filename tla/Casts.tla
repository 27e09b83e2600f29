------------------------------- MODULE Casts -------------------------------
(***************************************************************************)
(* The conversions of texts (utilities.cpp, cast.cpp, json_utilities.cpp): *)
(* what reads as a number or a boolean, what a number is then, how it is   *)
(* written again, how a topic is cut into levels, and what an address is.  *)
(*                                                                         *)
(* A text is a sequence of characters.  Decimal exponents, which no other  *)
(* notation needs, are left out.  A number that may have a fraction is     *)
(* counted in units of 1/Scale; zero has no sign.                          *)
(***************************************************************************)
EXTENDS Integers, Sequences, FiniteSets, Functions, SequencesExt

CONSTANTS
    IntBits,                    \* width of an int (32)
    FloatBits, LargestFloat,    \* mantissa of a float (24), largest float
    DoubleBits, LargestDouble,  \* mantissa of a double (53), largest double
    Fractions,                  \* bound on the digits after a point
    Character                   \* the character of each code of a char

ASSUME WidthsAssumption ==
    /\ IntBits \in Nat /\ 0 < FloatBits /\ FloatBits < IntBits
    /\ FloatBits \in Nat /\ DoubleBits \in Nat /\ FloatBits <= DoubleBits
    /\ LargestFloat \in Nat /\ LargestDouble \in Nat /\ LargestFloat <= LargestDouble
    /\ Fractions \in Nat \ {0}
ASSUME CharacterAssumption ==
    DOMAIN Character # {} /\ DOMAIN Character = 0 .. Cardinality(DOMAIN Character) - 1

Scale == 10^Fractions

-----------------------------------------------------------------------------
(* Numerals.                                                               *)
Digits == <<"0", "1", "2", "3", "4", "5", "6", "7", "8", "9">>
DigitsFrom(low, high) == {Digits[n + 1] : n \in low..high}
DigitValue(c) == CHOOSE n \in 0..9 : Digits[n + 1] = c
Natural(numeral, base) ==
    LET prefix[n \in 0..Len(numeral)] ==
            IF n = 0 THEN 0 ELSE base * prefix[n - 1] + DigitValue(numeral[n])
    IN  prefix[Len(numeral)]
Numeral[n \in Nat] ==
    IF n < 10 THEN <<Digits[n + 1]>> ELSE Append(Numeral[n \div 10], Digits[(n % 10) + 1])

IsNegative(text) == text # << >> /\ text[1] = "-"
Unsigned(text) == IF text # << >> /\ text[1] \in {"+", "-"} THEN Tail(text) ELSE text
Signed(text, magnitude) == IF IsNegative(text) THEN -magnitude ELSE magnitude

IsInteger(text) ==
    Unsigned(text) # << >> /\ Range(Unsigned(text)) \subseteq DigitsFrom(0, 9)

(* Digits with at most one point among them, before or after them all.     *)
IsDecimal(text) ==
    LET u == Unsigned(text)
    IN  /\ Range(u) \subseteq DigitsFrom(0, 9) \cup {"."}
        /\ Range(u) \cap DigitsFrom(0, 9) # {}
        /\ Cardinality({i \in DOMAIN u : u[i] = "."}) <= 1
Magnitude(text) ==
    LET u == Unsigned(text)
        point == IF "." \in Range(u) THEN SelectInSeq(u, LAMBDA c : c = ".") ELSE Len(u) + 1
        fraction == SubSeq(u, point + 1, Len(u))
    IN  Natural(SubSeq(u, 1, point - 1) \o fraction, 10) * 10^(Fractions - Len(fraction))

(* The nearest number with a mantissa of so many bits and halves for its   *)
(* smallest units; the even one of two.                                    *)
Rounded(magnitude, bits) ==
    LET exponent == CHOOSE e \in 0 .. 3 * DoubleBits :
                        /\ magnitude < 2^(bits + e) * (Scale \div 2)
                        /\ e = 0 \/ magnitude >= 2^(bits + e - 1) * (Scale \div 2)
        unit == 2^exponent * (Scale \div 2)
        low == magnitude \div unit
        rest == 2 * (magnitude % unit)
    IN  IF rest > unit \/ (rest = unit /\ low % 2 = 1) THEN (low + 1) * unit ELSE low * unit

-----------------------------------------------------------------------------
(* Reading a number from a stream fails if there is none or if it is too   *)
(* large; then the stream must be at its end.                              *)
IntRange == -(2^(IntBits - 1)) .. (2^(IntBits - 1) - 1)
isInt(text) == IsInteger(text) /\ Signed(text, Natural(Unsigned(text), 10)) \in IntRange
isFloat(text) ==
    IsDecimal(text) /\ Rounded(Magnitude(text), FloatBits) <= LargestFloat * Scale
isDouble(text) ==
    IsDecimal(text) /\ Rounded(Magnitude(text), DoubleBits) <= LargestDouble * Scale

(* A boolean is read no further than its name, so that the stream has not  *)
(* seen its end when it succeeds.                                          *)
BooleanNames == {<<"t", "r", "u", "e">>, <<"f", "a", "l", "s", "e">>}
ReadsBoolean(text) == \E name \in BooleanNames : IsPrefix(name, text)
SeesEnd(text) == \E name \in BooleanNames : IsStrictPrefix(text, name)
isBool(text) == SeesEnd(text) /\ ReadsBoolean(text)

(* lexical_cast<long>: base 0, so that a leading zero makes the number an  *)
(* octal one, which ends where a digit is none of these.  (X_Fault is X    *)
(* with a fault in it: it is not used, and stands for a mistake that a     *)
(* property must reveal.)                                                  *)
OctalPart(numeral) ==
    LET others == {i \in DOMAIN numeral : numeral[i] \notin DigitsFrom(0, 7)}
    IN  IF others = {} THEN numeral
        ELSE SubSeq(numeral, 1, (CHOOSE i \in others : \A j \in others : i <= j) - 1)
LongOf_Unsigned(text) == Signed(text, Natural(Unsigned(text), 10)) % 2^(IntBits + 1)
LongOf(text) ==
    LET u == Unsigned(text)
    IN  Signed(text, IF u[1] = "0" THEN Natural(OctalPart(u), 8) ELSE Natural(u, 10))

(* dump() of a number: a number with a fraction has a point, even when it  *)
(* happens to be whole.                                                    *)
Sign(n) == IF n < 0 THEN <<"-">> ELSE << >>
Size(n) == IF n < 0 THEN -n ELSE n
DumpedInteger(n) == Sign(n) \o Numeral[Size(n)]
DumpedFloat(scaled) ==
    Sign(scaled) \o Numeral[Size(scaled) \div Scale] \o
        (IF Size(scaled) % Scale = 0 THEN <<".", "0">> ELSE <<".", "5">>)

lexical_cast_long(text) == DumpedInteger(LongOf(text))
lexical_cast_float(text) == DumpedFloat(Signed(text, Rounded(Magnitude(text), FloatBits)))
lexical_cast_double(text) == DumpedFloat(Signed(text, Rounded(Magnitude(text), DoubleBits)))

(* lexical_cast<bool> reads a number, not a name: true when the digits the *)
(* text begins with are not all zero.                                      *)
lexical_cast_bool(text) ==
    LET u == Unsigned(text)
    IN  IF \E i \in DOMAIN u : /\ u[i] \in DigitsFrom(1, 9)
                               /\ \A j \in 1..i : u[j] \in DigitsFrom(0, 9)
        THEN <<"t", "r", "u", "e">> ELSE <<"f", "a", "l", "s", "e">>

(* json_to_string of a number or a boolean: std::string takes it for the   *)
(* code of a character, of which a char keeps the low bits.                *)
CodeOf(text) ==
    CASE IsInteger(text) -> Signed(text, Natural(Unsigned(text), 10))
      [] IsDecimal(text) -> Signed(text, Magnitude(text) \div Scale)
      [] OTHER -> IF text = <<"t", "r", "u", "e">> THEN 1 ELSE 0
json_to_string(text) == <<Character[CodeOf(text) % Cardinality(DOMAIN Character)]>>

-----------------------------------------------------------------------------
(* splitString: find takes the first token that is left; a text that ends  *)
(* with a token has an empty last element.  joinStrings.                   *)
Tokens(text, token, from) == {i \in from..Len(text) : text[i] = token}
find(text, token, from) ==
    CHOOSE i \in Tokens(text, token, from) : \A j \in Tokens(text, token, from) : i <= j
splitWith(text, token, end) ==
    LET result[from \in 1 .. Len(text) + 1] ==
            IF from > Len(text) THEN << >>
            ELSE IF Tokens(text, token, from) = {} THEN <<SubSeq(text, from, Len(text))>>
            ELSE <<SubSeq(text, from, find(text, token, from) - 1)>> \o
                    (IF find(text, token, from) = Len(text) THEN end
                     ELSE result[find(text, token, from) + 1])
    IN  result[1]
splitString_DropsTrailing(text, token) == splitWith(text, token, << >>)
splitString(text, token) == splitWith(text, token, << << >> >>)

joinStrings(levels, token) ==
    LET result[n \in 0..Len(levels)] ==
            IF n = 0 THEN << >>
            ELSE IF n = 1 THEN levels[1] ELSE result[n - 1] \o <<token>> \o levels[n]
    IN  result[Len(levels)]

(* How a transformer puts a text into a topic: behind it, or as an element *)
(* of its levels, which are then joined.                                   *)
withLevel_Glued(topic, index, text) ==
    LET levels == splitString(topic, "/")
    IN  IF Len(levels) <= index
        THEN topic \o text
        ELSE joinStrings(InsertAt(levels, index + 1, text), "/")
withLevel(topic, index, text) ==
    LET levels == splitString(topic, "/")
    IN  IF Len(levels) <= index
        THEN topic \o <<"/">> \o text
        ELSE joinStrings(InsertAt(levels, index + 1, text), "/")

(* is_valid_topic                                                          *)
isValidTopic(text) ==
    /\ text # << >>
    /\ text = <<"/">> \/ (text[1] # "/" /\ Last(text) # "/")

-----------------------------------------------------------------------------
(* isValidIp: the alternatives of its two regular expressions.             *)
Octet_LeadingZero ==
    UNION {[1..n -> DigitsFrom(0, 9)] : n \in 1..2}
        \cup {<<"1", a, b>> : a, b \in DigitsFrom(0, 9)}
        \cup {<<"2", a, b>> : a \in DigitsFrom(0, 4), b \in DigitsFrom(0, 9)}
        \cup {<<"2", "5", b>> : b \in DigitsFrom(0, 5)}
Octet ==
    {<<a>> : a \in DigitsFrom(0, 9)}
        \cup {<<a, b>> : a \in DigitsFrom(1, 9), b \in DigitsFrom(0, 9)}
        \cup {<<"1", a, b>> : a, b \in DigitsFrom(0, 9)}
        \cup {<<"2", a, b>> : a \in DigitsFrom(0, 4), b \in DigitsFrom(0, 9)}
        \cup {<<"2", "5", b>> : b \in DigitsFrom(0, 5)}
HexDigits == DigitsFrom(0, 9) \cup {"a", "b", "c", "d", "e", "f", "A", "B", "C", "D", "E", "F"}
IsGroup(text) == Len(text) \in 1..4 /\ Range(text) \subseteq HexDigits

isValidIp(text) ==
    \/ LET parts == splitString(text, ".")
       IN  Len(parts) = 4 /\ Range(parts) \subseteq Octet
    \/ LET parts == splitString(text, ":")
       IN  Len(parts) = 8 /\ \A i \in 1..8 : IsGroup(parts[i])
=============================================================================
