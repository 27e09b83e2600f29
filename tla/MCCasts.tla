------------------------------ MODULE MCCasts ------------------------------
(* Texts, one character after the other: every text over one of a few      *)
(* alphabets, up to a length, is a state.  An int has 6 bits, so that a    *)
(* float of 3 cannot hold every int, just as with the real widths.         *)
EXTENDS Casts

VARIABLES alphabet, text
vars == <<alphabet, text>>

Alphabet(begin, letters, longest) ==
    [begin |-> begin, letters |-> letters, longest |-> longest]
SixGroups == [i \in 1..12 |-> IF i % 2 = 1 THEN "1" ELSE ":"]
Alphabets ==
    {Alphabet(<< >>, {"+", "-", ".", "0", "1", "7", "8", "x"}, 4),  \* numbers
     Alphabet(<< >>, {"0", "1", "2", "5", "6", "."}, 4),            \* IPv4
     Alphabet(<< >>, {"1", "0", "."}, 8),
     Alphabet(SixGroups, {":", "1"}, 19),                           \* IPv6
     Alphabet(<< >>, {"t", "r", "u", "e"}, 4),                      \* booleans
     Alphabet(<< >>, {"a", "/"}, 6)}                                \* topics

Init == alphabet \in Alphabets /\ text = alphabet.begin
Next ==
    /\ Len(text) < alphabet.longest
    /\ \E c \in alphabet.letters : text' = Append(text, c)
    /\ UNCHANGED alphabet
Spec == Init /\ [][Next]_vars

MCCharacter == [code \in 0..3 |-> IF code = 2 THEN "/" ELSE "x"]

LevelsOf(t) == IF t = << >> THEN << t >> ELSE splitString(t, "/")

(* The transformers, with these conversions.                               *)
Execute == INSTANCE StreamTransformers WITH
    Key <- {}, Text <- {}, LevelsOf <- LevelsOf,
    IsInt <- isInt, IsFloat <- isFloat, IsDouble <- isDouble, IsBool <- isBool,
    AsLong <- lexical_cast_long, AsFloat <- lexical_cast_float,
    AsDouble <- lexical_cast_double, AsBoolean <- lexical_cast_bool,
    AsCharacter <- json_to_string

IsNumber(t) == Len(t) <= Fractions + 1 /\ Execute!IsNumber(t)
Value(t) == Signed(t, Magnitude(t))
Number(t) == Execute!AsNumber(t).text

(* JSON writes an integer without a plus and without leading zeros.        *)
IsCanonical(t) == IsInteger(t) /\ t = DumpedInteger(Signed(t, Natural(Unsigned(t), 10)))

Integers == {t \in UNION {[1..n -> {"-", "0", "1", "7", "8"}] : n \in 1..4} : IsCanonical(t)}
Converted == {<<Value(t), Value(Number(t))>> : t \in {i \in Integers : IsNumber(i)}}

-----------------------------------------------------------------------------
(* A JSON integer that an int holds is the same number, in the same        *)
(* digits, after a conversion "as number", although it is looked at as a   *)
(* decimal and converted as a number of any base, and a float could not    *)
(* hold it.                                                                *)
IntegersKept == (IsNumber(text) /\ IsCanonical(text) /\ isInt(text)) => Number(text) = text

(* A JSON integer that is not less than another one is not less after the  *)
(* conversion, across the limits of an int, of a float and of a double.    *)
OrderIsKept ==
    (IsNumber(text) /\ IsCanonical(text)) =>
        \A other \in Converted :
            Value(text) <= other[1] => Value(Number(text)) <= other[2]

(* What a conversion has written reads as the same number, an integer only *)
(* if the text was one: a message that comes through a second route is not *)
(* changed again.                                                          *)
RereadsAsItself ==
    IsNumber(text) =>
        /\ Execute!IsNumber(Number(text))
        /\ Number(Number(text)) = Number(text)
        /\ isInt(Number(text)) <=> isInt(text)

(* Splitting loses nothing, leading, trailing and doubled slashes included,*)
(* and joining undoes it; a topic is valid exactly when its outer levels   *)
(* are not empty, but for "/": so that the other modules may take a topic  *)
(* for its levels.                                                         *)
SplitIsExact ==
    LET levels == splitString(text, "/")
    IN  /\ joinStrings(levels, "/") = text
        /\ text # << >> => Len(levels) = Cardinality({i \in DOMAIN text : text[i] = "/"}) + 1
        /\ \A i \in DOMAIN levels : "/" \notin Range(levels[i])
        /\ isValidTopic(text) <=>
              /\ levels # << >>
              /\ levels = << << >>, << >> >> \/ (levels[1] # << >> /\ Last(levels) # << >>)

(* Putting a text into a topic is putting its levels, of which an empty    *)
(* text has one, between those of the topic.                               *)
InsertsLevels ==
    text # << >> =>
        \A index \in 0..4, new \in {<< >>, <<"a">>, <<"/">>, <<"a", "/", "x">>} :
            splitString(withLevel(text, index, new), "/") =
                Execute!Insert(splitString(text, "/"), index,
                               LevelsOf(new))

(* An address is four numbers of a byte without leading zeros, or eight   *)
(* groups of one to four hexadecimal digits; in particular it ends where   *)
(* these do.                                                               *)
FourBytes(t) ==
    LET parts == splitString(t, ".")
    IN  Len(parts) = 4 /\ \A i \in 1..4 : \E n \in 0..255 : parts[i] = Numeral[n]
EightGroups(t) ==
    LET colons == {i \in DOMAIN t : t[i] = ":"}
        bounds == colons \cup {0, Len(t) + 1}
    IN  /\ Cardinality(colons) = 7
        /\ \A i \in bounds \ {Len(t) + 1} : i + 1 \notin bounds
        /\ \A i \in 1 .. Len(t) - 4 : (i .. i + 4) \cap colons # {}
        /\ \A i \in DOMAIN t \ colons : t[i] \in HexDigits
AddressIsComplete == isValidIp(text) <=> (FourBytes(text) \/ EightGroups(text))

(* "The input payload is expected to be a boolean, instead it is ...": what*)
(* that is said of is not the name of a boolean.                           *)
BooleansAreRecognized == text \in BooleanNames => isBool(text)

=============================================================================
