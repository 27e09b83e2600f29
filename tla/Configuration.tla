---------------------------- MODULE Configuration ----------------------------
(***************************************************************************)
(* What TrafficWarden makes of its configuration document: the checks of   *)
(* the broker's fields, of a route and of a stream transformer, and what   *)
(* is stored of each (traffic_warden.cpp, stream_transformer_*.cpp).       *)
(*                                                                         *)
(* A JSON value is its kind with its contents: a string has a text (or the *)
(* levels of a topic), an unsigned number its number, a boolean its truth, *)
(* an array its elements, an object its fields.  Any other value is of     *)
(* kind "other".                                                           *)
(***************************************************************************)
EXTENDS Integers, Sequences

CONSTANTS
    IntSize,        \* how many values an int has
    LongSize,       \* how many values an unsigned long has
    IsValidIp(_),   \* utilities::isValidIp
    HasTlsPrefix(_) \* of a server URI: it begins with ssl:// or wss://

ASSUME SizesAssumption ==
    /\ IntSize \in Nat \ {0} /\ IntSize % 2 = 0
    /\ LongSize \in Nat /\ IntSize <= LongSize

(* get<int>() of an unsigned number, which drops what does not fit.        *)
IntRange == -(IntSize \div 2) .. (IntSize \div 2) - 1
Narrowed(n) ==
    LET m == n % IntSize
    IN  IF m \in IntRange THEN m ELSE m - IntSize

(* The contents of a value, and those of the fields of an object, are of   *)
(* their kind.                                                             *)
IsList(s) == Len(s) \in Nat /\ DOMAIN s = 1..Len(s)
IsKinded(json) ==
    /\ json.kind = "unsigned" => json.number \in Nat
    /\ json.kind = "boolean" => json.truth \in BOOLEAN
    /\ json.kind = "array" => IsList(json.elements)
HasKindedFields(json) ==
    json.kind = "object" => \A key \in DOMAIN json.fields : IsKinded(json.fields[key])

(* contains(key), false of what is not an object; a mandatory and an       *)
(* optional field of a kind.                                               *)
Contains(json, key) == json.kind = "object" /\ key \in DOMAIN json.fields
Has(json, key, kind) == Contains(json, key) /\ json.fields[key].kind = kind
MayHave(json, key, kind) == Contains(json, key) => Has(json, key, kind)

-----------------------------------------------------------------------------
(* retrieve_broker_infos and configure_mqtt_client.  (A definition named   *)
(* X_Fault is X with a fault in it: it is not used, and stands for the     *)
(* mistake a property must reveal.)                                        *)
Stores == {"trustStore", "keyStore", "privateKey"}

IsSsl(json) == Has(json, "ssl", "boolean") /\ json.fields["ssl"].truth

MandatoryStores_WithoutPrivateKey == {"trustStore", "keyStore"}
MandatoryStores == Stores
IsValidBroker(json) ==
    /\ Has(json, "brokerAddress", "string")
    /\ IsValidIp(json.fields["brokerAddress"].text)
    /\ Has(json, "brokerUser", "string")
    /\ Has(json, "brokerPassword", "string")
    /\ MayHave(json, "clientId", "string")
    /\ MayHave(json, "keepAliveInterval", "unsigned")
    /\ Has(json, "ssl", "boolean")
    /\ IsSsl(json) => \A key \in MandatoryStores : Has(json, key, "string")

(* The stores that have a value in the broker's configuration; when all    *)
(* three have, the client is made by the constructor that sets the         *)
(* library's ssl options.  Its server URI is the address as it is.         *)
StoresOf(json) ==
    IF IsSsl(json) THEN {key \in Stores : Contains(json, key)} ELSE {}
ClientOf(json) ==
    [serverURI |-> json.fields["brokerAddress"].text,
     hasSslOptions |-> StoresOf(json) = Stores,
     keepAliveInterval |-> IF Contains(json, "keepAliveInterval")
                           THEN Narrowed(json.fields["keepAliveInterval"].number)
                           ELSE 60]

(* The client library connects with TLS when the URI asks for it, and the  *)
(* ssl options only say how.                                               *)
ConnectsWithTls(client) == HasTlsPrefix(client.serverURI)

-----------------------------------------------------------------------------
(* is_valid_topic, on the levels of the topic: "" has none, "/" has two    *)
(* empty ones.                                                             *)
IsValidTopic(levels) ==
    /\ levels # << >>
    /\ levels = <<"", "">> \/ (levels[1] # "" /\ levels[Len(levels)] # "")

IsValidRoute(json) ==
    /\ Has(json, "name", "string")
    /\ Has(json, "inputTopic", "string") /\ IsValidTopic(json.fields["inputTopic"].levels)
    /\ Has(json, "outputTopic", "string") /\ IsValidTopic(json.fields["outputTopic"].levels)

-----------------------------------------------------------------------------
(* setup() of a stream transformer: it stores a transformation, throws the *)
(* exception that retrieve_routes expects, or one of the JSON library.     *)
(* An index is read as an int and kept as an unsigned long.                *)
Set(transformer) == [outcome |-> "set", transformer |-> transformer]
Rejected == [outcome |-> "rejected"]
JsonError == [outcome |-> "jsonError"]

AsTypes == {"number", "string", "boolean"}
AsTypeOf(json) ==
    IF Contains(json, "as") THEN json.fields["as"].text ELSE "unknown"
KeepOf(json) == Contains(json, "keep") /\ json.fields["keep"].truth
IndexOf_Signed(json, key) == Narrowed(json.fields[key].number)
IndexOf(json, key) == Narrowed(json.fields[key].number) % LongSize
KeyOf(json, key) == json.fields[key].text

SetupTopicToTopic(json) ==
    IF Has(json, "from", "unsigned") /\ Has(json, "to", "unsigned")
    THEN Set([type |-> "topicToTopic",
              from |-> IndexOf(json, "from"), to |-> IndexOf(json, "to")])
    ELSE Rejected

SetupTopicToPayload(json) ==
    IF /\ Has(json, "from", "unsigned") /\ Has(json, "to", "string")
       /\ MayHave(json, "as", "string")
       /\ AsTypeOf(json) \in AsTypes \/ ~Contains(json, "as")
    THEN Set([type |-> "topicToPayload",
              from |-> IndexOf(json, "from"), to |-> KeyOf(json, "to"),
              as |-> AsTypeOf(json)])
    ELSE Rejected

SetupPayloadToTopic(json) ==
    IF /\ Has(json, "from", "string") /\ Has(json, "to", "unsigned")
       /\ MayHave(json, "keep", "boolean")
    THEN Set([type |-> "payloadToTopic",
              from |-> KeyOf(json, "from"), to |-> IndexOf(json, "to"),
              keep |-> KeepOf(json)])
    ELSE Rejected

(* The kind of "keep" is checked only without an "as"; with one, a "keep"  *)
(* that is not a boolean is found when it is read.                         *)
SetupPayloadToPayload_IgnoresKeep(json) ==
    IF \/ ~Has(json, "from", "string") \/ ~Has(json, "to", "string")
       \/ Contains(json, "as") /\ (~Has(json, "as", "string") \/ AsTypeOf(json) \notin AsTypes)
    THEN Rejected
    ELSE Set([type |-> "payloadToPayload",
              from |-> KeyOf(json, "from"), to |-> KeyOf(json, "to"),
              as |-> AsTypeOf(json), keep |-> FALSE])
SetupPayloadToPayload(json) ==
    IF \/ ~Has(json, "from", "string") \/ ~Has(json, "to", "string")
       \/ IF Contains(json, "as")
          THEN ~Has(json, "as", "string") \/ AsTypeOf(json) \notin AsTypes
          ELSE ~MayHave(json, "keep", "boolean")
    THEN Rejected
    ELSE IF ~MayHave(json, "keep", "boolean")
         THEN JsonError
         ELSE Set([type |-> "payloadToPayload",
                   from |-> KeyOf(json, "from"), to |-> KeyOf(json, "to"),
                   as |-> AsTypeOf(json), keep |-> KeepOf(json)])

(* is_valid_stream_transformer, the choice of the class and its setup().   *)
SetupTransformer(json) ==
    IF ~Has(json, "type", "string")
    THEN Rejected
    ELSE CASE json.fields["type"].text = "topicToPayload" -> SetupTopicToPayload(json)
           [] json.fields["type"].text = "topicToTopic" -> SetupTopicToTopic(json)
           [] json.fields["type"].text = "payloadToTopic" -> SetupPayloadToTopic(json)
           [] json.fields["type"].text = "payloadToPayload" -> SetupPayloadToPayload(json)
           [] OTHER -> Rejected
=============================================================================
