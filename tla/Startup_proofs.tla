--------------------------- MODULE Startup_proofs ---------------------------
(***************************************************************************)
(* The start of the program for every set of configuration documents: what *)
(* starts the threads, what is rejected, and what the threads then work    *)
(* with.                                                                   *)
(***************************************************************************)
EXTENDS Startup, TLAPS

(* An int holds what is narrowed to it, and an unsigned long the index     *)
(* made of that, which stands for the number.                              *)
LEMMA IndexIsKept ==
    ASSUME NEW n \in Nat
    PROVE  /\ Narrowed(n) \in IntRange
           /\ Narrowed(n) % LongSize \in 0 .. LongSize - 1
           /\ StandsFor(Narrowed(n) % LongSize, n)
<1>1. /\ IntSize \in Nat \ {0} /\ LongSize \in Nat \ {0} /\ IntSize <= LongSize
      /\ IntSize = 2 * (IntSize \div 2) /\ IntSize \div 2 \in Nat
  BY SizesAssumption
<1>2. n % IntSize \in 0 .. IntSize - 1
  BY <1>1
<1>3. Narrowed(n) \in IntRange
  BY <1>1, <1>2 DEF Narrowed, IntRange
<1>4. Narrowed(n) % LongSize \in 0 .. LongSize - 1
  BY <1>1, <1>3 DEF IntRange
<1> DEFINE held == Narrowed(n)
<1>5. \E k \in 0..n + 1 : n = held + IntSize * k
  <2>1. /\ n \div IntSize \in Nat /\ n \div IntSize <= n
        /\ n = IntSize * (n \div IntSize) + (n % IntSize)
    BY <1>1
  <2>2. CASE n % IntSize \in IntRange
    <3>1. held = n % IntSize
      BY <2>2 DEF Narrowed
    <3>2. n = held + IntSize * (n \div IntSize) /\ n \div IntSize \in 0..n + 1
      BY <1>1, <1>2, <2>1, <3>1
    <3> QED BY <3>2
  <2>3. CASE n % IntSize \notin IntRange
    <3>1. held = (n % IntSize) - IntSize
      BY <2>3 DEF Narrowed
    <3>2. IntSize * ((n \div IntSize) + 1) = IntSize * (n \div IntSize) + IntSize
      BY <1>1, <2>1
    <3>3. /\ n = held + IntSize * ((n \div IntSize) + 1)
          /\ (n \div IntSize) + 1 \in 0..n + 1
      BY <1>1, <1>2, <2>1, <3>1, <3>2
    <3> QED BY <3>3
  <2> QED BY <2>2, <2>3
<1>6. held % LongSize = IF held < 0 THEN LongSize + held ELSE held
  <2>1. -LongSize <= held /\ held < LongSize /\ held \in Int
    BY <1>1, <1>3 DEF IntRange
  <2> HIDE DEF held
  <2>2. CASE held >= 0
    BY <1>1, <2>1, <2>2
  <2>3. CASE held < 0
    BY <1>1, <2>1, <2>3
  <2> QED BY <2>1, <2>2, <2>3
<1> QED BY <1>3, <1>4, <1>5, <1>6 DEF StandsFor

-----------------------------------------------------------------------------
(* The kinds a schema asks for, type by type.                              *)
Types == {"topicToTopic", "topicToPayload", "payloadToTopic", "payloadToPayload"}

(* Which fields is_valid_setup() asks for, and of which kind, written out. *)
LEMMA Schemas ==
    /\ DOMAIN Schema = Types
    /\ Schema["topicToTopic"] = [from |-> "unsigned", to |-> "unsigned"]
    /\ Schema["topicToPayload"] = [from |-> "unsigned", to |-> "string", as |-> "string"]
    /\ Schema["payloadToTopic"] = [from |-> "string", to |-> "unsigned", keep |-> "boolean"]
    /\ Schema["payloadToPayload"] =
          [from |-> "string", to |-> "string", as |-> "string", keep |-> "boolean"]
BY DEF Schema, Types

(* setup() ends in one of three ways, and stores a transformation exactly  *)
(* when the document's entry conforms to the schema of its type.           *)
LEMMA SetupIffConforms ==
    ASSUME NEW json
    PROVE  /\ SetupTransformer(json).outcome \in {"set", "rejected", "jsonError"}
           /\ SetupTransformer(json).outcome = "set" <=> ConformsToSchema(json)
<1> DEFINE type == json.fields["type"].text
<1>1. CASE ~Has(json, "type", "string") \/ type \notin Types
  <2>1. SetupTransformer(json) = Rejected
    BY <1>1 DEF SetupTransformer, Types
  <2>2. ~ConformsToSchema(json)
    BY <1>1, Schemas DEF ConformsToSchema
  <2> QED BY <2>1, <2>2 DEF Rejected
<1>2. CASE Has(json, "type", "string") /\ type = "topicToTopic"
  <2>1. SetupTransformer(json) = SetupTopicToTopic(json)
    BY <1>2 DEF SetupTransformer
  <2>2. ConformsToSchema(json) <=>
            Has(json, "from", "unsigned") /\ Has(json, "to", "unsigned")
    BY <1>2, Schemas DEF ConformsToSchema, Has, Contains, Types
  <2> QED BY <2>1, <2>2 DEF SetupTopicToTopic, Set, Rejected
<1>3. CASE Has(json, "type", "string") /\ type = "topicToPayload"
  <2>1. SetupTransformer(json) = SetupTopicToPayload(json)
    BY <1>3 DEF SetupTransformer
  <2>2. ConformsToSchema(json) <=>
            /\ Has(json, "from", "unsigned") /\ Has(json, "to", "string")
            /\ MayHave(json, "as", "string")
            /\ AsTypeOf(json) \in AsTypes \/ ~Contains(json, "as")
    BY <1>3, Schemas
       DEF ConformsToSchema, Has, MayHave, Contains, Types, AsTypeOf, AsTypes
  <2> QED BY <2>1, <2>2 DEF SetupTopicToPayload, Set, Rejected
<1>4. CASE Has(json, "type", "string") /\ type = "payloadToTopic"
  <2>1. SetupTransformer(json) = SetupPayloadToTopic(json)
    BY <1>4 DEF SetupTransformer
  <2>2. ConformsToSchema(json) <=>
            /\ Has(json, "from", "string") /\ Has(json, "to", "unsigned")
            /\ MayHave(json, "keep", "boolean")
    BY <1>4, Schemas DEF ConformsToSchema, Has, MayHave, Contains, Types
  <2> QED BY <2>1, <2>2 DEF SetupPayloadToTopic, Set, Rejected
<1>5. CASE Has(json, "type", "string") /\ type = "payloadToPayload"
  <2>1. SetupTransformer(json) = SetupPayloadToPayload(json)
    BY <1>5 DEF SetupTransformer
  <2>2. ConformsToSchema(json) <=>
            /\ Has(json, "from", "string") /\ Has(json, "to", "string")
            /\ MayHave(json, "keep", "boolean") /\ MayHave(json, "as", "string")
            /\ AsTypeOf(json) \in AsTypes \/ ~Contains(json, "as")
    BY <1>5, Schemas
       DEF ConformsToSchema, Has, MayHave, Contains, Types, AsTypeOf, AsTypes
  <2> QED BY <2>1, <2>2 DEF SetupPayloadToPayload, Set, Rejected, JsonError, Has, MayHave
<1> QED BY <1>1, <1>2, <1>3, <1>4, <1>5 DEF Types

(* The indices of a transformation are unsigned numbers.                   *)
IndicesFit(t) ==
    /\ t.type \in {"topicToTopic", "topicToPayload"} => t.from \in 0 .. LongSize - 1
    /\ t.type \in {"topicToTopic", "payloadToTopic"} => t.to \in 0 .. LongSize - 1

(* What setup() stores is what the entry says, its numbers narrowed to an  *)
(* int and read as unsigned.                                               *)
LEMMA SetupKeeps ==
    ASSUME NEW json, HasKindedFields(json), SetupTransformer(json).outcome = "set"
    PROVE  /\ IndicesFit(SetupTransformer(json).transformer)
           /\ SameTransformer(SetupTransformer(json).transformer, json)
<1> DEFINE type == json.fields["type"].text
           made == SetupTransformer(json).transformer
<1>1. ConformsToSchema(json) /\ json.kind = "object" /\ type \in Types
  BY SetupIffConforms, Schemas DEF ConformsToSchema, Has, Contains
<1>2. ASSUME NEW key, Has(json, key, "unsigned")
      PROVE  /\ IndexOf(json, key) \in 0 .. LongSize - 1
             /\ StandsFor(IndexOf(json, key), json.fields[key].number)
  <2>1. json.fields[key].number \in Nat
    BY <1>2 DEF HasKindedFields, IsKinded, Has, Contains
  <2> QED BY <2>1, IndexIsKept DEF IndexOf
<1>3. CASE type = "topicToTopic"
  <2>1. SetupTransformer(json) = SetupTopicToTopic(json)
    BY <1>1, <1>3 DEF SetupTransformer, ConformsToSchema
  <2>2. /\ Has(json, "from", "unsigned") /\ Has(json, "to", "unsigned")
        /\ made = [type |-> "topicToTopic",
                   from |-> IndexOf(json, "from"), to |-> IndexOf(json, "to")]
    BY <2>1 DEF SetupTopicToTopic, Set, Rejected
  <2> HIDE DEF made
  <2>3. IndicesFit(made) /\ SameTransformer(made, json)
    BY <1>2, <1>3, <2>2 DEF IndicesFit, SameTransformer, Has
  <2> QED BY <2>3 DEF made
<1>4. CASE type = "topicToPayload"
  <2>1. SetupTransformer(json) = SetupTopicToPayload(json)
    BY <1>1, <1>4 DEF SetupTransformer, ConformsToSchema
  <2>2. /\ Has(json, "from", "unsigned") /\ Has(json, "to", "string")
        /\ made = [type |-> "topicToPayload",
                   from |-> IndexOf(json, "from"), to |-> KeyOf(json, "to"),
                   as |-> AsTypeOf(json)]
    BY <2>1 DEF SetupTopicToPayload, Set, Rejected
  <2> HIDE DEF made
  <2>3. IndicesFit(made) /\ SameTransformer(made, json)
    BY <1>2, <1>4, <2>2 DEF IndicesFit, SameTransformer, Has, KeyOf
  <2> QED BY <2>3 DEF made
<1>5. CASE type = "payloadToTopic"
  <2>1. SetupTransformer(json) = SetupPayloadToTopic(json)
    BY <1>1, <1>5 DEF SetupTransformer, ConformsToSchema
  <2>2. /\ Has(json, "from", "string") /\ Has(json, "to", "unsigned")
        /\ made = [type |-> "payloadToTopic",
                   from |-> KeyOf(json, "from"), to |-> IndexOf(json, "to"),
                   keep |-> KeepOf(json)]
    BY <2>1 DEF SetupPayloadToTopic, Set, Rejected
  <2> HIDE DEF made
  <2>3. IndicesFit(made) /\ SameTransformer(made, json)
    BY <1>2, <1>5, <2>2 DEF IndicesFit, SameTransformer, Has, KeyOf
  <2> QED BY <2>3 DEF made
<1>6. CASE type = "payloadToPayload"
  <2>1. SetupTransformer(json) = SetupPayloadToPayload(json)
    BY <1>1, <1>6 DEF SetupTransformer, ConformsToSchema
  <2>2. /\ Has(json, "from", "string") /\ Has(json, "to", "string")
        /\ made = [type |-> "payloadToPayload",
                   from |-> KeyOf(json, "from"), to |-> KeyOf(json, "to"),
                   as |-> AsTypeOf(json), keep |-> KeepOf(json)]
    BY <2>1 DEF SetupPayloadToPayload, Set, Rejected, JsonError
  <2> HIDE DEF made
  <2>3. IndicesFit(made) /\ SameTransformer(made, json)
    BY <1>6, <2>2 DEF IndicesFit, SameTransformer, Has, KeyOf
  <2> QED BY <2>3 DEF made
<1> QED BY <1>1, <1>3, <1>4, <1>5, <1>6 DEF Types

-----------------------------------------------------------------------------
(* The stream transformers a route lists.                                  *)
TransformersOf(route) ==
    IF Contains(route, "streamTransformers")
    THEN route.fields["streamTransformers"].elements
    ELSE << >>

(* A route of one of the documents.                                        *)
IsRoute(route) ==
    /\ HasKindedFields(route)
    /\ \A key \in {"inputTopic", "outputTopic"} :
          Has(route, key, "string") => route.fields[key].levels \in Seq(STRING)
    /\ Has(route, "streamTransformers", "array") =>
          \A j \in DOMAIN route.fields["streamTransformers"].elements :
             HasKindedFields(route.fields["streamTransformers"].elements[j])

(* What retrieve_routes checks of a route before, and what within, the loop*)
(* over its stream transformers.                                           *)
HeadAccepted(route) ==
    IsValidRoute(route) /\ MayHave(route, "streamTransformers", "array")
SetUp(route, i) == SetupTransformer(TransformersOf(route)[i]).outcome = "set"
Accepted(route) ==
    HeadAccepted(route) /\ \A i \in DOMAIN TransformersOf(route) : SetUp(route, i)

(* The two checks together accept what conforms, and nothing else.         *)
LEMMA AcceptsConforming ==
    ASSUME NEW route, IsRoute(route)
    PROVE  Accepted(route) <=> RouteConforms(route)
<1>1. \A i : SetUp(route, i) <=> ConformsToSchema(TransformersOf(route)[i])
  BY SetupIffConforms DEF SetUp
<1>2. ASSUME NEW key \in {"inputTopic", "outputTopic"}, Has(route, key, "string")
      PROVE  IsValidTopic(route.fields[key].levels) <=>
                 LET levels == route.fields[key].levels
                 IN  IF levels = <<"", "">> THEN TRUE
                     ELSE Len(levels) > 0 /\ levels[1] # "" /\ levels[Len(levels)] # ""
  <2>1. PICK levels \in Seq(STRING) : levels = route.fields[key].levels
    BY <1>2 DEF IsRoute
  <2>2. levels # << >> <=> Len(levels) > 0
    OBVIOUS
  <2>3. Len(<<"", "">>) = 2
    OBVIOUS
  <2>4. <<"", "">> # << >>
    BY <2>3
  <2> QED BY <2>1, <2>2, <2>4 DEF IsValidTopic
<1>3. IsValidRoute(route) <=>
          /\ route.kind = "object"
          /\ {"name", "inputTopic", "outputTopic"} \subseteq DOMAIN route.fields
          /\ \A key \in {"name", "inputTopic", "outputTopic"} :
                route.fields[key].kind = "string"
          /\ \A key \in {"inputTopic", "outputTopic"} :
                LET levels == route.fields[key].levels
                IN  IF levels = <<"", "">> THEN TRUE
                    ELSE Len(levels) > 0 /\ levels[1] # "" /\ levels[Len(levels)] # ""
  BY <1>2 DEF IsValidRoute, Has, Contains
<1>4. CASE route.kind # "object"
  BY <1>3, <1>4 DEF Accepted, HeadAccepted, RouteConforms
<1>5. CASE route.kind = "object" /\ "streamTransformers" \in DOMAIN route.fields
  <2>1. /\ TransformersOf(route) = route.fields["streamTransformers"].elements
        /\ MayHave(route, "streamTransformers", "array") <=>
               route.fields["streamTransformers"].kind = "array"
    BY <1>5 DEF TransformersOf, MayHave, Has, Contains
  <2> QED BY <1>1, <1>3, <1>5, <2>1 DEF Accepted, HeadAccepted, RouteConforms
<1>6. CASE route.kind = "object" /\ "streamTransformers" \notin DOMAIN route.fields
  <2>1. TransformersOf(route) = << >> /\ MayHave(route, "streamTransformers", "array")
    BY <1>6 DEF TransformersOf, MayHave, Has, Contains
  <2>2. DOMAIN TransformersOf(route) = {}
    BY <2>1
  <2> QED BY <1>3, <1>6, <2>1, <2>2 DEF Accepted, HeadAccepted, RouteConforms
<1> QED BY <1>4, <1>5, <1>6

(* The list of the routes' stream transformers is one, if it was accepted. *)
LEMMA TransformersAreList ==
    ASSUME NEW route, IsRoute(route), MayHave(route, "streamTransformers", "array")
    PROVE  /\ IsList(TransformersOf(route))
           /\ \A j \in DOMAIN TransformersOf(route) : HasKindedFields(TransformersOf(route)[j])
<1>1. CASE Contains(route, "streamTransformers")
  <2>1. Has(route, "streamTransformers", "array")
    BY <1>1 DEF MayHave
  <2>2. TransformersOf(route) = route.fields["streamTransformers"].elements
    BY <1>1 DEF TransformersOf
  <2> QED BY <2>1, <2>2 DEF IsRoute, HasKindedFields, IsKinded, Has, Contains
<1>2. CASE ~Contains(route, "streamTransformers")
  <2>1. TransformersOf(route) = << >>
    BY <1>2 DEF TransformersOf
  <2>2. Len(<< >>) = 0 /\ DOMAIN << >> = {}
    OBVIOUS
  <2> QED BY <2>1, <2>2 DEF IsList
<1> QED BY <1>1, <1>2

(* The routes of a document are a list of routes.                          *)
LEMMA RoutesAreList ==
    ASSUME config \in Configurations, Has(config, "routes", "array")
    PROVE  IsList(RouteList) /\ \A i \in DOMAIN RouteList : IsRoute(RouteList[i])
<1>1. HasKindedFields(config) /\ config.kind = "object" /\ "routes" \in DOMAIN config.fields
  BY ConfigurationsAssumption DEF Has, Contains
<1>2. IsList(RouteList)
  BY <1>1 DEF HasKindedFields, IsKinded, Has, Contains, RouteList
<1>3. \A i \in DOMAIN RouteList : IsRoute(RouteList[i])
  BY ConfigurationsAssumption DEF RouteList, IsRoute
<1> QED BY <1>2, <1>3

-----------------------------------------------------------------------------
(* What setup() makes of entries of the document, and what is stored of a  *)
(* route: sets that the lists built from them are over.                    *)
Entries ==
    UNION {{TransformersOf(RouteList[i])[j] : j \in DOMAIN TransformersOf(RouteList[i])} :
              i \in {n \in DOMAIN RouteList : HeadAccepted(RouteList[n])}}
Transformations ==
    {SetupTransformer(entry).transformer :
        entry \in {e \in Entries : SetupTransformer(e).outcome = "set"}}
Stored == [outputTopic: Seq(STRING), streamTransformers: Seq(Transformations)]

(* Which documents are read, with what client and into what.               *)
KindInv ==
    /\ phase \in {"start", "routes", "nextRoute", "inRoute", "noRoutes", "relaying",
                  "failed", "killed"}
    /\ error \in {"none", "initialization", "json"}
    /\ exited \in {"no", "success", "failure", "killed"}
    /\ \/ client = << >>
       \/ config \in Configurations /\ IsValidBroker(config) /\ client = <<ClientOf(config)>>
    /\ phase = "start" => client = << >>
    /\ phase \in {"routes", "nextRoute", "inRoute", "noRoutes", "relaying"} => client # << >>
    /\ phase \in {"start", "routes"} => routeNumber = 1 /\ routes = << >>
    /\ phase \in {"nextRoute", "inRoute", "noRoutes", "relaying"} =>
          Has(config, "routes", "array")
    /\ config \in Configurations \cup {Unparsable}
    /\ routes # << >> => config \in Configurations /\ Has(config, "routes", "array")

(* The routes before the current one were accepted, and of the current one *)
(* the stream transformers that have been set up.                          *)
Reading == phase \in {"nextRoute", "inRoute", "noRoutes", "relaying"}
ReadInv ==
    /\ Reading =>
          /\ routeNumber \in 1..Len(RouteList) + 1
          /\ \A i \in 1..routeNumber - 1 : Accepted(RouteList[i])
    /\ phase \in {"noRoutes", "relaying"} => routeNumber = Len(RouteList) + 1
    /\ phase = "inRoute" =>
          /\ routeNumber <= Len(RouteList)
          /\ HeadAccepted(Route)
          /\ properties \in Stored
          /\ properties.outputTopic = Route.fields["outputTopic"].levels
          /\ Len(properties.streamTransformers) <= Len(TransformerList)
          /\ \A i \in DOMAIN properties.streamTransformers :
                /\ SetUp(Route, i)
                /\ properties.streamTransformers[i] =
                      SetupTransformer(TransformerList[i]).transformer
    /\ (phase = "failed" /\ client # << >> /\ Has(config, "routes", "array")) =>
          \E i \in DOMAIN RouteList : ~RouteConforms(RouteList[i])

(* The table holds the routes read so far, those of a topic in their order.*)
IsMadeOf(p, route) ==
    /\ p.outputTopic = route.fields["outputTopic"].levels
    /\ Len(p.streamTransformers) = Len(TransformersOf(route))
    /\ \A i \in DOMAIN TransformersOf(route) :
          p.streamTransformers[i] = SetupTransformer(TransformersOf(route)[i]).transformer
InputTopic(i) == RouteList[i].fields["inputTopic"].levels
ReadNaming(t) == {i \in 1..routeNumber - 1 : InputTopic(i) = t}
ArePlaces(place, list, S) ==
    /\ place \in [DOMAIN list -> S]
    /\ Range(place) = S
    /\ \A i, j \in DOMAIN list : i < j => place[i] < place[j]
Gathers(list, t) ==
    \E place :
       /\ ArePlaces(place, list, ReadNaming(t))
       /\ \A i \in DOMAIN list : IsMadeOf(list[i], RouteList[place[i]])
TableInv ==
    /\ \A t \in DOMAIN routes : routes[t] \in Seq(Stored)
    /\ Reading =>
          /\ DOMAIN routes = {InputTopic(i) : i \in 1..routeNumber - 1}
          /\ \A t \in DOMAIN routes : Gathers(routes[t], t)

IInv == KindInv /\ ReadInv /\ TableInv

-----------------------------------------------------------------------------
(* The start: no document has been read.                                   *)
LEMMA StartInit ==
    ASSUME Init
    PROVE  IInv
<1>1. KindInv
  BY DEF Init, KindInv
<1>2. ReadInv
  BY DEF Init, ReadInv, Reading
<1>3. DOMAIN routes = {}
  BY DEF Init
<1>4. TableInv
  BY <1>3 DEF Init, TableInv, Reading
<1> QED BY <1>1, <1>2, <1>4 DEF IInv

(* Whatever happens, the client is the one of the document.                *)
LEMMA KindStep ==
    ASSUME KindInv, [Next]_vars
    PROVE  KindInv'
<1> USE DEF KindInv
<1>1. CASE ConfigureBroker
  <2>1. CASE config = Unparsable \/ ~IsValidBroker(config)
    BY <1>1, <2>1 DEF ConfigureBroker, Throw
  <2>2. CASE ~(config = Unparsable \/ ~IsValidBroker(config))
    BY <1>1, <2>2 DEF ConfigureBroker
  <2> QED BY <2>1, <2>2
<1>2. CASE BeginRoutes
  BY <1>2 DEF BeginRoutes, Throw
<1>3. CASE BeginRoute
  BY <1>3 DEF BeginRoute, Throw
<1>4. CASE AddTransformer
  <2>1. \/ Throw("initialization") \/ Throw("json")
        \/ UNCHANGED <<config, phase, client, routeNumber, routes, error, typed, exited>>
    BY <1>4, SetupIffConforms DEF AddTransformer
  <2> QED BY <1>4, <2>1 DEF Throw, AddTransformer
<1>5. CASE EndRoute
  BY <1>5 DEF EndRoute
<1>6. CASE EndRoutes
  BY <1>6 DEF EndRoutes
<1>7. CASE ReadCharacter
  BY <1>7 DEF ReadCharacter
<1>8. CASE Interrupt
  BY <1>8 DEF Interrupt
<1>9. CASE UNCHANGED vars
  BY <1>9 DEF vars
<1> QED BY <1>1, <1>2, <1>3, <1>4, <1>5, <1>6, <1>7, <1>8, <1>9 DEF Next, MainThread

(* While the routes are read, they are a list of routes of a document.     *)
LEMMA WhileReading ==
    ASSUME KindInv, phase \in {"nextRoute", "inRoute", "noRoutes", "relaying"}
    PROVE  /\ config \in Configurations /\ client # << >>
           /\ IsList(RouteList)
           /\ \A i \in DOMAIN RouteList : IsRoute(RouteList[i])
<1>1. config \in Configurations /\ client # << >> /\ Has(config, "routes", "array")
  BY DEF KindInv
<1> QED BY <1>1, RoutesAreList

(* An iteration of the loop over the stream transformers.                  *)
LEMMA WhileInRoute ==
    ASSUME KindInv, ReadInv, phase = "inRoute"
    PROVE  /\ routeNumber \in DOMAIN RouteList /\ IsRoute(Route) /\ HeadAccepted(Route)
           /\ TransformerList = TransformersOf(Route)
           /\ IsList(TransformerList)
           /\ \A j \in DOMAIN TransformerList : HasKindedFields(TransformerList[j])
<1>1. routeNumber \in DOMAIN RouteList /\ IsRoute(Route) /\ HeadAccepted(Route)
  BY WhileReading DEF ReadInv, Reading, IsList, Route
<1>2. TransformerList = TransformersOf(Route)
  BY DEF TransformerList, TransformersOf
<1> QED BY <1>1, <1>2, TransformersAreList DEF HeadAccepted

(* What is rejected does not conform.                                      *)
LEMMA RejectedDoesNotConform ==
    ASSUME NEW route, IsRoute(route), ~Accepted(route)
    PROVE  ~RouteConforms(route)
BY AcceptsConforming

(* What was accepted of the routes stays so: the document does not change. *)
LEMMA ReadStep ==
    ASSUME KindInv, ReadInv, [Next]_vars
    PROVE  ReadInv'
<1>1. CASE ConfigureBroker
  BY <1>1 DEF ConfigureBroker, Throw, KindInv, ReadInv, Reading
<1>2. CASE BeginRoutes
  <2>1. CASE ~Has(config, "routes", "array")
    BY <1>2, <2>1 DEF BeginRoutes, Throw, ReadInv, Reading, KindInv, Has
  <2>2. CASE Has(config, "routes", "array")
    <3>1. /\ phase' = "nextRoute" /\ config' = config /\ routeNumber' = 1
      BY <1>2, <2>2 DEF BeginRoutes, KindInv, Has
    <3>2. IsList(RouteList)
      BY <1>2, <2>2, RoutesAreList DEF BeginRoutes, KindInv
    <3>3. RouteList' = RouteList
      BY <3>1 DEF RouteList
    <3> QED BY <3>1, <3>2, <3>3 DEF ReadInv, Reading, IsList
  <2> QED BY <2>1, <2>2
<1>3. CASE BeginRoute
  <2>1. /\ phase = "nextRoute" /\ IsList(RouteList) /\ routeNumber \in DOMAIN RouteList
        /\ IsRoute(Route)
    BY <1>3, WhileReading DEF BeginRoute, ReadInv, Reading, IsList, Route
  <2>2. config' = config /\ routeNumber' = routeNumber
    BY <1>3 DEF BeginRoute, Throw
  <2>3. RouteList' = RouteList /\ Route' = Route /\ TransformerList' = TransformerList
    BY <2>2 DEF RouteList, Route, TransformerList
  <2>4. CASE ~HeadAccepted(Route)
    <3>1. phase' = "failed"
      BY <1>3, <2>4 DEF BeginRoute, Throw, HeadAccepted
    <3>2. ~RouteConforms(RouteList[routeNumber])
      BY <2>1, <2>4, RejectedDoesNotConform DEF Accepted, Route
    <3> QED BY <2>1, <2>3, <3>1, <3>2 DEF ReadInv, Reading
  <2>5. CASE HeadAccepted(Route)
    <3>1. /\ phase' = "inRoute"
          /\ properties' = [outputTopic |-> Route.fields["outputTopic"].levels,
                            streamTransformers |-> << >>]
      BY <1>3, <2>5 DEF BeginRoute, HeadAccepted
    <3>2. Route.fields["outputTopic"].levels \in Seq(STRING)
      BY <2>1, <2>5 DEF IsRoute, HeadAccepted, IsValidRoute
    <3>3. properties' \in Stored'
      BY <3>1, <3>2 DEF Stored
    <3>4. IsList(TransformerList)
      BY <2>1, <2>5, TransformersAreList DEF HeadAccepted, TransformerList, TransformersOf
    <3>5. Len(properties'.streamTransformers) = 0 /\ DOMAIN properties'.streamTransformers = {}
      BY <3>1
    <3>6. routeNumber <= Len(RouteList)
      BY <1>3 DEF BeginRoute
    <3> QED BY <2>1, <2>2, <2>3, <2>5, <3>1, <3>3, <3>4, <3>5, <3>6 DEF ReadInv, Reading, IsList
  <2> QED BY <2>4, <2>5
<1>4. CASE AddTransformer
  <2>1. PICK entry, n :
            /\ n = Len(properties.streamTransformers) + 1
            /\ entry = TransformerList[n]
    OBVIOUS
  <2>2. /\ phase = "inRoute" /\ properties \in Stored
        /\ properties.streamTransformers \in Seq(Transformations)
        /\ n \in Nat /\ n \in DOMAIN TransformerList /\ n \in DOMAIN TransformersOf(Route)
        /\ entry = TransformersOf(Route)[n] /\ n <= Len(TransformerList)
    BY <1>4, <2>1, WhileInRoute DEF AddTransformer, ReadInv, Stored, IsList
  <2>3. UNCHANGED <<config, routeNumber, RouteList, Route, TransformerList, Transformations>>
    <3>1. config' = config /\ routeNumber' = routeNumber
      BY <1>4, SetupIffConforms DEF AddTransformer, Throw
    <3>2. RouteList' = RouteList
      BY <3>1 DEF RouteList
    <3>3. Route' = Route
      BY <3>1, <3>2 DEF Route
    <3>4. TransformerList' = TransformerList
      BY <3>3 DEF TransformerList
    <3>5. Entries' = Entries
      BY <3>2 DEF Entries
    <3>6. Transformations' = Transformations
      BY <3>5 DEF Transformations
    <3> QED BY <3>1, <3>2, <3>3, <3>4, <3>6
  <2>4. CASE SetupTransformer(entry).outcome = "set"
    <3>1. PICK made : made = SetupTransformer(entry).transformer
      OBVIOUS
    <3>2. made \in Transformations
      <4>1. entry \in Entries
        BY <1>4, <2>2, WhileInRoute DEF AddTransformer, Entries, Route
      <4> QED BY <2>4, <3>1, <4>1 DEF Transformations
    <3>3. /\ phase' = "inRoute" /\ client' = client
          /\ properties' = [properties EXCEPT !.streamTransformers = Append(@, made)]
      BY <1>4, <2>1, <2>2, <2>4, <3>1 DEF AddTransformer
    <3>4. PICK before \in Seq(Transformations) : before = properties.streamTransformers
      BY <2>2
    <3>5. /\ properties'.streamTransformers = Append(before, made)
          /\ properties'.outputTopic = properties.outputTopic
          /\ properties' \in Stored
      <4>1. Append(before, made) \in Seq(Transformations)
        BY <3>2, <3>4
      <4>2. PICK topic \in Seq(STRING) : topic = properties.outputTopic
        BY <2>2 DEF Stored
      <4>3. properties = [outputTopic |-> topic, streamTransformers |-> before]
        BY <2>2, <3>4, <4>2 DEF Stored
      <4>4. properties' = [outputTopic |-> topic, streamTransformers |-> Append(before, made)]
        BY <3>3, <4>3
      <4> QED BY <4>1, <4>2, <4>4 DEF Stored
    <3>6. /\ Len(Append(before, made)) = n
          /\ DOMAIN Append(before, made) = DOMAIN before \cup {n}
          /\ \A i \in DOMAIN before : Append(before, made)[i] = before[i]
          /\ Append(before, made)[n] = made
      BY <2>1, <3>2, <3>4
    <3>7. SetUp(Route, n)
      BY <2>2, <2>4 DEF SetUp
    <3>8. \A i \in DOMAIN Append(before, made) :
             /\ SetUp(Route, i)
             /\ Append(before, made)[i] = SetupTransformer(TransformerList[i]).transformer
      BY <2>1, <2>2, <3>1, <3>4, <3>6, <3>7 DEF ReadInv
    <3>9. properties' \in Stored'
      BY <2>3, <3>5 DEF Stored
    <3> QED BY <2>2, <2>3, <3>3, <3>5, <3>6, <3>8, <3>9 DEF ReadInv, Reading
  <2>5. CASE SetupTransformer(entry).outcome # "set"
    <3>1. phase' = "failed"
      BY <1>4, <2>1, <2>5, SetupIffConforms DEF AddTransformer, Throw
    <3>2. ~Accepted(Route)
      BY <2>2, <2>5 DEF Accepted, SetUp
    <3>3. ~RouteConforms(RouteList[routeNumber]) /\ routeNumber \in DOMAIN RouteList
      BY <2>2, <3>2, WhileInRoute, RejectedDoesNotConform DEF Route
    <3> QED BY <2>3, <3>1, <3>3 DEF ReadInv, Reading
  <2> QED BY <2>4, <2>5
<1>5. CASE EndRoute
  <2>1. /\ phase = "inRoute" /\ phase' = "nextRoute"
        /\ config' = config /\ routeNumber' = routeNumber + 1
        /\ Len(properties.streamTransformers) = Len(TransformerList)
        /\ RouteList' = RouteList
    BY <1>5 DEF EndRoute, RouteList
  <2>2. Accepted(RouteList[routeNumber])
    <3>1. DOMAIN properties.streamTransformers = DOMAIN TransformersOf(Route)
      BY <2>1, WhileInRoute DEF ReadInv, Stored, IsList
    <3> QED BY <2>1, <3>1, WhileInRoute DEF ReadInv, Accepted, Route
  <2>3. routeNumber \in 1..Len(RouteList) /\ Len(RouteList) \in Nat
    BY <2>1, WhileInRoute, WhileReading DEF IsList
  <2> QED BY <2>1, <2>2, <2>3 DEF ReadInv, Reading
<1>6. CASE EndRoutes
  <2>1. phase = "nextRoute" /\ IsList(RouteList)
    BY <1>6, WhileReading DEF EndRoutes
  <2>2. config' = config /\ routeNumber' = routeNumber /\ RouteList' = RouteList
        /\ phase' \in {"noRoutes", "relaying"} /\ routeNumber > Len(RouteList)
    BY <1>6 DEF EndRoutes, RouteList
  <2> QED BY <2>1, <2>2 DEF ReadInv, Reading, IsList
<1>7. CASE ReadCharacter
  BY <1>7 DEF ReadCharacter, ReadInv, Reading, RouteList, Route
<1>8. CASE Interrupt
  BY <1>8 DEF Interrupt, ReadInv, Reading
<1>9. CASE UNCHANGED vars
  <2>1. UNCHANGED <<config, phase, client, routeNumber, properties>>
    BY <1>9 DEF vars
  <2>2. UNCHANGED <<RouteList, Route, TransformerList, Stored>>
    BY <2>1 DEF RouteList, Route, TransformerList, Stored, Transformations, Entries
  <2> QED BY <2>1, <2>2 DEF ReadInv, Reading
<1> QED BY <1>1, <1>2, <1>3, <1>4, <1>5, <1>6, <1>7, <1>8, <1>9 DEF Next, MainThread

-----------------------------------------------------------------------------
(* A list whose items have their places in the document, and one more item *)
(* from behind these places.                                               *)
Continues(more, place, list, item, n) ==
    /\ \A i \in DOMAIN list : more[i] = place[i] /\ Append(list, item)[i] = list[i]
    /\ more[Len(list) + 1] = n /\ Append(list, item)[Len(list) + 1] = item
    /\ DOMAIN Append(list, item) = DOMAIN list \cup {Len(list) + 1}

(* Adding one item at a later place of the document keeps the items in the *)
(* order of their places: the step of both loops of retrieve_routes().     *)
LEMMA OneMorePlace ==
    ASSUME NEW Item, NEW list \in Seq(Item), NEW item \in Item,
           NEW n \in Nat, NEW S \in SUBSET (1..n - 1),
           NEW place, ArePlaces(place, list, S)
    PROVE  \E more : /\ ArePlaces(more, Append(list, item), S \cup {n})
                     /\ Continues(more, place, list, item, n)
<1> DEFINE after == Append(list, item)
           last == Len(list) + 1
           more == [i \in DOMAIN after |-> IF i = last THEN n ELSE place[i]]
<1> USE DEF ArePlaces
<1>1. /\ DOMAIN after = DOMAIN list \cup {last} /\ DOMAIN list = 1..Len(list)
      /\ Len(list) \in Nat /\ last \notin DOMAIN list /\ after[last] = item
      /\ \A i \in DOMAIN list : after[i] = list[i]
  OBVIOUS
<1> HIDE DEF after
<1>2. more \in [DOMAIN after -> S \cup {n}]
  BY <1>1
<1>3. more[last] = n /\ \A i \in DOMAIN list : more[i] = place[i]
  BY <1>1
<1>4. Range(more) = S \cup {n}
  <2>1. Range(more) \subseteq S \cup {n}
    BY <1>2 DEF Range
  <2>2. n \in Range(more)
    BY <1>1, <1>3 DEF Range
  <2>3. ASSUME NEW x \in S
        PROVE  x \in Range(more)
    <3>1. PICK i \in DOMAIN list : place[i] = x
      BY DEF Range
    <3> QED BY <1>1, <1>3, <3>1 DEF Range
  <2> QED BY <2>1, <2>2, <2>3
<1>5. ASSUME NEW i \in DOMAIN after, NEW j \in DOMAIN after, i < j
      PROVE  more[i] < more[j]
  <2>1. i \in DOMAIN list
    BY <1>1, <1>5
  <2>2. place[i] \in Nat /\ place[i] < n
    <3>1. place[i] \in S
      BY <2>1
    <3>2. place[i] \in 1..n - 1
      BY <3>1
    <3> QED BY <3>2
  <2>3. CASE j = last
    BY <1>3, <2>1, <2>2, <2>3
  <2>4. CASE j # last
    BY <1>1, <1>3, <1>5, <2>1, <2>4
  <2> QED BY <2>3, <2>4
<1> HIDE DEF more, last
<1> QED BY <1>1, <1>2, <1>3, <1>4, <1>5 DEF after, last, Continues

(* The sets the lists are over depend on the document alone.               *)
LEMMA SameStored ==
    ASSUME config' = config
    PROVE  RouteList' = RouteList /\ Stored' = Stored
<1>1. RouteList' = RouteList
  BY DEF RouteList
<1>2. Entries' = Entries
  BY <1>1 DEF Entries
<1> QED BY <1>1, <1>2 DEF Stored, Transformations

(* A step that leaves the table and the number of the route alone.         *)
LEMMA TableUnchanged ==
    ASSUME TableInv, UNCHANGED <<config, routeNumber, routes>>, Reading' => Reading
    PROVE  TableInv'
<1>1. RouteList' = RouteList /\ Stored' = Stored
  BY SameStored
<1>2. {InputTopic(i) : i \in 1..routeNumber - 1}' = {InputTopic(i) : i \in 1..routeNumber - 1}
  BY <1>1 DEF InputTopic
<1>3. ASSUME NEW t \in DOMAIN routes, Gathers(routes[t], t)
      PROVE  Gathers(routes[t], t)'
  <2>1. ReadNaming(t)' = ReadNaming(t)
    BY <1>1 DEF ReadNaming, InputTopic
  <2> QED BY <1>1, <1>3, <2>1 DEF Gathers
<1> QED BY <1>1, <1>2, <1>3 DEF TableInv

(* The route that was being read is stored as it is in the document.       *)
LEMMA RouteIsStored ==
    ASSUME KindInv, ReadInv, EndRoute
    PROVE  properties \in Stored /\ IsMadeOf(properties, RouteList[routeNumber])
<1>1. phase = "inRoute" /\ Len(properties.streamTransformers) = Len(TransformerList)
  BY DEF EndRoute
<1>2. properties \in Stored /\ properties.outputTopic = Route.fields["outputTopic"].levels
  BY <1>1 DEF ReadInv
<1>3. DOMAIN properties.streamTransformers = DOMAIN TransformersOf(Route)
  BY <1>1, <1>2, WhileInRoute DEF Stored, IsList
<1> QED BY <1>1, <1>2, <1>3, WhileInRoute DEF ReadInv, IsMadeOf, Route

(* The end of a route: it goes to the end of the list of its input topic,  *)
(* as it comes after all that were read before it.                         *)
LEMMA TableGrows ==
    ASSUME KindInv, ReadInv, TableInv, EndRoute
    PROVE  TableInv'
<1>1. /\ phase = "inRoute" /\ phase' = "nextRoute" /\ config' = config
      /\ routeNumber' = routeNumber + 1
      /\ routes' = WithRoute(routes, InputTopic(routeNumber), properties)
  BY DEF EndRoute, Route, InputTopic
<1>2. RouteList' = RouteList /\ Stored' = Stored
  BY <1>1, SameStored
<1>3. PICK n, topic, p, old, items :
          /\ n = routeNumber /\ topic = InputTopic(routeNumber) /\ p = properties
          /\ old = (IF topic \in DOMAIN routes THEN routes[topic] ELSE << >>)
          /\ items = Stored
  OBVIOUS
<1>4. /\ n \in Nat \ {0} /\ p \in items /\ IsMadeOf(p, RouteList[n])
      /\ routeNumber' - 1 = n /\ 1..routeNumber' - 1 = (1..n - 1) \cup {n}
  <2>1. n \in DOMAIN RouteList /\ IsList(RouteList)
    BY <1>1, <1>3, WhileInRoute, WhileReading
  <2>2. n \in Nat \ {0}
    BY <2>1 DEF IsList
  <2> QED BY <1>1, <1>3, <2>2, RouteIsStored
<1>5. /\ DOMAIN routes = {InputTopic(i) : i \in 1..n - 1}
      /\ \A t \in DOMAIN routes : routes[t] \in Seq(items) /\ Gathers(routes[t], t)
  BY <1>1, <1>3 DEF TableInv, Reading
<1>6. \A i : InputTopic(i)' = InputTopic(i)
  BY <1>2 DEF InputTopic
<1>7. DOMAIN routes' = {InputTopic(i) : i \in 1..routeNumber - 1}'
  <2>1. DOMAIN routes' = DOMAIN routes \cup {topic}
    BY <1>1, <1>3 DEF WithRoute
  <2>2. {InputTopic(i) : i \in 1..routeNumber - 1}' = {InputTopic(i) : i \in (1..n - 1) \cup {n}}
    BY <1>2, <1>4 DEF InputTopic
  <2> QED BY <1>3, <1>5, <2>1, <2>2
<1>8. old \in Seq(items) /\ Gathers(old, topic)
  <2>1. CASE topic \in DOMAIN routes
    BY <1>3, <1>5, <2>1
  <2>2. CASE topic \notin DOMAIN routes
    <3>1. old = << >> /\ DOMAIN old = {}
      BY <1>3, <2>2
    <3>2. ReadNaming(topic) = {}
      BY <1>3, <1>5, <2>2 DEF ReadNaming
    <3>3. PICK place : place = [i \in DOMAIN old |-> i]
      OBVIOUS
    <3>4. place \in [DOMAIN old -> ReadNaming(topic)] /\ DOMAIN place = {}
      BY <3>1, <3>3
    <3>5. Range(place) = ReadNaming(topic)
      BY <3>2, <3>4 DEF Range
    <3>6. old \in Seq(items)
      BY <3>1
    <3> QED BY <3>1, <3>4, <3>5, <3>6 DEF Gathers, ArePlaces
  <2> QED BY <2>1, <2>2
<1>9. ASSUME NEW t \in DOMAIN routes'
      PROVE  routes'[t] \in Seq(items) /\ Gathers(routes[t], t)'
  <2>1. CASE t # topic
    <3>1. t \in DOMAIN routes /\ routes'[t] = routes[t]
      BY <1>1, <1>3, <1>9, <2>1 DEF WithRoute
    <3>2. ReadNaming(t)' = ReadNaming(t)
      BY <1>2, <1>3, <1>4, <2>1 DEF ReadNaming, InputTopic
    <3>3. routes[t] \in Seq(items) /\ Gathers(routes[t], t)
      BY <1>5, <3>1
    <3> QED BY <1>2, <3>1, <3>2, <3>3 DEF Gathers
  <2>2. CASE t = topic
    <3>1. routes'[t] = Append(old, p)
      <4>1. CASE topic \in DOMAIN routes
        BY <1>1, <1>3, <2>2, <4>1 DEF WithRoute
      <4>2. CASE topic \notin DOMAIN routes
        <5>1. routes'[t] = <<p>> /\ old = << >>
          BY <1>1, <1>3, <2>2, <4>2 DEF WithRoute
        <5>2. Append(<< >>, p) = <<p>>
          OBVIOUS
        <5> QED BY <5>1, <5>2
      <4> QED BY <4>1, <4>2
    <3>2. PICK S : S = ReadNaming(topic)
      OBVIOUS
    <3>3. ReadNaming(topic)' = S \cup {n} /\ S \in SUBSET (1..n - 1)
      BY <1>2, <1>3, <1>4, <3>2 DEF ReadNaming, InputTopic
    <3>4. PICK place :
              /\ ArePlaces(place, old, S)
              /\ \A i \in DOMAIN old : IsMadeOf(old[i], RouteList[place[i]])
      BY <1>8, <3>2 DEF Gathers
    <3>5. PICK more : /\ ArePlaces(more, Append(old, p), S \cup {n})
                      /\ Continues(more, place, old, p, n)
      <4>1. n \in Nat /\ p \in items /\ old \in Seq(items)
        BY <1>4, <1>8
      <4> QED BY <3>3, <3>4, <4>1, OneMorePlace
    <3>6. \A i \in DOMAIN Append(old, p) : IsMadeOf(Append(old, p)[i], RouteList[more[i]])
      BY <1>4, <3>4, <3>5 DEF Continues
    <3>7. Append(old, p) \in Seq(items)
      BY <1>4, <1>8
    <3> QED BY <1>2, <2>2, <3>1, <3>3, <3>5, <3>6, <3>7 DEF Gathers
  <2> QED BY <2>1, <2>2
<1> QED BY <1>2, <1>3, <1>7, <1>9 DEF TableInv

(* The table changes at the end of a route only.                           *)
LEMMA TableStep ==
    ASSUME KindInv, ReadInv, TableInv, [Next]_vars
    PROVE  TableInv'
<1>1. CASE EndRoute
  BY <1>1, TableGrows
<1>2. CASE BeginRoutes
  <2>1. /\ routes = << >> /\ routeNumber = 1
        /\ UNCHANGED <<config, routes, routeNumber>>
    BY <1>2 DEF BeginRoutes, Throw, KindInv
  <2>2. DOMAIN routes' = {} /\ 1..routeNumber' - 1 = {}
    BY <2>1
  <2> QED BY <2>2 DEF TableInv
<1>3. CASE ~EndRoute /\ ~BeginRoutes
  <2>1. UNCHANGED <<config, routeNumber, routes>> /\ (Reading' => Reading)
    BY <1>3, SetupIffConforms DEF Next, MainThread, ConfigureBroker, BeginRoute,
       AddTransformer, EndRoutes, ReadCharacter, Interrupt, Throw, vars, Reading
  <2> QED BY <2>1, TableUnchanged
<1> QED BY <1>1, <1>2, <1>3

(* The inductive invariant: what has been read was accepted and is stored  *)
(* as it is in the document.                                               *)
THEOREM StartInvariant == Safety => []IInv
<1>1. Init => IInv
  BY StartInit
<1>2. IInv /\ [Next]_vars => IInv'
  BY KindStep, ReadStep, TableStep DEF IInv
<1> QED BY <1>1, <1>2, PTL DEF Safety

-----------------------------------------------------------------------------
(* Every transformation stored was made of an entry, with indices that an  *)
(* unsigned long holds.                                                    *)
LEMMA StoredIndicesFit ==
    ASSUME IInv, NEW topic \in DOMAIN routes, NEW i \in DOMAIN routes[topic],
           NEW t \in Range(routes[topic][i].streamTransformers)
    PROVE  IndicesFit(t)
<1>1. routes # << >>
  OBVIOUS
<1>2. \A n \in DOMAIN RouteList : IsRoute(RouteList[n])
  BY <1>1, RoutesAreList DEF IInv, KindInv
<1>3. routes[topic][i] \in Stored
  BY DEF IInv, TableInv
<1>4. t \in Transformations
  BY <1>3 DEF Stored, Range
<1>5. PICK entry \in Entries : /\ SetupTransformer(entry).outcome = "set"
                               /\ t = SetupTransformer(entry).transformer
  BY <1>4 DEF Transformations
<1>6. HasKindedFields(entry)
  BY <1>2, <1>5, TransformersAreList DEF Entries, HeadAccepted
<1> QED BY <1>5, <1>6, SetupKeeps

(* The kinds: whatever was configured, the table the threads work with and *)
(* the client's keep-alive interval fit their types.                       *)
THEOREM StartTypeCorrect == Safety => []TypeOK
<1>1. ASSUME IInv
      PROVE  TypeOK
  <2> USE DEF IInv
  <2>1. Len(client) <= 1 /\ (phase \in {"start", "failed", "killed"} \/ client # << >>)
    <3>1. client = << >> \/ \E c : client = <<c>>
      BY <1>1 DEF KindInv
    <3>2. Len(client) <= 1
      <4>1. CASE client = << >>
        <5>1. Len(<< >>) = 0
          OBVIOUS
        <5> QED BY <4>1, <5>1
      <4>2. ASSUME NEW c, client = <<c>>
            PROVE  Len(client) <= 1
        <5>1. Len(<<c>>) = 1
          OBVIOUS
        <5> QED BY <4>2, <5>1
      <4> QED BY <3>1, <4>1, <4>2
    <3> QED BY <1>1, <3>2 DEF KindInv
  <2>2. ASSUME NEW i \in DOMAIN client
        PROVE  client[i].keepAliveInterval \in IntRange \cup {60}
    <3>1. config \in Configurations /\ IsValidBroker(config) /\ client = <<ClientOf(config)>>
      BY <1>1, <2>2 DEF KindInv
    <3>2. client[i] = ClientOf(config)
      BY <2>2, <3>1
    <3>3. CASE Contains(config, "keepAliveInterval")
      <4>1. config.fields["keepAliveInterval"].number \in Nat
        BY <3>1, <3>3, ConfigurationsAssumption
           DEF IsValidBroker, MayHave, Has, Contains, HasKindedFields, IsKinded
      <4> QED BY <3>2, <3>3, <4>1, IndexIsKept DEF ClientOf
    <3>4. CASE ~Contains(config, "keepAliveInterval")
      BY <3>2, <3>4 DEF ClientOf
    <3> QED BY <3>3, <3>4
  <2>3. phase = "inRoute" => Len(properties.streamTransformers) <= Len(TransformerList)
    BY <1>1 DEF ReadInv
  <2>4. \A topic \in DOMAIN routes : \A i \in DOMAIN routes[topic] :
           \A t \in Range(routes[topic][i].streamTransformers) : IndicesFit(t)
    BY <1>1, StoredIndicesFit
  <2> QED BY <1>1, <2>1, <2>2, <2>3, <2>4 DEF TypeOK, KindInv, IndicesFit
<1> QED BY <1>1, StartInvariant, PTL

(* What starts the threads is what conforms: every route and transformer   *)
(* of it, and nothing that conforms is rejected.                           *)
THEOREM OnlyConformingStarts == Safety => []AcceptedIffConforming
<1>1. ASSUME IInv
      PROVE  AcceptedIffConforming
  <2>1. ASSUME phase \in {"relaying", "noRoutes"}, NEW i \in DOMAIN RouteList
        PROVE  RouteConforms(RouteList[i])
    <3>1. Accepted(RouteList[i]) /\ IsRoute(RouteList[i])
      BY <1>1, <2>1, WhileReading DEF IInv, ReadInv, Reading, IsList
    <3> QED BY <3>1, AcceptsConforming
  <2> QED BY <1>1, <2>1 DEF IInv, ReadInv, AcceptedIffConforming
<1> QED BY <1>1, StartInvariant, PTL

(* What is stored of an accepted route is what the route says.             *)
LEMMA StoredAsConfigured ==
    ASSUME NEW p, NEW route, IsRoute(route), Accepted(route), IsMadeOf(p, route)
    PROVE  SameRoute(p, route)
<1>1. route.kind = "object"
  BY DEF Accepted, HeadAccepted, IsValidRoute, Has, Contains
<1>2. TransformersOf(route) = IF "streamTransformers" \in DOMAIN route.fields
                              THEN route.fields["streamTransformers"].elements ELSE << >>
  BY <1>1 DEF TransformersOf, Contains
<1>3. ASSUME NEW i \in DOMAIN TransformersOf(route)
      PROVE  SameTransformer(p.streamTransformers[i], TransformersOf(route)[i])
  <2>1. /\ HasKindedFields(TransformersOf(route)[i])
        /\ SetupTransformer(TransformersOf(route)[i]).outcome = "set"
    BY TransformersAreList DEF Accepted, HeadAccepted, SetUp
  <2> QED BY <2>1, SetupKeeps DEF IsMadeOf
<1> QED BY <1>2, <1>3 DEF SameRoute, IsMadeOf

(* The threads work on exactly the routes of the document, each list in    *)
(* the document's order.                                                   *)
THEOREM TableIsDocument == Safety => []RoutesAsConfigured
<1>1. ASSUME IInv
      PROVE  RoutesAsConfigured
  <2> SUFFICES ASSUME phase \in {"relaying", "noRoutes"}
               PROVE  /\ DOMAIN routes = {InputTopic(i) : i \in DOMAIN RouteList}
                      /\ \A t \in DOMAIN routes :
                            \E place \in [DOMAIN routes[t] -> Naming(t)] :
                               /\ Range(place) = Naming(t)
                               /\ \A i, j \in DOMAIN routes[t] : i < j => place[i] < place[j]
                               /\ \A i \in DOMAIN routes[t] :
                                     SameRoute(routes[t][i], RouteList[place[i]])
    BY DEF RoutesAsConfigured, InputTopic
  <2>1. 1..routeNumber - 1 = DOMAIN RouteList
    BY <1>1, WhileReading DEF IInv, ReadInv, IsList
  <2>2. \A t : ReadNaming(t) = Naming(t)
    BY <2>1 DEF ReadNaming, Naming, InputTopic
  <2>3. DOMAIN routes = {InputTopic(i) : i \in DOMAIN RouteList}
    BY <1>1, <2>1 DEF IInv, TableInv, Reading
  <2>4. \A i \in DOMAIN RouteList : IsRoute(RouteList[i]) /\ Accepted(RouteList[i])
    BY <1>1, <2>1, WhileReading DEF IInv, ReadInv, Reading
  <2>5. ASSUME NEW t \in DOMAIN routes
        PROVE  \E place \in [DOMAIN routes[t] -> Naming(t)] :
                  /\ Range(place) = Naming(t)
                  /\ \A i, j \in DOMAIN routes[t] : i < j => place[i] < place[j]
                  /\ \A i \in DOMAIN routes[t] : SameRoute(routes[t][i], RouteList[place[i]])
    <3>1. PICK place : /\ ArePlaces(place, routes[t], Naming(t))
                       /\ \A i \in DOMAIN routes[t] :
                             IsMadeOf(routes[t][i], RouteList[place[i]])
      BY <1>1, <2>2 DEF IInv, TableInv, Reading, Gathers
    <3>2. \A i \in DOMAIN routes[t] : place[i] \in DOMAIN RouteList
      BY <3>1 DEF ArePlaces, Naming
    <3>3. \A i \in DOMAIN routes[t] : SameRoute(routes[t][i], RouteList[place[i]])
      BY <2>4, <3>1, <3>2, StoredAsConfigured
    <3> QED BY <3>1, <3>3 DEF ArePlaces
  <2> QED BY <2>3, <2>5
<1> QED BY <1>1, StartInvariant, PTL

(* The client is made with the library's ssl options exactly when the      *)
(* document says ssl, though the stores decide it.                         *)
THEOREM OptionsAsConfigured == Safety => []SslOptionsAsConfigured
<1>1. ASSUME IInv, phase \in {"relaying", "noRoutes"}
      PROVE  client[1].hasSslOptions <=> config.fields["ssl"].truth
  <2>1. /\ config \in Configurations /\ IsValidBroker(config)
        /\ client[1] = ClientOf(config)
    BY <1>1 DEF IInv, KindInv
  <2>2. Has(config, "ssl", "boolean") /\ (IsSsl(config) <=> config.fields["ssl"].truth)
    BY <2>1 DEF IsValidBroker, IsSsl
  <2>3. client[1].hasSslOptions = (StoresOf(config) = Stores)
    BY <2>1 DEF ClientOf
  <2>4. IsSsl(config) => StoresOf(config) = Stores
    BY <2>1 DEF IsValidBroker, MandatoryStores, StoresOf, Has
  <2>5. ~IsSsl(config) => StoresOf(config) # Stores
    BY DEF StoresOf, Stores
  <2> QED BY <2>2, <2>3, <2>4, <2>5, Zenon
<1>2. IInv => SslOptionsAsConfigured
  BY <1>1 DEF SslOptionsAsConfigured
<1> QED BY <1>2, StartInvariant, PTL

=============================================================================
