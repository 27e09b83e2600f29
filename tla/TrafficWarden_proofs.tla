------------------------ MODULE TrafficWarden_proofs ------------------------
(***************************************************************************)
(* Theorems about the threads and queues of TrafficWarden, for every set   *)
(* of topics, payloads and transformers, every routing table, every        *)
(* execute() and every number of messages: everything is of its kind, and  *)
(* nothing is lost, duplicated or overtaken inside its lane between the    *)
(* threads.                                                                *)
(*                                                                         *)
(* The argument follows the tokens of the deliveries through the stages    *)
(* transformQueue -> transforming -> outgoingQueue -> publishing ->        *)
(* published.  Together the stages hold exactly the tokens that ingest()   *)
(* has handed over, and inside a lane a token of a later stage precedes    *)
(* every token of an earlier one.                                          *)
(***************************************************************************)
EXTENDS TrafficWarden, TLAPS

USE RoutesAssumption, ExecuteAssumption, MaxMessagesAssumption

-----------------------------------------------------------------------------
(* What a thread that carries something carries.                           *)
LEMMA InHand ==
    ASSUME NEW S, NEW s \in Seq(S), s # << >>
    PROVE  1 \in DOMAIN s /\ s[1] \in S
<1>1. Len(s) # 0
  OBVIOUS
<1> QED BY <1>1

(* One item in hand.                                                       *)
LEMMA OneItem ==
    ASSUME NEW S, NEW x \in S
    PROVE  /\ <<x>> \in Seq(S)
           /\ Len(<<x>>) = 1
           /\ DOMAIN <<x>> = {1}
           /\ <<x>>[1] = x
  OBVIOUS

(* An item pushed on a queue.                                              *)
LEMMA Pushed ==
    ASSUME NEW S, NEW s \in Seq(S), NEW x \in S
    PROVE  Append(s, x) \in Seq(S)
  OBVIOUS

(* The routes of a topic are a list, whether or not it has an entry.       *)
LEMMA RoutesOfType ==
    ASSUME NEW t \in Topic
    PROVE  RoutesOf(t) \in Seq(RouteProperties)
<1>1. CASE t \in DOMAIN Routes
  BY <1>1 DEF RoutesOf
<1>2. CASE t \notin DOMAIN Routes
  BY <1>2 DEF RoutesOf
<1> QED BY <1>1, <1>2

(* A transformer leaves an output topic and an output payload.             *)
LEMMA TransformedType ==
    ASSUME NEW s \in Transformer, NEW it \in Topic, NEW ip \in Payload,
           NEW out \in Output
    PROVE  Transformed(s, it, ip, out) \in Output
<1>1. Execute(s, it, ip, out.topic, out.payload) \in ExecuteResult
  BY DEF Output
<1> QED BY <1>1 DEF Transformed, Output, ExecuteResult

-----------------------------------------------------------------------------
(* Every step of a thread, and every arrival, keeps the queues, the hands  *)
(* and the histories of their kinds.                                       *)
LEMMA TypeStep ==
    ASSUME TypeOK, [Next]_vars
    PROVE  TypeOK'
<1>1. CASE UNCHANGED vars
  BY <1>1 DEF TypeOK, vars, queues, threads
<1>2. CASE IngestPop
  <2>1. Head(incomingQueue) \in IncomingItem /\ Tail(incomingQueue) \in Seq(IncomingItem)
    BY <1>2 DEF TypeOK, IngestPop
  <2>2. RoutesOf(Head(incomingQueue).topic) \in Seq(RouteProperties)
    BY <2>1, RoutesOfType DEF IncomingItem
  <2>3. /\ ingesting' \in Seq(IngestState)
        /\ Len(ingesting') <= 1
        /\ \A i \in DOMAIN ingesting' :
              ingesting'[i].next \in DOMAIN RoutesOf(ingesting'[i].message.topic)
    <3>1. CASE RoutesOf(Head(incomingQueue).topic) = << >>
      BY <1>2, <3>1 DEF IngestPop
    <3>2. CASE RoutesOf(Head(incomingQueue).topic) # << >>
      <4>1. ingesting' = <<[message |-> Head(incomingQueue), next |-> 1]>>
        BY <1>2, <3>2 DEF IngestPop
      <4>2. 1 \in DOMAIN RoutesOf(Head(incomingQueue).topic)
        BY <2>2, <3>2
      <4> QED BY <2>1, <4>1, <4>2 DEF IngestState
    <3> QED BY <3>1, <3>2
  <2> QED BY <1>2, <2>1, <2>3 DEF TypeOK, IngestPop
<1>3. CASE IngestRoute
  <2> DEFINE message == ingesting[1].message
             next == ingesting[1].next
             route == RoutesOf(message.topic)[next]
  <2>1. message \in IncomingItem /\ next \in Nat /\ next \in DOMAIN RoutesOf(message.topic)
    <3>1. ingesting \in Seq(IngestState) /\ ingesting # << >>
      BY <1>3 DEF TypeOK, IngestRoute
    <3>2. ingesting[1] \in IngestState /\ 1 \in DOMAIN ingesting
      BY <3>1, InHand
    <3> QED BY <3>2 DEF TypeOK, IngestState
  <2>2. RoutesOf(message.topic) \in Seq(RouteProperties)
    BY <2>1, RoutesOfType DEF IncomingItem
  <2>3. route \in RouteProperties
    BY <2>1, <2>2
  <2>4. /\ ingesting' \in Seq(IngestState)
        /\ Len(ingesting') <= 1
        /\ \A i \in DOMAIN ingesting' :
              ingesting'[i].next \in DOMAIN RoutesOf(ingesting'[i].message.topic)
    <3>1. CASE next = Len(RoutesOf(message.topic))
      BY <1>3, <3>1 DEF IngestRoute, RestOfRoutes
    <3>2. CASE next # Len(RoutesOf(message.topic))
      <4>1. ingesting' = <<[message |-> message, next |-> next + 1]>>
        BY <1>3, <3>2 DEF IngestRoute, RestOfRoutes
      <4>2. next + 1 \in DOMAIN RoutesOf(message.topic)
        BY <2>1, <2>2, <3>2
      <4> HIDE DEF message, next
      <4>3. [message |-> message, next |-> next + 1] \in IngestState
        BY <2>1 DEF IngestState
      <4> QED BY <4>1, <4>2, <4>3, OneItem
    <3> QED BY <3>1, <3>2
  <2>5. transformQueue' \in Seq(TransformItem)
    <3> DEFINE x == [origin |-> message.origin, from |-> message.topic,
                     route |-> next,
                     streamTransformers |-> route.streamTransformers,
                     inputPayload |-> message.payload,
                     topic |-> route.outputTopic,
                     payload |-> message.payload]
    <3>1. x \in TransformItem
      BY <2>1, <2>3 DEF TransformItem, IncomingItem, RouteProperties
    <3>2. transformQueue' = transformQueue \/ transformQueue' = Append(transformQueue, x)
      BY <1>3 DEF IngestRoute
    <3> HIDE DEF x
    <3>3. transformQueue \in Seq(TransformItem)
      BY DEF TypeOK
    <3> QED BY <3>1, <3>2, <3>3, Pushed
  <2>6. outgoingQueue' \in Seq(OutgoingItem)
    <3> DEFINE x == [origin |-> message.origin, from |-> message.topic,
                     route |-> next,
                     topic |-> route.outputTopic,
                     payload |-> message.payload]
    <3>1. x \in OutgoingItem
      BY <2>1, <2>3 DEF OutgoingItem, IncomingItem, RouteProperties
    <3>2. outgoingQueue' = outgoingQueue \/ outgoingQueue' = Append(outgoingQueue, x)
      BY <1>3 DEF IngestRoute
    <3> HIDE DEF x
    <3>3. outgoingQueue \in Seq(OutgoingItem)
      BY DEF TypeOK
    <3> QED BY <3>1, <3>2, <3>3, Pushed
  <2> QED BY <1>3, <2>4, <2>5, <2>6 DEF TypeOK, IngestRoute
<1>4. CASE TransformPop
  <2>1. Head(transformQueue) \in TransformItem /\ Tail(transformQueue) \in Seq(TransformItem)
    BY <1>4 DEF TypeOK, TransformPop
  <2>2. \/ transforming' = << >>
        \/ transforming' = <<[item |-> Head(transformQueue), next |-> 1]>>
    BY <1>4 DEF TransformPop
  <2>3. transforming' \in Seq(TransformState) /\ Len(transforming') <= 1
    <3> DEFINE x == [item |-> Head(transformQueue), next |-> 1]
    <3>1. x \in TransformState
      BY <2>1 DEF TransformState
    <3>2. transforming' = << >> \/ transforming' = <<x>>
      BY <2>2
    <3> HIDE DEF x
    <3>3. CASE transforming' = << >>
      BY <3>3
    <3>4. CASE transforming' = <<x>>
      BY <3>1, <3>4, OneItem
    <3> QED BY <3>2, <3>3, <3>4
  <2> QED BY <1>4, <2>1, <2>3 DEF TypeOK, TransformPop
<1>5. CASE TransformExecute
  <2> DEFINE item == transforming[1].item
             next == transforming[1].next
             s == item.streamTransformers[next]
             out == [topic |-> item.topic, payload |-> item.payload]
             after == Transformed(s, item.from, item.inputPayload, out)
  <2>1. item \in TransformItem /\ next \in Nat \ {0} /\ next <= Len(item.streamTransformers)
    <3>1. transforming \in Seq(TransformState) /\ transforming # << >>
      BY <1>5 DEF TypeOK, TransformExecute
    <3>2. transforming[1] \in TransformState
      BY <3>1, InHand
    <3> QED BY <1>5, <3>2 DEF TransformState, TransformItem, TransformExecute, ChainIsThrough
  <2>2. s \in Transformer /\ out \in Output
    BY <2>1 DEF TransformItem, Output
  <2>3. after \in Output
    BY <2>1, <2>2, TransformedType DEF TransformItem
  <2>4. CASE Survives(s, item.from, item.inputPayload, out)
    <3>1. [item EXCEPT !.topic = after.topic, !.payload = after.payload] \in TransformItem
      BY <2>1, <2>3 DEF TransformItem, Output
    <3>2. transforming' = <<[item |-> [item EXCEPT !.topic = after.topic,
                                                   !.payload = after.payload],
                             next |-> next + 1]>>
      BY <1>5, <2>4 DEF TransformExecute
    <3> HIDE DEF item, next, s, out, after
    <3>3. transforming' \in Seq(TransformState) /\ Len(transforming') <= 1
      BY <2>1, <3>1, <3>2 DEF TransformState
    <3> USE DEF item, next, s, out, after
    <3> QED BY <1>5, <2>4, <3>3 DEF TypeOK, TransformExecute, queues
  <2>5. CASE ~Survives(s, item.from, item.inputPayload, out)
    BY <1>5, <2>5 DEF TypeOK, TransformExecute, Terminate, queues, threads
  <2> QED BY <2>4, <2>5
<1>6. CASE TransformPush
  <2>1. transforming[1].item \in TransformItem
    <3>1. transforming \in Seq(TransformState) /\ transforming # << >>
      BY <1>6 DEF TypeOK, TransformPush
    <3>2. transforming[1] \in TransformState
      BY <3>1, InHand
    <3> QED BY <3>2 DEF TransformState
  <2> DEFINE x == [origin |-> transforming[1].item.origin,
                   from |-> transforming[1].item.from,
                   route |-> transforming[1].item.route,
                   topic |-> transforming[1].item.topic,
                   payload |-> transforming[1].item.payload]
  <2>2. outgoingQueue' \in Seq(OutgoingItem)
    <3>1. x \in OutgoingItem
      BY <2>1 DEF TransformItem, OutgoingItem
    <3>2. outgoingQueue' = Append(outgoingQueue, x)
      BY <1>6 DEF TransformPush
    <3> HIDE DEF x
    <3>3. outgoingQueue \in Seq(OutgoingItem)
      BY DEF TypeOK
    <3> QED BY <3>1, <3>2, <3>3, Pushed
  <2> QED BY <1>6, <2>2 DEF TypeOK, TransformPush
<1>7. CASE PublishPop
  BY <1>7 DEF TypeOK, PublishPop
<1>8. CASE PublishAccepted
  BY <1>8 DEF TypeOK, PublishAccepted, queues
<1>9. CASE PublishThrows
  BY <1>9 DEF TypeOK, PublishThrows, Terminate, queues, threads
<1>10. CASE \E t \in Topic, p \in Payload : MessageArrived(t, p)
  <2> SUFFICES ASSUME NEW t \in Topic, NEW p \in Payload, MessageArrived(t, p)
               PROVE  TypeOK'
    BY <1>10
  <2>1. incomingQueue' \in Seq(IncomingItem)
    BY DEF TypeOK, MessageArrived, IncomingItem
  <2> QED BY <2>1 DEF TypeOK, MessageArrived, threads
<1>11. CASE MalformedMessageArrived
  BY <1>11 DEF TypeOK, MalformedMessageArrived, Terminate, queues, threads
<1> QED
  BY <1>1, <1>2, <1>3, <1>4, <1>5, <1>6, <1>7, <1>8, <1>9, <1>10, <1>11
  DEF Next, Ingest, Transform, Publish, Callback

(* Every queue, hand and history holds items of its kind in every reachable*)
(* state of the three threads.                                             *)
THEOREM TypeCorrect == Safety => []TypeOK
<1>1. Init => TypeOK
  BY DEF Init, TypeOK
<1>2. TypeOK /\ [Next]_vars => TypeOK'
  BY TypeStep
<1> QED BY <1>1, <1>2, PTL DEF Safety

-----------------------------------------------------------------------------
(* What a delivery is named by, wherever it is.                            *)
TokenOf(x) == [origin |-> x.origin, from |-> x.from, route |-> x.route]
Tokens(items) == {TokenOf(items[i]) : i \in DOMAIN items}

Transforming == {TokenOf(transforming[i].item) : i \in DOMAIN transforming}
Transformable == Transforming \cup Tokens(transformQueue)
Stages == Tokens(published) \cup Tokens(publishing) \cup Tokens(outgoingQueue)
             \cup Transformable

(* The messages ingest() has popped, and the tokens it has handed over.    *)
Taken == Len(arrived) - Len(incomingQueue)
IsHandedOver(x) ==
    /\ x.origin \in 1..Taken
    /\ x.from = arrived[x.origin].topic
    /\ x.route \in DOMAIN RoutesOf(x.from)
    /\ \A i \in DOMAIN ingesting : x.origin < Taken \/ x.route < ingesting[i].next
Delivery(n, k) == [origin |-> n, from |-> arrived[n].topic, route |-> k]

Before(S, T) == \A a \in S, b \in T : SameLane(a, b) => Precedes(a, b)

IntakeInv ==
    /\ Len(incomingQueue) <= Len(arrived)
    /\ \A i \in DOMAIN incomingQueue :
          /\ incomingQueue[i].origin = Taken + i
          /\ incomingQueue[i].topic = arrived[Taken + i].topic
    /\ \A i \in DOMAIN ingesting :
          /\ ingesting[i].message.origin = Taken
          /\ Taken >= 1
          /\ ingesting[i].message.topic = arrived[Taken].topic
Conserved ==
    /\ \A x \in Stages : IsHandedOver(x)
    /\ \A n \in 1..Taken : \A k \in DOMAIN RoutesOf(arrived[n].topic) :
          IsHandedOver(Delivery(n, k)) => Delivery(n, k) \in Stages
LaneInv ==
    /\ \A x \in Transformable : ~Direct(x)
    /\ \A i \in DOMAIN transformQueue : transformQueue[i].streamTransformers # << >>
OrderInv ==
    /\ Ordered(published) /\ Ordered(outgoingQueue) /\ Ordered(transformQueue)
    /\ Before(Tokens(published),
              Tokens(publishing) \cup Tokens(outgoingQueue) \cup Transformable)
    /\ Before(Tokens(publishing), Tokens(outgoingQueue) \cup Transformable)
    /\ Before(Tokens(outgoingQueue), Transformable)
    /\ Before(Transforming, Tokens(transformQueue))

IInv == TypeOK /\ IntakeInv /\ Conserved /\ LaneInv /\ OrderInv

-----------------------------------------------------------------------------
(* A lane and a place in the order belong to the token, not to the item.   *)
LEMMA TokenDecides ==
    ASSUME NEW x, NEW y
    PROVE  /\ SameLane(TokenOf(x), TokenOf(y)) <=> SameLane(x, y)
           /\ Precedes(TokenOf(x), TokenOf(y)) <=> Precedes(x, y)
  BY DEF TokenOf, SameLane, Direct, StreamTransformersOf, Precedes

(* The items of a queue.                                                   *)
LEMMA ItemOf ==
    ASSUME NEW S, NEW s \in Seq(S), NEW i \in DOMAIN s
    PROVE  s[i] \in S
  OBVIOUS

(* A thread that carries something carries one item.                       *)
LEMMA OnlyOne ==
    ASSUME NEW S, NEW s \in Seq(S), s # << >>, Len(s) <= 1
    PROVE  DOMAIN s = {1} /\ s[1] \in S
<1>1. Len(s) = 1
  <2>1. Len(s) # 0 /\ Len(s) \in Nat
    OBVIOUS
  <2> QED BY <2>1
<1> QED BY <1>1

(* No item, no token; one item, its token.                                 *)
LEMMA TokensOfOne ==
    ASSUME NEW x
    PROVE  Tokens(<< >>) = {} /\ Tokens(<<x>>) = {TokenOf(x)}
  BY DEF Tokens

(* Pushing an item adds its token.                                         *)
LEMMA TokensOfPush ==
    ASSUME NEW S, NEW s \in Seq(S), NEW x \in S
    PROVE  Tokens(Append(s, x)) = Tokens(s) \cup {TokenOf(x)}
<1>1. DOMAIN Append(s, x) = DOMAIN s \cup {Len(s) + 1}
  OBVIOUS
<1>2. \A i \in DOMAIN s : Append(s, x)[i] = s[i]
  OBVIOUS
<1>3. Append(s, x)[Len(s) + 1] = x
  OBVIOUS
<1> HIDE DEF TokenOf
<1> QED BY <1>1, <1>2, <1>3 DEF Tokens

(* Popping an item takes its token away, and no other.                     *)
LEMMA TokensOfPop ==
    ASSUME NEW S, NEW s \in Seq(S), s # << >>
    PROVE  Tokens(s) = {TokenOf(Head(s))} \cup Tokens(Tail(s))
<1>1. DOMAIN Tail(s) = 1..(Len(s) - 1) /\ DOMAIN s = 1..Len(s) /\ Len(s) >= 1
  OBVIOUS
<1>2. \A i \in DOMAIN Tail(s) : Tail(s)[i] = s[i + 1]
  OBVIOUS
<1>3. Head(s) = s[1]
  OBVIOUS
<1>4. Tokens(s) \subseteq {TokenOf(Head(s))} \cup Tokens(Tail(s))
  <2> SUFFICES ASSUME NEW i \in DOMAIN s
               PROVE  TokenOf(s[i]) \in {TokenOf(Head(s))} \cup Tokens(Tail(s))
    BY DEF Tokens
  <2>1. CASE i = 1
    BY <2>1, <1>3
  <2>2. CASE i # 1
    <3>1. i - 1 \in DOMAIN Tail(s) /\ Tail(s)[i - 1] = s[i]
      BY <1>1, <1>2, <2>2
    <3> QED BY <3>1 DEF Tokens
  <2> QED BY <2>1, <2>2
<1>5. Tokens(Tail(s)) \subseteq Tokens(s)
  <2> SUFFICES ASSUME NEW i \in DOMAIN Tail(s)
               PROVE  TokenOf(Tail(s)[i]) \in Tokens(s)
    BY DEF Tokens
  <2>1. i + 1 \in DOMAIN s /\ Tail(s)[i] = s[i + 1]
    BY <1>1, <1>2
  <2> QED BY <2>1 DEF Tokens
<1>6. TokenOf(Head(s)) \in Tokens(s)
  BY <1>1, <1>3 DEF Tokens
<1> QED BY <1>4, <1>5, <1>6

(* An ordered queue stays ordered when what is pushed comes after it.      *)
LEMMA OrderedPush ==
    ASSUME NEW S, NEW s \in Seq(S), NEW x \in S,
           Ordered(s), Before(Tokens(s), {TokenOf(x)})
    PROVE  Ordered(Append(s, x))
<1> SUFFICES ASSUME NEW i \in DOMAIN Append(s, x), NEW j \in DOMAIN Append(s, x), i < j,
                    SameLane(Append(s, x)[i], Append(s, x)[j])
             PROVE  Precedes(Append(s, x)[i], Append(s, x)[j])
  BY DEF Ordered
<1>1. i \in DOMAIN s /\ Append(s, x)[i] = s[i]
  OBVIOUS
<1>2. CASE j \in DOMAIN s
  <2>1. Append(s, x)[j] = s[j]
    BY <1>2
  <2> QED BY <1>1, <1>2, <2>1 DEF Ordered
<1>3. CASE j \notin DOMAIN s
  <2>1. Append(s, x)[j] = x
    BY <1>3
  <2>2. TokenOf(s[i]) \in Tokens(s)
    BY <1>1 DEF Tokens
  <2> QED BY <1>1, <2>1, <2>2, TokenDecides DEF Before
<1> QED BY <1>2, <1>3

(* The head of an ordered queue comes before the rest.                     *)
LEMMA OrderedPop ==
    ASSUME NEW S, NEW s \in Seq(S), s # << >>, Ordered(s)
    PROVE  Ordered(Tail(s)) /\ Before({TokenOf(Head(s))}, Tokens(Tail(s)))
<1>1. DOMAIN Tail(s) = 1..(Len(s) - 1) /\ DOMAIN s = 1..Len(s) /\ Len(s) >= 1
  OBVIOUS
<1>2. \A i \in DOMAIN Tail(s) : Tail(s)[i] = s[i + 1] /\ i + 1 \in DOMAIN s /\ 1 < i + 1
  BY <1>1
<1>3. Head(s) = s[1] /\ 1 \in DOMAIN s
  BY <1>1
<1>4. Ordered(Tail(s))
  <2> SUFFICES ASSUME NEW i \in DOMAIN Tail(s), NEW j \in DOMAIN Tail(s), i < j,
                      SameLane(Tail(s)[i], Tail(s)[j])
               PROVE  Precedes(Tail(s)[i], Tail(s)[j])
    BY DEF Ordered
  <2>1. i + 1 < j + 1
    BY <1>1
  <2> QED BY <1>2, <2>1 DEF Ordered
<1>5. Before({TokenOf(Head(s))}, Tokens(Tail(s)))
  <2> SUFFICES ASSUME NEW i \in DOMAIN Tail(s),
                      SameLane(TokenOf(Head(s)), TokenOf(Tail(s)[i]))
               PROVE  Precedes(TokenOf(Head(s)), TokenOf(Tail(s)[i]))
    BY DEF Before, Tokens
  <2> QED BY <1>2, <1>3, TokenDecides DEF Ordered
<1> QED BY <1>4, <1>5

-----------------------------------------------------------------------------
(* Behind the ingest thread a step only moves tokens between the stages.   *)
LEMMA MovedOnly ==
    ASSUME IntakeInv, Conserved, UNCHANGED <<arrived, incomingQueue, ingesting>>,
           Stages' = Stages
    PROVE  IntakeInv' /\ Conserved'
<1>1. IntakeInv'
  BY DEF IntakeInv, Taken
<1>2. \A x : IsHandedOver(x)' <=> IsHandedOver(x)
  BY DEF IsHandedOver, Taken
<1>3. \A n, k : Delivery(n, k)' = Delivery(n, k)
  BY DEF Delivery
<1>4. Taken' = Taken
  BY DEF Taken
<1>5. Conserved'
  BY <1>2, <1>3, <1>4 DEF Conserved
<1> QED BY <1>1, <1>5

(* The steps of the publisher thread.                                      *)
LEMMA PublishStep ==
    ASSUME IInv, TypeOK', PublishPop \/ PublishAccepted
    PROVE  IInv'
<1> USE DEF IInv
<1>1. CASE PublishPop
  <2>1. outgoingQueue \in Seq(OutgoingItem) /\ outgoingQueue # << >>
    BY <1>1 DEF TypeOK, PublishPop
  <2> DEFINE h == TokenOf(Head(outgoingQueue))
  <2>2. Tokens(outgoingQueue) = {h} \cup Tokens(outgoingQueue')
    BY <1>1, <2>1, TokensOfPop DEF PublishPop
  <2>3. Tokens(publishing) = {} /\ Tokens(publishing') = {h}
    BY <1>1, TokensOfOne DEF PublishPop
  <2>4. Ordered(outgoingQueue') /\ Before({h}, Tokens(outgoingQueue'))
    BY <1>1, <2>1, OrderedPop DEF PublishPop, OrderInv
  <2>5. /\ Tokens(published') = Tokens(published) /\ Ordered(published')
        /\ Tokens(transformQueue') = Tokens(transformQueue) /\ Ordered(transformQueue')
        /\ Transforming' = Transforming /\ Transformable' = Transformable
        /\ transformQueue' = transformQueue
    BY <1>1 DEF PublishPop, Transforming, Transformable, OrderInv
  <2> HIDE DEF h
  <2>6. Stages' = Stages
    BY <2>2, <2>3, <2>5 DEF Stages
  <2>7. IntakeInv' /\ Conserved'
    BY <1>1, <2>6, MovedOnly DEF PublishPop
  <2>8. LaneInv'
    BY <2>5 DEF LaneInv
  <2>9. OrderInv'
    BY <2>2, <2>3, <2>4, <2>5 DEF OrderInv, Before
  <2> QED BY <2>7, <2>8, <2>9
<1>2. CASE PublishAccepted
  <2>1. publishing \in Seq(OutgoingItem) /\ publishing # << >> /\ Len(publishing) <= 1
    BY <1>2 DEF TypeOK, PublishAccepted
  <2>2. publishing[1] \in OutgoingItem
    BY <2>1, InHand
  <2> DEFINE h == TokenOf(publishing[1])
  <2>3. Tokens(publishing) = {h} /\ Tokens(publishing') = {}
    <3>1. DOMAIN publishing = {1}
      BY <2>1, OnlyOne
    <3> QED BY <1>2, <3>1, TokensOfOne DEF Tokens, PublishAccepted
  <2>4. published \in Seq(OutgoingItem) /\ published' = Append(published, publishing[1])
    BY <1>2 DEF TypeOK, PublishAccepted
  <2>5. Tokens(published') = Tokens(published) \cup {h}
    BY <2>2, <2>4, TokensOfPush
  <2>6. Ordered(published')
    <3>1. Before(Tokens(published), {h})
      BY <2>3 DEF OrderInv, Before
    <3> QED BY <2>2, <2>4, <3>1, OrderedPush DEF OrderInv
  <2>7. /\ outgoingQueue' = outgoingQueue /\ transformQueue' = transformQueue
        /\ Transforming' = Transforming /\ Transformable' = Transformable
    BY <1>2 DEF PublishAccepted, Transforming, Transformable, queues
  <2> HIDE DEF h
  <2>8. Stages' = Stages
    BY <2>3, <2>5, <2>7 DEF Stages
  <2>9. IntakeInv' /\ Conserved'
    BY <1>2, <2>8, MovedOnly DEF PublishAccepted, queues
  <2>10. LaneInv'
    BY <2>7 DEF LaneInv
  <2>11. OrderInv'
    BY <2>3, <2>5, <2>6, <2>7 DEF OrderInv, Before
  <2> QED BY <2>9, <2>10, <2>11
<1> QED BY <1>1, <1>2

(* The steps of the transformer thread.                                    *)
LEMMA TransformStep ==
    ASSUME IInv, TypeOK', TransformPop \/ TransformExecute \/ TransformPush
    PROVE  IInv'
<1> USE DEF IInv
<1>1. CASE TransformPop
  <2>1. transformQueue \in Seq(TransformItem) /\ transformQueue # << >>
    BY <1>1 DEF TypeOK, TransformPop
  <2> DEFINE h == TokenOf(Head(transformQueue))
  <2>2. Tokens(transformQueue) = {h} \cup Tokens(transformQueue')
    BY <1>1, <2>1, TokensOfPop DEF TransformPop
  <2>3. Transforming = {} /\ Transforming' = {h}
    <3>1. 1 \in DOMAIN transformQueue /\ Head(transformQueue) = transformQueue[1]
      BY <2>1, InHand
    <3>2. transforming' = <<[item |-> Head(transformQueue), next |-> 1]>>
      BY <1>1, <3>1 DEF TransformPop, LaneInv
    <3> QED BY <1>1, <3>2 DEF TransformPop, Transforming
  <2>4. Ordered(transformQueue') /\ Before({h}, Tokens(transformQueue'))
    BY <1>1, <2>1, OrderedPop DEF TransformPop, OrderInv
  <2>5. /\ published' = published /\ publishing' = publishing
        /\ outgoingQueue' = outgoingQueue
    BY <1>1 DEF TransformPop
  <2>6. \A i \in DOMAIN transformQueue' : transformQueue'[i].streamTransformers # << >>
    BY <1>1, <2>1 DEF TransformPop, LaneInv
  <2> HIDE DEF h
  <2>7. Transformable' = Transformable
    BY <2>2, <2>3 DEF Transformable
  <2>8. Stages' = Stages
    BY <2>5, <2>7 DEF Stages
  <2>9. IntakeInv' /\ Conserved'
    BY <1>1, <2>8, MovedOnly DEF TransformPop
  <2>10. LaneInv'
    BY <2>6, <2>7 DEF LaneInv
  <2>11. OrderInv'
    BY <2>3, <2>4, <2>5, <2>7 DEF OrderInv, Before
  <2> QED BY <2>9, <2>10, <2>11
<1>2. CASE TransformExecute
  <2>1. transforming \in Seq(TransformState) /\ transforming # << >> /\ Len(transforming) <= 1
    BY <1>2 DEF TypeOK, TransformExecute
  <2>2. DOMAIN transforming = {1} /\ transforming[1] \in TransformState
    BY <2>1, OnlyOne
  <2>3. transforming[1].item \in TransformItem
    BY <2>2 DEF TransformState
  <2>4. Transforming' = Transforming
    <3> DEFINE item == transforming[1].item
    <3>1. PICK t, p, n :
             \/ transforming' = transforming
             \/ transforming' = <<[item |-> [item EXCEPT !.topic = t, !.payload = p],
                                   next |-> n]>>
      BY <1>2 DEF TransformExecute, Terminate, threads
    <3>2. TokenOf([item EXCEPT !.topic = t, !.payload = p]) = TokenOf(item)
      BY <2>3 DEF TokenOf, TransformItem
    <3> HIDE DEF item
    <3>3. CASE transforming' = transforming
      BY <3>3 DEF Transforming
    <3>4. CASE transforming' = <<[item |-> [item EXCEPT !.topic = t, !.payload = p],
                                  next |-> n]>>
      <4>1. Transforming' = {TokenOf([item EXCEPT !.topic = t, !.payload = p])}
        BY <3>4 DEF Transforming
      <4>2. Transforming = {TokenOf(item)}
        BY <2>2 DEF Transforming, item
      <4> QED BY <3>2, <4>1, <4>2
    <3> QED BY <3>1, <3>3, <3>4
  <2>5. UNCHANGED <<queues, ingesting, publishing, arrived, published>>
    BY <1>2 DEF TransformExecute, Terminate, queues, threads
  <2>6. Stages' = Stages /\ Transformable' = Transformable
    BY <2>4, <2>5 DEF Stages, Transformable, queues
  <2>7. IntakeInv' /\ Conserved'
    BY <2>5, <2>6, MovedOnly DEF queues
  <2>8. LaneInv'
    BY <2>5, <2>6 DEF LaneInv, queues
  <2>9. OrderInv'
    BY <2>4, <2>5, <2>6 DEF OrderInv, queues
  <2> QED BY <2>7, <2>8, <2>9
<1>3. CASE TransformPush
  <2>1. transforming \in Seq(TransformState) /\ transforming # << >> /\ Len(transforming) <= 1
    BY <1>3 DEF TypeOK, TransformPush
  <2>2. DOMAIN transforming = {1} /\ transforming[1].item \in TransformItem
    <3>1. DOMAIN transforming = {1} /\ transforming[1] \in TransformState
      BY <2>1, OnlyOne
    <3> QED BY <3>1 DEF TransformState
  <2> DEFINE x == [origin |-> transforming[1].item.origin,
                   from |-> transforming[1].item.from,
                   route |-> transforming[1].item.route,
                   topic |-> transforming[1].item.topic,
                   payload |-> transforming[1].item.payload]
  <2>3. x \in OutgoingItem
    BY <2>2 DEF TransformItem, OutgoingItem
  <2>4. TokenOf(x) = TokenOf(transforming[1].item)
    BY DEF TokenOf
  <2>5. outgoingQueue' = Append(outgoingQueue, x)
    BY <1>3 DEF TransformPush
  <2>6. outgoingQueue \in Seq(OutgoingItem)
    BY DEF TypeOK
  <2>7. Transforming = {TokenOf(x)} /\ Transforming' = {}
    BY <1>3, <2>2, <2>4 DEF Transforming, TransformPush
  <2> HIDE DEF x
  <2>8. Tokens(outgoingQueue') = Tokens(outgoingQueue) \cup {TokenOf(x)}
    BY <2>3, <2>5, <2>6, TokensOfPush
  <2>9. Ordered(outgoingQueue')
    <3>1. Before(Tokens(outgoingQueue), {TokenOf(x)})
      BY <2>7 DEF OrderInv, Before, Transformable
    <3> QED BY <2>3, <2>5, <2>6, <3>1, OrderedPush DEF OrderInv
  <2>10. /\ published' = published /\ publishing' = publishing
         /\ transformQueue' = transformQueue
    BY <1>3 DEF TransformPush
  <2>11. Stages' = Stages
    BY <2>7, <2>8, <2>10 DEF Stages, Transformable
  <2>12. IntakeInv' /\ Conserved'
    BY <1>3, <2>11, MovedOnly DEF TransformPush
  <2>13. LaneInv'
    BY <2>7, <2>10 DEF LaneInv, Transformable
  <2>14. OrderInv'
    BY <2>7, <2>8, <2>9, <2>10 DEF OrderInv, Before, Transformable
  <2> QED BY <2>12, <2>13, <2>14
<1> QED BY <1>1, <1>2, <1>3

(* A message is popped: its deliveries are not handed over yet.            *)
LEMMA IngestPopStep ==
    ASSUME IInv, TypeOK', IngestPop
    PROVE  IInv'
<1> USE DEF IInv
<1> DEFINE m == Head(incomingQueue)
<1>1. /\ incomingQueue \in Seq(IncomingItem) /\ incomingQueue # << >>
      /\ arrived \in Seq([topic: Topic, payload: Payload])
  BY DEF TypeOK, IngestPop
<1>2. /\ 1 \in DOMAIN incomingQueue /\ m = incomingQueue[1] /\ m \in IncomingItem
      /\ Len(incomingQueue) \in Nat /\ Len(arrived) \in Nat
      /\ Len(Tail(incomingQueue)) = Len(incomingQueue) - 1
  BY <1>1, InHand
<1>3. m.origin = Taken + 1 /\ m.topic = arrived[Taken + 1].topic
  BY <1>2 DEF IntakeInv
<1>4. Taken' = Taken + 1 /\ Taken \in Nat
  BY <1>2 DEF IngestPop, Taken, IntakeInv
<1>5. /\ UNCHANGED <<transformQueue, outgoingQueue, transforming, publishing,
                     arrived, published>>
      /\ incomingQueue' = Tail(incomingQueue)
      /\ ingesting = << >>
  BY DEF IngestPop
<1>6. /\ RoutesOf(m.topic) = << >> => ingesting' = << >>
      /\ RoutesOf(m.topic) # << >> => ingesting' = <<[message |-> m, next |-> 1]>>
  BY DEF IngestPop
<1> HIDE DEF m
<1>7. IntakeInv'
  <2>1. Len(incomingQueue') <= Len(arrived')
    BY <1>2, <1>5 DEF IntakeInv
  <2>2. ASSUME NEW i \in DOMAIN incomingQueue'
        PROVE  /\ incomingQueue'[i].origin = Taken' + i
               /\ incomingQueue'[i].topic = arrived'[Taken' + i].topic
    <3>1. i + 1 \in DOMAIN incomingQueue /\ incomingQueue'[i] = incomingQueue[i + 1]
          /\ i \in Nat
      BY <1>1, <1>5
    <3>2. Taken + (i + 1) = Taken' + i
      BY <1>4, <3>1
    <3> QED BY <1>5, <3>1, <3>2 DEF IntakeInv
  <2>3. ASSUME NEW i \in DOMAIN ingesting'
        PROVE  /\ ingesting'[i].message.origin = Taken'
               /\ Taken' >= 1
               /\ ingesting'[i].message.topic = arrived'[Taken'].topic
    BY <1>3, <1>4, <1>5, <1>6
  <2> QED BY <2>1, <2>2, <2>3 DEF IntakeInv
<1>8. Stages' = Stages /\ Transformable' = Transformable /\ Transforming' = Transforming
  BY <1>5 DEF Stages, Transformable, Transforming
<1>9. Conserved'
  <2>1. ASSUME NEW x \in Stages'
        PROVE  IsHandedOver(x)'
    <3>1. IsHandedOver(x)
      BY <1>8 DEF Conserved
    <3>2. x.origin \in 1..Taken' /\ x.origin < Taken'
      BY <1>4, <3>1 DEF IsHandedOver
    <3> QED BY <1>5, <3>1, <3>2 DEF IsHandedOver
  <2>2. ASSUME NEW n \in 1..Taken', NEW k \in DOMAIN RoutesOf(arrived'[n].topic),
               IsHandedOver(Delivery(n, k))'
        PROVE  Delivery(n, k)' \in Stages'
    <3>1. n # Taken'
      <4> SUFFICES ASSUME n = Taken' PROVE FALSE
        OBVIOUS
      <4>1. k \in DOMAIN RoutesOf(m.topic) /\ arrived'[n].topic = m.topic
        BY <1>3, <1>4, <1>5
      <4>2. RoutesOf(m.topic) \in Seq(RouteProperties)
        BY <1>2, RoutesOfType DEF IncomingItem
      <4>3. k >= 1 /\ RoutesOf(m.topic) # << >>
        BY <4>1, <4>2
      <4>4. 1 \in DOMAIN ingesting' /\ ingesting'[1].next = 1
        BY <1>6, <4>3
      <4>5. Delivery(n, k)'.origin = n /\ Delivery(n, k)'.route = k
        BY DEF Delivery
      <4>6. n < Taken' \/ k < 1
        BY <2>2, <4>4, <4>5 DEF IsHandedOver
      <4>7. k \in Nat /\ n \in Nat
        BY <1>4, <4>1, <4>2
      <4> QED BY <4>3, <4>6, <4>7
    <3>2. n \in 1..Taken /\ k \in DOMAIN RoutesOf(arrived[n].topic)
      BY <1>4, <1>5, <3>1
    <3>3. IsHandedOver(Delivery(n, k))
      BY <1>5, <3>2 DEF IsHandedOver, Delivery
    <3>4. Delivery(n, k)' = Delivery(n, k)
      BY <1>5 DEF Delivery
    <3> QED BY <1>8, <3>2, <3>3, <3>4 DEF Conserved
  <2> QED BY <2>1, <2>2 DEF Conserved
<1>10. LaneInv'
  BY <1>5, <1>8 DEF LaneInv
<1>11. OrderInv'
  BY <1>5, <1>8 DEF OrderInv
<1> QED BY <1>7, <1>9, <1>10, <1>11

(* A route is served: its delivery, and no other, is handed over.  It      *)
(* comes after every delivery of its lane that is under way or done.       *)
LEMMA IngestRouteStep ==
    ASSUME IInv, TypeOK', IngestRoute
    PROVE  IInv'
<1> USE DEF IInv
<1> DEFINE message == ingesting[1].message
           next == ingesting[1].next
           routes == RoutesOf(message.topic)
           x == [origin |-> message.origin, from |-> message.topic, route |-> next]
           p == [origin |-> message.origin, from |-> message.topic, route |-> next,
                 topic |-> routes[next].outputTopic, payload |-> message.payload]
           q == [origin |-> message.origin, from |-> message.topic, route |-> next,
                 streamTransformers |-> routes[next].streamTransformers,
                 inputPayload |-> message.payload,
                 topic |-> routes[next].outputTopic, payload |-> message.payload]
<1>1. DOMAIN ingesting = {1} /\ ingesting[1] \in IngestState
  <2>1. ingesting \in Seq(IngestState) /\ ingesting # << >> /\ Len(ingesting) <= 1
    BY DEF TypeOK, IngestRoute
  <2> QED BY <2>1, OnlyOne
<1>2. /\ message \in IncomingItem /\ next \in Nat /\ next \in DOMAIN routes
      /\ routes \in Seq(RouteProperties)
  <2>1. message \in IncomingItem /\ next \in Nat /\ next \in DOMAIN routes
    BY <1>1 DEF TypeOK, IngestState
  <2> QED BY <2>1, RoutesOfType DEF IncomingItem
<1>3. /\ message.origin = Taken /\ Taken >= 1 /\ message.topic = arrived[Taken].topic
      /\ Taken \in Nat
  BY <1>1, <1>2 DEF IntakeInv, IncomingItem
<1>4. p \in OutgoingItem /\ q \in TransformItem /\ TokenOf(p) = x /\ TokenOf(q) = x
  <2>1. routes[next] \in RouteProperties
    BY <1>2
  <2> HIDE DEF routes
  <2> QED BY <1>2, <2>1 DEF OutgoingItem, TransformItem, TokenOf, IncomingItem, RouteProperties
<1>5. \/ /\ routes[next].streamTransformers # << >>
         /\ transformQueue' = Append(transformQueue, q)
         /\ outgoingQueue' = outgoingQueue
      \/ /\ routes[next].streamTransformers = << >>
         /\ outgoingQueue' = Append(outgoingQueue, p)
         /\ transformQueue' = transformQueue
  BY DEF IngestRoute, NeedsTransform
<1>6. Direct(x) <=> routes[next].streamTransformers = << >>
  BY DEF Direct, StreamTransformersOf
<1>7. UNCHANGED <<incomingQueue, transforming, publishing, arrived, published>>
  BY DEF IngestRoute
<1>8. \/ next = Len(routes) /\ ingesting' = << >>
      \/ next # Len(routes) /\ ingesting' = <<[message |-> message, next |-> next + 1]>>
  BY DEF IngestRoute, RestOfRoutes
<1>9. q.streamTransformers = routes[next].streamTransformers
  OBVIOUS
<1>10. x.origin = message.origin /\ x.from = message.topic /\ x.route = next
  OBVIOUS
<1>11. transformQueue \in Seq(TransformItem) /\ outgoingQueue \in Seq(OutgoingItem)
  BY DEF TypeOK
<1> HIDE DEF x, p, q, message, next, routes
<1>12. Taken' = Taken
  BY <1>7 DEF Taken
<1>13. IntakeInv'
  BY <1>3, <1>7, <1>8, <1>12 DEF IntakeInv
<1>14. Before(Stages, {x})
  <2> SUFFICES ASSUME NEW a \in Stages PROVE Precedes(a, x)
    BY DEF Before
  <2>1. IsHandedOver(a)
    BY DEF Conserved
  <2>2. a.origin \in 1..Taken /\ (a.origin < Taken \/ a.route < next)
    BY <1>1, <2>1 DEF IsHandedOver, next
  <2> QED BY <1>3, <1>10, <2>2 DEF Precedes
<1>15. Stages' = Stages \cup {x}
  <2>1. Tokens(Append(transformQueue, q)) = Tokens(transformQueue) \cup {x}
    BY <1>4, <1>11, TokensOfPush
  <2>2. Tokens(Append(outgoingQueue, p)) = Tokens(outgoingQueue) \cup {x}
    BY <1>4, <1>11, TokensOfPush
  <2> QED BY <1>5, <1>7, <2>1, <2>2 DEF Stages, Transformable, Transforming
<1>16. Conserved'
  <2>1. \A a : IsHandedOver(a)' <=> IsHandedOver(a) \/ (/\ a.origin = Taken /\ a.route = next
                                                       /\ a.from = message.topic)
    <3> TAKE a
    <3>1. \A t : t = message.topic => DOMAIN RoutesOf(t) = 1..Len(routes) /\ Len(routes) \in Nat
      BY <1>2 DEF routes
    <3>2. IsHandedOver(a) <=>
            /\ a.origin \in 1..Taken /\ a.from = arrived[a.origin].topic
            /\ a.route \in DOMAIN RoutesOf(a.from)
            /\ a.origin < Taken \/ a.route < next
      BY <1>1 DEF IsHandedOver, next
    <3>3. IsHandedOver(a)' <=>
            /\ a.origin \in 1..Taken /\ a.from = arrived[a.origin].topic
            /\ a.route \in DOMAIN RoutesOf(a.from)
            /\ next # Len(routes) => (a.origin < Taken \/ a.route < next + 1)
      BY <1>7, <1>8, <1>12 DEF IsHandedOver
    <3>4. CASE a.origin = Taken
      <4>1. CASE a.from = message.topic
        BY <1>2, <1>3, <3>1, <3>2, <3>3, <3>4, <4>1
      <4>2. CASE a.from # message.topic
        BY <1>3, <3>2, <3>3, <3>4, <4>2
      <4> QED BY <4>1, <4>2
    <3>5. CASE a.origin # Taken
      BY <1>3, <3>2, <3>3, <3>5
    <3> QED BY <3>4, <3>5
  <2>2. ASSUME NEW a \in Stages' PROVE IsHandedOver(a)'
    BY <1>3, <1>10, <1>15, <2>1 DEF Conserved
  <2>3. ASSUME NEW n \in 1..Taken, NEW k \in DOMAIN RoutesOf(arrived[n].topic),
               IsHandedOver(Delivery(n, k))'
        PROVE  Delivery(n, k) \in Stages'
    <3>1. Delivery(n, k)' = Delivery(n, k)
      BY <1>7 DEF Delivery
    <3>2. CASE IsHandedOver(Delivery(n, k))
      BY <1>15, <3>2 DEF Conserved
    <3>3. CASE ~IsHandedOver(Delivery(n, k))
      <4>1. IsHandedOver(Delivery(n, k))'
        BY <2>3
      <4>2. n = Taken /\ k = next
        BY <1>7, <1>12, <2>1, <3>1, <3>3, <4>1 DEF Delivery, IsHandedOver
      <4>3. Delivery(n, k) = x
        BY <1>3, <4>2 DEF Delivery, x
      <4> QED BY <1>15, <4>3
    <3> QED BY <3>2, <3>3
  <2>4. \A n, k : Delivery(n, k)' = Delivery(n, k)
    BY <1>7 DEF Delivery
  <2> QED BY <1>7, <1>12, <2>2, <2>3, <2>4 DEF Conserved
<1>17. CASE routes[next].streamTransformers # << >>
  <2>1. /\ transformQueue' = Append(transformQueue, q) /\ outgoingQueue' = outgoingQueue
        /\ ~Direct(x) /\ q.streamTransformers # << >>
    BY <1>5, <1>6, <1>9, <1>17
  <2>2. Tokens(transformQueue') = Tokens(transformQueue) \cup {x}
    BY <1>4, <1>11, <2>1, TokensOfPush
  <2>3. Ordered(transformQueue')
    <3>1. Before(Tokens(transformQueue), {x})
      BY <1>14 DEF Before, Stages, Transformable
    <3> QED BY <1>4, <1>11, <2>1, <3>1, OrderedPush DEF OrderInv
  <2>4. Transforming' = Transforming /\ Transformable' = Transformable \cup {x}
    BY <1>7, <2>2 DEF Transforming, Transformable
  <2>5. \A i \in DOMAIN transformQueue' : transformQueue'[i].streamTransformers # << >>
    BY <1>11, <2>1 DEF LaneInv
  <2>6. LaneInv'
    BY <2>1, <2>4, <2>5 DEF LaneInv
  <2>7. OrderInv'
    BY <1>7, <1>14, <2>1, <2>2, <2>3, <2>4 DEF OrderInv, Before, Stages, Transformable
  <2> QED BY <1>13, <1>16, <2>6, <2>7
<1>18. CASE routes[next].streamTransformers = << >>
  <2>1. /\ outgoingQueue' = Append(outgoingQueue, p) /\ transformQueue' = transformQueue
        /\ Direct(x)
    BY <1>5, <1>6, <1>18
  <2>2. Tokens(outgoingQueue') = Tokens(outgoingQueue) \cup {x}
    BY <1>4, <1>11, <2>1, TokensOfPush
  <2>3. Ordered(outgoingQueue')
    <3>1. Before(Tokens(outgoingQueue), {x})
      BY <1>14 DEF Before, Stages
    <3> QED BY <1>4, <1>11, <2>1, <3>1, OrderedPush DEF OrderInv
  <2>4. Transforming' = Transforming /\ Transformable' = Transformable
    BY <1>7, <2>1 DEF Transforming, Transformable
  <2>5. LaneInv'
    BY <2>1, <2>4 DEF LaneInv
  <2>6. Before({x}, Transformable)
    BY <2>1 DEF LaneInv, Before, SameLane
  <2>7. OrderInv'
    BY <1>7, <1>14, <2>1, <2>2, <2>3, <2>4, <2>6 DEF OrderInv, Before, Stages
  <2> QED BY <1>13, <1>16, <2>5, <2>7
<1> QED BY <1>17, <1>18

(* A message arrives behind those that are waiting.                        *)
LEMMA MessageArrivedStep ==
    ASSUME IInv, TypeOK', NEW t \in Topic, NEW p \in Payload, MessageArrived(t, p)
    PROVE  IInv'
<1> USE DEF IInv
<1> DEFINE a == [topic |-> t, payload |-> p]
           m == [origin |-> Len(arrived) + 1, topic |-> t, payload |-> p]
<1>1. /\ incomingQueue \in Seq(IncomingItem) /\ m \in IncomingItem
      /\ arrived \in Seq([topic: Topic, payload: Payload])
      /\ Len(arrived) \in Nat /\ Len(incomingQueue) \in Nat
  BY DEF TypeOK, IncomingItem
<1>2. arrived' = Append(arrived, a) /\ incomingQueue' = Append(incomingQueue, m)
  BY DEF MessageArrived
<1>3. UNCHANGED <<transformQueue, outgoingQueue, threads, published>>
  BY DEF MessageArrived
<1>4. m.origin = Len(arrived) + 1 /\ m.topic = t /\ a.topic = t
  OBVIOUS
<1> HIDE DEF a, m
<1>5. /\ Len(arrived') = Len(arrived) + 1 /\ Len(incomingQueue') = Len(incomingQueue) + 1
      /\ arrived'[Len(arrived) + 1] = a
      /\ \A n \in 1..Len(arrived) : arrived'[n] = arrived[n]
      /\ DOMAIN incomingQueue' = 1..(Len(incomingQueue) + 1)
      /\ incomingQueue'[Len(incomingQueue) + 1] = m
      /\ \A i \in DOMAIN incomingQueue :
            i \in 1..Len(incomingQueue) /\ incomingQueue'[i] = incomingQueue[i]
  BY <1>1, <1>2
<1>6. Taken' = Taken /\ Taken \in Nat /\ Taken <= Len(arrived)
  BY <1>1, <1>5 DEF Taken, IntakeInv
<1>7. \A n \in 1..Taken : arrived'[n] = arrived[n]
  BY <1>1, <1>5, <1>6
<1>8. IntakeInv'
  <2>1. Len(incomingQueue') <= Len(arrived')
    BY <1>1, <1>5 DEF IntakeInv
  <2>2. ASSUME NEW i \in DOMAIN incomingQueue'
        PROVE  /\ incomingQueue'[i].origin = Taken' + i
               /\ incomingQueue'[i].topic = arrived'[Taken' + i].topic
    <3>1. CASE i = Len(incomingQueue) + 1
      <4>1. Taken' + i = Len(arrived) + 1
        BY <1>1, <1>6, <3>1 DEF Taken
      <4> QED BY <1>4, <1>5, <3>1, <4>1
    <3>2. CASE i # Len(incomingQueue) + 1
      <4>1. i \in DOMAIN incomingQueue /\ i \in 1..Len(incomingQueue)
        BY <1>1, <1>5, <3>2
      <4>2. Taken + i \in 1..Len(arrived)
        BY <1>1, <1>6, <4>1 DEF Taken
      <4> QED BY <1>5, <1>6, <4>1, <4>2 DEF IntakeInv
    <3> QED BY <3>1, <3>2
  <2>3. ASSUME NEW i \in DOMAIN ingesting'
        PROVE  /\ ingesting'[i].message.origin = Taken'
               /\ Taken' >= 1
               /\ ingesting'[i].message.topic = arrived'[Taken'].topic
    <3>1. ingesting' = ingesting
      BY <1>3 DEF threads
    <3>2. Taken \in 1..Taken
      BY <1>6, <3>1 DEF IntakeInv
    <3> QED BY <1>6, <1>7, <3>1, <3>2 DEF IntakeInv
  <2> QED BY <2>1, <2>2, <2>3 DEF IntakeInv
<1>9. Stages' = Stages /\ Transformable' = Transformable /\ Transforming' = Transforming
  BY <1>3 DEF Stages, Transformable, Transforming, threads
<1>10. Conserved'
  <2>1. \A x : IsHandedOver(x)' <=> IsHandedOver(x)
    BY <1>3, <1>6, <1>7 DEF IsHandedOver, threads
  <2>2. \A n \in 1..Taken : \A k : Delivery(n, k)' = Delivery(n, k)
    BY <1>7 DEF Delivery
  <2> QED BY <1>6, <1>7, <1>9, <2>1, <2>2 DEF Conserved
<1>11. LaneInv'
  BY <1>3, <1>9 DEF LaneInv
<1>12. OrderInv'
  BY <1>3, <1>9 DEF OrderInv, threads
<1> QED BY <1>8, <1>10, <1>11, <1>12

(* A process that terminates leaves everything where it was.               *)
LEMMA NothingMoves ==
    ASSUME IInv, TypeOK', UNCHANGED <<queues, threads, arrived, published>>
    PROVE  IInv'
<1> USE DEF IInv
<1>1. Stages' = Stages /\ Transformable' = Transformable /\ Transforming' = Transforming
  BY DEF Stages, Transformable, Transforming, queues, threads
<1>2. IntakeInv' /\ Conserved'
  BY <1>1, MovedOnly DEF queues, threads
<1>3. LaneInv' /\ OrderInv'
  BY <1>1 DEF LaneInv, OrderInv, queues, threads
<1> QED BY <1>2, <1>3

-----------------------------------------------------------------------------
(* At the start the stages are empty, and every step of a thread keeps the *)
(* tokens where they should be.                                            *)
LEMMA PipelineInit ==
    ASSUME Init
    PROVE  IInv
<1>1. TypeOK
  BY DEF Init, TypeOK
<1>2. Stages = {} /\ Transformable = {} /\ Taken = 0
  BY DEF Init, Stages, Transformable, Transforming, Tokens, Taken
<1>3. IntakeInv /\ Conserved
  BY <1>2 DEF Init, IntakeInv, Conserved
<1>4. LaneInv /\ OrderInv
  BY <1>2 DEF Init, LaneInv, OrderInv, Ordered, Before, Stages, Transformable
<1> QED BY <1>1, <1>3, <1>4 DEF IInv

(* Every pop, push and loop iteration of the threads keeps the invariant.  *)
LEMMA PipelineStep ==
    ASSUME IInv, [Next]_vars
    PROVE  IInv'
<1> TypeOK'
  BY TypeStep DEF IInv
<1>1. CASE UNCHANGED vars
  BY <1>1, NothingMoves DEF vars
<1>2. CASE Ingest
  BY <1>2, IngestPopStep, IngestRouteStep DEF Ingest
<1>3. CASE Transform
  BY <1>3, TransformStep DEF Transform
<1>4. CASE PublishPop \/ PublishAccepted
  BY <1>4, PublishStep
<1>5. CASE PublishThrows
  BY <1>5, NothingMoves DEF PublishThrows, Terminate
<1>6. CASE \E t \in Topic, p \in Payload : MessageArrived(t, p)
  BY <1>6, MessageArrivedStep
<1>7. CASE MalformedMessageArrived
  BY <1>7, NothingMoves DEF MalformedMessageArrived, Terminate
<1> QED
  BY <1>1, <1>2, <1>3, <1>4, <1>5, <1>6, <1>7 DEF Next, Publish, Callback

(* The stages hold exactly what ingest() has handed over, in order inside  *)
(* each lane, in every reachable state of the three threads.               *)
THEOREM PipelineInvariant == Safety => []IInv
<1>1. Init => IInv
  BY PipelineInit
<1>2. IInv /\ [Next]_vars => IInv'
  BY PipelineStep
<1> QED BY <1>1, <1>2, PTL DEF Safety

(* Deliveries of one lane leave in the order of arrival and of the routes, *)
(* and none leaves twice, however the threads interleave.                  *)
THEOREM LaneOrder == Safety => []InLaneOrder
<1>1. IInv => InLaneOrder
  BY DEF IInv, OrderInv, InLaneOrder
<1> QED BY <1>1, PipelineInvariant, PTL

(* The stages hold every delivery that is due and has not been published.  *)
LEMMA StagesHoldAll ==
    ASSUME IInv
    PROVE  NothingLost
<1> SUFFICES ASSUME NEW n \in DOMAIN arrived,
                    NEW k \in DOMAIN RoutesOf(arrived[n].topic)
             PROVE  InIngest(n, k) \/ InTransform(n, k) \/ InPublish(n, k)
                       \/ Holds(published, n, k)
  BY DEF NothingLost
<1>1. /\ n \in 1..Len(arrived) /\ Len(arrived) \in Nat /\ Len(incomingQueue) \in Nat
      /\ Taken \in Nat /\ DOMAIN incomingQueue = 1..Len(incomingQueue)
  BY DEF IInv, TypeOK, IntakeInv, Taken
<1>2. RoutesOf(arrived[n].topic) \in Seq(RouteProperties)
  <2>1. arrived \in Seq([topic: Topic, payload: Payload])
    BY DEF IInv, TypeOK
  <2>2. arrived[n] \in [topic: Topic, payload: Payload]
    BY <2>1, ItemOf
  <2>3. arrived[n].topic \in Topic
    BY <2>2
  <2> QED BY <2>3, RoutesOfType
<1>3. CASE n > Taken
  <2>1. n - Taken \in DOMAIN incomingQueue /\ Taken + (n - Taken) = n
    BY <1>1, <1>3 DEF Taken
  <2> QED BY <2>1 DEF IInv, IntakeInv, InIngest
<1>4. CASE n <= Taken /\ ~IsHandedOver(Delivery(n, k))
  <2>1. PICK i \in DOMAIN ingesting : ~(n < Taken \/ k < ingesting[i].next)
    BY <1>1, <1>4 DEF IsHandedOver, Delivery
  <2>2. ingesting[i].message.origin = Taken
    BY <2>1 DEF IInv, IntakeInv
  <2>3. ingesting[i].next \in Nat /\ k \in Nat
    <3>1. ingesting \in Seq(IngestState)
      BY DEF IInv, TypeOK
    <3>2. ingesting[i] \in IngestState
      BY <2>1, <3>1
    <3> QED BY <1>2, <3>2 DEF IngestState
  <2> QED BY <1>1, <1>4, <2>1, <2>2, <2>3 DEF InIngest
<1>5. CASE n <= Taken /\ IsHandedOver(Delivery(n, k))
  <2>1. Delivery(n, k) \in Stages
    BY <1>1, <1>5 DEF IInv, Conserved
  <2>2. \A x : TokenOf(x) = Delivery(n, k) => x.origin = n /\ x.route = k
    BY DEF TokenOf, Delivery
  <2> HIDE DEF TokenOf, Delivery
  <2> QED BY <2>1, <2>2 DEF Stages, Transformable, Transforming, Tokens,
                            InTransform, InPublish, Holds
<1> QED BY <1>1, <1>3, <1>4, <1>5

(* A delivery that is due and not published yet waits in a queue or in the *)
(* hands of a thread.                                                      *)
THEOREM NoLoss == Safety => []NothingLost
<1>1. IInv => NothingLost
  BY StagesHoldAll
<1> QED BY <1>1, PipelineInvariant, PTL
=============================================================================
