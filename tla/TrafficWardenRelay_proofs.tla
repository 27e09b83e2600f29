--------------------- MODULE TrafficWardenRelay_proofs ---------------------
(***************************************************************************)
(* The threads of TrafficWarden implement the service of module Relay:     *)
(* what leaves is what the chain of its route makes of the message as it   *)
(* arrived, and it leaves when it is next in its lane.                     *)
(*                                                                         *)
(* The content of an item is followed through the stages as its token is   *)
(* in TrafficWarden_proofs: up to the transformer thread an item carries   *)
(* its message unchanged, in the transformer thread a run of a prefix of   *)
(* its chain, and behind it an output of the whole chain.                  *)
(***************************************************************************)
EXTENDS TrafficWarden_proofs

Items(s) == {s[i] : i \in DOMAIN s}
Leaving == Items(outgoingQueue) \cup Items(publishing) \cup Items(published)

(* The message is the one that arrived under its number.                   *)
IsAsArrived(m) ==
    /\ m.origin \in DOMAIN arrived
    /\ m.topic = arrived[m.origin].topic
    /\ m.payload = arrived[m.origin].payload

(* out is what the first n transformers of chain make of the input.        *)
RunsTo(chain, n, it, ip, initial, out) ==
    \E steps \in [1..n -> Output] :
        /\ \A i \in 1..n :
              LET before == IF i = 1 THEN initial ELSE steps[i - 1]
              IN  /\ Survives(chain[i], it, ip, before)
                  /\ steps[i] = Transformed(chain[i], it, ip, before)
        /\ out = IF n = 0 THEN initial ELSE steps[n]

(* The item of the transformer thread has n of its transformers behind it. *)
OutputOf(x) == [topic |-> x.topic, payload |-> x.payload]
IsThrough(x, n) ==
    /\ x.origin \in DOMAIN arrived
    /\ x.from = arrived[x.origin].topic
    /\ x.inputPayload = arrived[x.origin].payload
    /\ x.route \in DOMAIN RoutesOf(x.from)
    /\ x.streamTransformers = RoutesOf(x.from)[x.route].streamTransformers
    /\ n \in 0..Len(x.streamTransformers)
    /\ RunsTo(x.streamTransformers, n, x.from, x.inputPayload,
              [topic |-> RoutesOf(x.from)[x.route].outputTopic,
               payload |-> x.inputPayload],
              OutputOf(x))

(* The item of the publisher thread is made of its message.                *)
IsMade(x) == x.origin \in DOMAIN arrived /\ IsChainOutput(x)

ContentInv ==
    /\ \A m \in Items(incomingQueue) : IsAsArrived(m)
    /\ \A s \in Items(ingesting) : IsAsArrived(s.message)
    /\ \A x \in Items(transformQueue) : IsThrough(x, 0)
    /\ \A s \in Items(transforming) : IsThrough(s.item, s.next - 1)
    /\ \A x \in Leaving : IsMade(x)

-----------------------------------------------------------------------------
(* What is pushed on a queue, and what is popped from it.                  *)
LEMMA ItemsOfPush ==
    ASSUME NEW S, NEW s \in Seq(S), NEW x \in S
    PROVE  Items(Append(s, x)) = Items(s) \cup {x}
<1>1. DOMAIN Append(s, x) = DOMAIN s \cup {Len(s) + 1}
  OBVIOUS
<1>2. \A i \in DOMAIN s : Append(s, x)[i] = s[i]
  OBVIOUS
<1>3. Append(s, x)[Len(s) + 1] = x
  OBVIOUS
<1> QED BY <1>1, <1>2, <1>3 DEF Items

(* What try_pop() returns was in the queue, and what it leaves was too.    *)
LEMMA ItemsOfPop ==
    ASSUME NEW S, NEW s \in Seq(S), s # << >>
    PROVE  Head(s) \in Items(s) /\ Items(Tail(s)) \subseteq Items(s)
<1>1. DOMAIN Tail(s) = 1..(Len(s) - 1) /\ DOMAIN s = 1..Len(s) /\ Len(s) >= 1
  OBVIOUS
<1>2. \A i \in DOMAIN Tail(s) : Tail(s)[i] = s[i + 1] /\ i + 1 \in DOMAIN s
  BY <1>1
<1>3. Head(s) = s[1] /\ 1 \in DOMAIN s
  BY <1>1
<1> QED BY <1>2, <1>3 DEF Items

(* What a thread carries: nothing, or one item.                            *)
LEMMA ItemsInHand ==
    ASSUME NEW x
    PROVE  Items(<< >>) = {} /\ Items(<<x>>) = {x}
  BY DEF Items

(* The one item that a thread carries is among the items of its hand.      *)
LEMMA ItemInHand ==
    ASSUME NEW S, NEW s \in Seq(S), s # << >>
    PROVE  s[1] \in Items(s)
  BY InHand DEF Items

(* Messages that arrive later change nothing about those that have.        *)
LEMMA StillArrived ==
    ASSUME TypeOK, NEW a \in [topic: Topic, payload: Payload],
           arrived' = Append(arrived, a)
    PROVE  /\ \A m : IsAsArrived(m) => IsAsArrived(m)'
           /\ \A x, n : IsThrough(x, n) => IsThrough(x, n)'
           /\ \A x : IsMade(x) => IsMade(x)'
<1>1. arrived \in Seq([topic: Topic, payload: Payload])
  BY DEF TypeOK
<1>2. \A n \in DOMAIN arrived : n \in DOMAIN arrived' /\ arrived'[n] = arrived[n]
  BY <1>1
<1>3. ASSUME NEW m, IsAsArrived(m) PROVE IsAsArrived(m)'
  BY <1>2, <1>3 DEF IsAsArrived
<1>4. ASSUME NEW x, NEW n, IsThrough(x, n) PROVE IsThrough(x, n)'
  BY <1>2, <1>4 DEF IsThrough
<1>5. ASSUME NEW x, IsMade(x) PROVE IsMade(x)'
  BY <1>2, <1>5 DEF IsMade, IsChainOutput
<1> QED BY <1>3, <1>4, <1>5

(* One transformer more: the run of the chain is one step longer.          *)
LEMMA RunGrows ==
    ASSUME NEW chain \in Seq(Transformer), NEW n \in 0..(Len(chain) - 1),
           NEW it \in Topic, NEW ip \in Payload, NEW initial, NEW out \in Output,
           RunsTo(chain, n, it, ip, initial, out),
           Survives(chain[n + 1], it, ip, out)
    PROVE  RunsTo(chain, n + 1, it, ip, initial, Transformed(chain[n + 1], it, ip, out))
<1> DEFINE after == Transformed(chain[n + 1], it, ip, out)
<1>1. after \in Output
  BY TransformedType
<1>2. PICK steps \in [1..n -> Output] :
         /\ \A i \in 1..n :
               LET before == IF i = 1 THEN initial ELSE steps[i - 1]
               IN  /\ Survives(chain[i], it, ip, before)
                   /\ steps[i] = Transformed(chain[i], it, ip, before)
         /\ out = IF n = 0 THEN initial ELSE steps[n]
  BY DEF RunsTo
<1> HIDE DEF after
<1> DEFINE more == [i \in 1..(n + 1) |-> IF i = n + 1 THEN after ELSE steps[i]]
<1>3. more \in [1..(n + 1) -> Output]
  BY <1>1
<1>4. more[n + 1] = after /\ \A i \in 1..n : more[i] = steps[i]
  OBVIOUS
<1> HIDE DEF more
<1>5. ASSUME NEW i \in 1..(n + 1)
      PROVE  LET before == IF i = 1 THEN initial ELSE more[i - 1]
             IN  /\ Survives(chain[i], it, ip, before)
                 /\ more[i] = Transformed(chain[i], it, ip, before)
  <2>1. CASE i = n + 1
    <3>1. (IF i = 1 THEN initial ELSE more[i - 1]) = out
      BY <1>2, <1>4, <2>1
    <3> QED BY <1>4, <2>1, <3>1 DEF after
  <2>2. CASE i # n + 1
    <3>1. i \in 1..n /\ (i # 1 => i - 1 \in 1..n)
      BY <2>2
    <3>2. (IF i = 1 THEN initial ELSE more[i - 1]) = IF i = 1 THEN initial ELSE steps[i - 1]
      BY <1>4, <3>1
    <3> QED BY <1>2, <1>4, <3>1, <3>2
  <2> QED BY <2>1, <2>2
<1>6. Transformed(chain[n + 1], it, ip, out) = IF n + 1 = 0 THEN initial ELSE more[n + 1]
  BY <1>4 DEF after
<1> QED BY <1>3, <1>5, <1>6 DEF RunsTo

(* A run of the whole chain ends in an output of the chain.                *)
LEMMA RunEnds ==
    ASSUME NEW route \in RouteProperties, NEW it, NEW ip, NEW out,
           RunsTo(route.streamTransformers, Len(route.streamTransformers), it, ip,
                  [topic |-> route.outputTopic, payload |-> ip], out)
    PROVE  out \in ChainOutputs(route, it, ip)
<1> DEFINE chain == route.streamTransformers
           initial == [topic |-> route.outputTopic, payload |-> ip]
<1>1. chain \in Seq(Transformer)
  BY DEF RouteProperties
<1>2. Len(chain) \in Nat /\ DOMAIN chain = 1..Len(chain) /\ (chain = << >> <=> Len(chain) = 0)
  BY <1>1
<1> HIDE DEF initial, chain
<1>3. RunsTo(chain, Len(chain), it, ip, initial, out)
  BY DEF chain, initial
<1>4. ChainOutputs(route, it, ip) =
         IF chain = << >> THEN {initial}
         ELSE {steps[Len(chain)] : steps \in {st \in [DOMAIN chain -> Output] :
                                                IsChainRun(st, chain, it, ip, initial)}}
  BY DEF ChainOutputs, chain, initial
<1>5. PICK steps \in [1..Len(chain) -> Output] :
         /\ \A i \in 1..Len(chain) :
               LET before == IF i = 1 THEN initial ELSE steps[i - 1]
               IN  /\ Survives(chain[i], it, ip, before)
                   /\ steps[i] = Transformed(chain[i], it, ip, before)
         /\ out = IF Len(chain) = 0 THEN initial ELSE steps[Len(chain)]
  BY <1>3 DEF RunsTo
<1>6. IsChainRun(steps, chain, it, ip, initial)
  BY <1>2, <1>5 DEF IsChainRun
<1> QED BY <1>2, <1>4, <1>5, <1>6

-----------------------------------------------------------------------------
(* Nothing has been carried yet.                                           *)
LEMMA ContentInit ==
    ASSUME Init
    PROVE  ContentInv
  BY DEF Init, ContentInv, Items, Leaving

(* While nothing moves, every item keeps its content.                      *)
LEMMA ContentKept ==
    ASSUME ContentInv, UNCHANGED <<queues, threads, arrived, published>>
    PROVE  ContentInv'
  BY DEF ContentInv, queues, threads, Leaving, IsAsArrived, IsThrough, IsMade,
         IsChainOutput

(* Every step of a thread and every arrival keeps the contents as they     *)
(* should be.                                                              *)
LEMMA ContentStep ==
    ASSUME TypeOK, ContentInv, [Next]_vars
    PROVE  ContentInv'
<1>1. ASSUME UNCHANGED <<queues, threads, arrived, published>>
      PROVE  ContentInv'
  BY <1>1, ContentKept
<1>2. ASSUME UNCHANGED arrived
      PROVE  /\ \A m : IsAsArrived(m)' <=> IsAsArrived(m)
             /\ \A x, n : IsThrough(x, n)' <=> IsThrough(x, n)
             /\ \A x : IsMade(x)' <=> IsMade(x)
  BY <1>2 DEF IsAsArrived, IsThrough, IsMade, IsChainOutput
<1>3. CASE \E t \in Topic, p \in Payload : MessageArrived(t, p)
  <2>1. PICK t \in Topic, p \in Payload : MessageArrived(t, p)
    BY <1>3
  <2> DEFINE a == [topic |-> t, payload |-> p]
  <2>0. PICK m : m = [origin |-> Len(arrived) + 1, topic |-> t, payload |-> p]
    OBVIOUS
  <2>2. /\ arrived \in Seq([topic: Topic, payload: Payload])
        /\ a \in [topic: Topic, payload: Payload]
        /\ incomingQueue \in Seq(IncomingItem) /\ m \in IncomingItem
    BY <2>0 DEF TypeOK, IncomingItem
  <2>3. arrived' = Append(arrived, a) /\ incomingQueue' = Append(incomingQueue, m)
    BY <2>0, <2>1 DEF MessageArrived
  <2>4. UNCHANGED <<transformQueue, outgoingQueue, threads, published>>
    BY <2>1 DEF MessageArrived
  <2>5. m.origin = Len(arrived) + 1 /\ m.topic = a.topic /\ m.payload = a.payload
    BY <2>0
  <2> HIDE DEF a
  <2>6. IsAsArrived(m)'
    <3>1. Len(arrived) + 1 \in DOMAIN arrived' /\ arrived'[Len(arrived) + 1] = a
      BY <2>2, <2>3
    <3> QED BY <2>5, <3>1 DEF IsAsArrived
  <2>7. Items(incomingQueue') = Items(incomingQueue) \cup {m}
    BY <2>2, <2>3, ItemsOfPush
  <2>8. Leaving' = Leaving
    BY <2>4 DEF Leaving, threads
  <2>9. /\ \A x : IsAsArrived(x) => IsAsArrived(x)'
        /\ \A x, n : IsThrough(x, n) => IsThrough(x, n)'
        /\ \A x : IsMade(x) => IsMade(x)'
    BY <2>2, <2>3, StillArrived
  <2> QED BY <2>4, <2>6, <2>7, <2>8, <2>9 DEF ContentInv, threads
<1>4. CASE IngestPop
  <2>1. incomingQueue \in Seq(IncomingItem) /\ incomingQueue # << >>
    BY <1>4 DEF TypeOK, IngestPop
  <2>2. /\ Head(incomingQueue) \in Items(incomingQueue)
        /\ Items(incomingQueue') \subseteq Items(incomingQueue)
    BY <1>4, <2>1, ItemsOfPop DEF IngestPop
  <2>3. \A s \in Items(ingesting') : s.message = Head(incomingQueue)
    <3> DEFINE s == [message |-> Head(incomingQueue), next |-> 1]
    <3>1. ingesting' = << >> \/ ingesting' = <<s>>
      BY <1>4 DEF IngestPop
    <3>2. s.message = Head(incomingQueue)
      OBVIOUS
    <3> HIDE DEF s
    <3> QED BY <3>1, <3>2, ItemsInHand
  <2>4. UNCHANGED <<transformQueue, outgoingQueue, transforming, publishing, arrived,
                    published>>
    BY <1>4 DEF IngestPop
  <2> QED BY <1>2, <2>2, <2>3, <2>4 DEF ContentInv, Leaving
<1>5. CASE IngestRoute
  <2> DEFINE message == ingesting[1].message
             next == ingesting[1].next
             route == RoutesOf(message.topic)[next]
             p == [origin |-> message.origin, from |-> message.topic, route |-> next,
                   topic |-> route.outputTopic, payload |-> message.payload]
             q == [origin |-> message.origin, from |-> message.topic, route |-> next,
                   streamTransformers |-> route.streamTransformers,
                   inputPayload |-> message.payload,
                   topic |-> route.outputTopic, payload |-> message.payload]
  <2>1. ingesting \in Seq(IngestState) /\ ingesting # << >>
    BY <1>5 DEF TypeOK, IngestRoute
  <2>2. 1 \in DOMAIN ingesting /\ ingesting[1] \in IngestState /\ ingesting[1] \in Items(ingesting)
    BY <2>1, InHand, ItemInHand
  <2>3. /\ message \in IncomingItem /\ next \in Nat
        /\ next \in DOMAIN RoutesOf(message.topic)
        /\ IsAsArrived(message)
    BY <2>2 DEF TypeOK, IngestState, ContentInv
  <2>4. route \in RouteProperties
    <3>1. RoutesOf(message.topic) \in Seq(RouteProperties)
      BY <2>3, RoutesOfType DEF IncomingItem
    <3> QED BY <2>3, <3>1
  <2>5. p \in OutgoingItem /\ q \in TransformItem
    <3> HIDE DEF route
    <3> QED BY <2>3, <2>4 DEF OutgoingItem, TransformItem, IncomingItem, RouteProperties
  <2>6. /\ transformQueue \in Seq(TransformItem)
        /\ outgoingQueue \in Seq(OutgoingItem)
    BY DEF TypeOK
  <2>7. \/ transformQueue' = Append(transformQueue, q) /\ outgoingQueue' = outgoingQueue
        \/ /\ transformQueue' = transformQueue
           /\ outgoingQueue' = Append(outgoingQueue, p)
           /\ route.streamTransformers = << >>
    BY <1>5 DEF IngestRoute, NeedsTransform
  <2>8. \A s \in Items(ingesting') : s.message = message
    <3> DEFINE s == [message |-> message, next |-> next + 1]
    <3>1. ingesting' = << >> \/ ingesting' = <<s>>
      BY <1>5 DEF IngestRoute, RestOfRoutes
    <3>2. s.message = message
      OBVIOUS
    <3> HIDE DEF message, next, s
    <3> QED BY <3>1, <3>2, ItemsInHand
  <2>9. UNCHANGED <<incomingQueue, transforming, publishing, arrived, published>>
    BY <1>5 DEF IngestRoute
  <2>10. IsThrough(q, 0)
    <3>1. /\ q.origin = message.origin /\ q.from = message.topic /\ q.route = next
          /\ q.streamTransformers = route.streamTransformers
          /\ q.inputPayload = message.payload
          /\ OutputOf(q) = [topic |-> route.outputTopic, payload |-> message.payload]
      BY DEF OutputOf
    <3>2. Len(route.streamTransformers) \in Nat
      BY <2>4 DEF RouteProperties
    <3>3. RunsTo(q.streamTransformers, 0, q.from, q.inputPayload, OutputOf(q), OutputOf(q))
      <4>1. 1..0 = {} /\ << >> \in [1..0 -> Output]
        OBVIOUS
      <4> HIDE DEF q
      <4> QED BY <4>1 DEF RunsTo
    <3>4. route = RoutesOf(message.topic)[next]
      OBVIOUS
    <3> HIDE DEF message, next, route, q
    <3> QED BY <2>3, <3>1, <3>2, <3>3, <3>4 DEF IsThrough, IsAsArrived
  <2>11. ASSUME route.streamTransformers = << >>
         PROVE  IsMade(p)
    <3>1. /\ p.origin = message.origin /\ p.from = message.topic /\ p.route = next
          /\ p.topic = route.outputTopic /\ p.payload = message.payload
      OBVIOUS
    <3>2. route = RoutesOf(message.topic)[next]
      OBVIOUS
    <3> HIDE DEF message, next, route, p
    <3>3. ChainOutputs(route, message.topic, message.payload)
             = {[topic |-> p.topic, payload |-> p.payload]}
      BY <2>11, <3>1 DEF ChainOutputs
    <3> QED BY <2>3, <3>1, <3>2, <3>3 DEF IsMade, IsChainOutput, IsAsArrived
  <2> HIDE DEF message, next, route, p, q
  <2>12. CASE transformQueue' = Append(transformQueue, q) /\ outgoingQueue' = outgoingQueue
    <3>1. Items(transformQueue') = Items(transformQueue) \cup {q}
      BY <2>5, <2>6, <2>12, ItemsOfPush
    <3>2. Leaving' = Leaving
      BY <2>9, <2>12 DEF Leaving
    <3> QED BY <1>2, <2>3, <2>8, <2>9, <2>10, <3>1, <3>2 DEF ContentInv
  <2>13. CASE /\ transformQueue' = transformQueue
              /\ outgoingQueue' = Append(outgoingQueue, p)
              /\ route.streamTransformers = << >>
    <3>1. Items(outgoingQueue') = Items(outgoingQueue) \cup {p}
      BY <2>5, <2>6, <2>13, ItemsOfPush
    <3>2. Leaving' = Leaving \cup {p}
      BY <2>9, <3>1 DEF Leaving
    <3> QED BY <1>2, <2>3, <2>8, <2>9, <2>11, <2>13, <3>2 DEF ContentInv
  <2> QED BY <2>7, <2>12, <2>13
<1>6. CASE TransformPop
  <2>1. transformQueue \in Seq(TransformItem) /\ transformQueue # << >>
    BY <1>6 DEF TypeOK, TransformPop
  <2>2. /\ Head(transformQueue) \in Items(transformQueue)
        /\ Items(transformQueue') \subseteq Items(transformQueue)
    BY <1>6, <2>1, ItemsOfPop DEF TransformPop
  <2>3. \A s \in Items(transforming') : s.item = Head(transformQueue) /\ s.next - 1 = 0
    <3> DEFINE s == [item |-> Head(transformQueue), next |-> 1]
    <3>1. transforming' = << >> \/ transforming' = <<s>>
      BY <1>6 DEF TransformPop
    <3>2. s.item = Head(transformQueue) /\ s.next - 1 = 0
      OBVIOUS
    <3> HIDE DEF s
    <3> QED BY <3>1, <3>2, ItemsInHand
  <2>4. UNCHANGED <<incomingQueue, outgoingQueue, ingesting, publishing, arrived, published>>
    BY <1>6 DEF TransformPop
  <2>5. Leaving' = Leaving
    BY <2>4 DEF Leaving
  <2>6. \A s \in Items(transforming') : IsThrough(s.item, s.next - 1)
    BY <2>2, <2>3 DEF ContentInv
  <2> QED BY <1>2, <2>2, <2>4, <2>5, <2>6 DEF ContentInv
<1>7. CASE TransformExecute
  <2> DEFINE item == transforming[1].item
             next == transforming[1].next
             s == item.streamTransformers[next]
             out == [topic |-> item.topic, payload |-> item.payload]
             after == Transformed(s, item.from, item.inputPayload, out)
             new == [item EXCEPT !.topic = after.topic, !.payload = after.payload]
  <2>1. transforming \in Seq(TransformState) /\ transforming # << >>
    BY <1>7 DEF TypeOK, TransformExecute
  <2>2. transforming[1] \in TransformState /\ transforming[1] \in Items(transforming)
    BY <2>1, InHand, ItemInHand
  <2>3. /\ item \in TransformItem /\ next \in Nat \ {0}
        /\ next <= Len(item.streamTransformers)
        /\ IsThrough(item, next - 1)
    BY <1>7, <2>2 DEF TransformState, TransformExecute, ChainIsThrough, ContentInv
  <2>4. /\ item.streamTransformers \in Seq(Transformer) /\ s \in Transformer
        /\ out \in Output /\ item.from \in Topic /\ item.inputPayload \in Payload
    BY <2>3 DEF TransformItem, Output
  <2>5. after \in Output
    BY <2>4, TransformedType
  <2>6. CASE Survives(s, item.from, item.inputPayload, out)
    <3>1. transforming' = <<[item |-> new, next |-> next + 1]>>
      BY <1>7, <2>6 DEF TransformExecute
    <3>2. UNCHANGED <<queues, ingesting, publishing, arrived, published>>
      BY <1>7, <2>6 DEF TransformExecute
    <3>3. /\ new.origin = item.origin /\ new.from = item.from /\ new.route = item.route
          /\ new.streamTransformers = item.streamTransformers
          /\ new.inputPayload = item.inputPayload
          /\ new.topic = after.topic /\ new.payload = after.payload
      BY <2>3 DEF TransformItem
    <3>4. OutputOf(new) = after
      BY <2>5, <3>3 DEF OutputOf, Output
    <3>5. OutputOf(item) = out
      BY DEF OutputOf
    <3> DEFINE initial == [topic |-> RoutesOf(item.from)[item.route].outputTopic,
                           payload |-> item.inputPayload]
    <3>6. RunsTo(item.streamTransformers, next, item.from, item.inputPayload, initial, after)
      <4>1. RunsTo(item.streamTransformers, next - 1, item.from, item.inputPayload,
                   initial, out)
        BY <2>3, <3>5 DEF IsThrough
      <4>2. (next - 1) + 1 = next /\ next - 1 \in 0..(Len(item.streamTransformers) - 1)
        BY <2>3, <2>4
      <4>3. s = item.streamTransformers[(next - 1) + 1]
        BY <4>2
      <4> HIDE DEF item, next, s, out, initial
      <4> QED BY <2>4, <2>6, <4>1, <4>2, <4>3, RunGrows DEF after
    <3>7. IsThrough(new, next)
      <4>1. next \in 0..Len(item.streamTransformers)
        BY <2>3, <2>4
      <4> HIDE DEF item, next, s, out, after, new
      <4> QED BY <2>3, <3>3, <3>4, <3>6, <4>1 DEF IsThrough
    <3> HIDE DEF item, next, new
    <3>8. \A x \in Items(transforming') : x.item = new /\ x.next - 1 = next
      BY <2>3, <3>1, ItemsInHand
    <3>9. Leaving' = Leaving
      BY <3>2 DEF Leaving, queues
    <3> QED BY <1>2, <3>2, <3>7, <3>8, <3>9 DEF ContentInv, queues
  <2>7. CASE ~Survives(s, item.from, item.inputPayload, out)
    BY <1>1, <1>7, <2>7 DEF TransformExecute, Terminate
  <2> QED BY <2>6, <2>7
<1>8. CASE TransformPush
  <2> DEFINE item == transforming[1].item
             x == [origin |-> item.origin, from |-> item.from, route |-> item.route,
                   topic |-> item.topic, payload |-> item.payload]
  <2>1. transforming \in Seq(TransformState) /\ transforming # << >>
    BY <1>8 DEF TypeOK, TransformPush
  <2>2. transforming[1] \in TransformState /\ transforming[1] \in Items(transforming)
    BY <2>1, InHand, ItemInHand
  <2>3. item \in TransformItem /\ IsThrough(item, Len(item.streamTransformers))
    <3>1. /\ item \in TransformItem /\ transforming[1].next \in Nat
          /\ IsThrough(item, transforming[1].next - 1)
          /\ transforming[1].next > Len(item.streamTransformers)
      BY <1>8, <2>2 DEF TransformState, TransformPush, ChainIsThrough, ContentInv
    <3>2. Len(item.streamTransformers) \in Nat
      BY <3>1 DEF TransformItem
    <3>3. transforming[1].next - 1 \in 0..Len(item.streamTransformers)
      <4> HIDE DEF item
      <4> QED BY <3>1 DEF IsThrough
    <3>4. transforming[1].next - 1 = Len(item.streamTransformers)
      BY <3>1, <3>2, <3>3
    <3> QED BY <3>1, <3>4
  <2>4. x \in OutgoingItem
    BY <2>3 DEF TransformItem, OutgoingItem
  <2>5. /\ x.origin = item.origin /\ x.from = item.from /\ x.route = item.route
        /\ [topic |-> x.topic, payload |-> x.payload] = OutputOf(item)
    BY DEF OutputOf
  <2>6. outgoingQueue' = Append(outgoingQueue, x) /\ transforming' = << >>
    BY <1>8 DEF TransformPush
  <2>7. UNCHANGED <<incomingQueue, transformQueue, ingesting, publishing, arrived, published>>
    BY <1>8 DEF TransformPush
  <2> HIDE DEF x, item
  <2>8. IsMade(x)
    <3> DEFINE route == RoutesOf(item.from)[item.route]
    <3>1. route \in RouteProperties
      <4>1. RoutesOf(item.from) \in Seq(RouteProperties)
        BY <2>3, RoutesOfType DEF TransformItem
      <4> QED BY <2>3, <4>1 DEF IsThrough
    <3>2. RunsTo(route.streamTransformers, Len(route.streamTransformers), item.from,
                 item.inputPayload,
                 [topic |-> route.outputTopic, payload |-> item.inputPayload],
                 OutputOf(item))
      BY <2>3 DEF IsThrough
    <3>3. route = RoutesOf(x.from)[x.route]
      BY <2>5
    <3> HIDE DEF route
    <3>4. OutputOf(item) \in ChainOutputs(route, item.from, item.inputPayload)
      BY <3>1, <3>2, RunEnds
    <3> QED BY <2>3, <2>5, <3>3, <3>4 DEF IsMade, IsChainOutput, IsThrough
  <2>9. Leaving' = Leaving \cup {x}
    <3>1. Items(outgoingQueue') = Items(outgoingQueue) \cup {x}
      BY <2>4, <2>6, ItemsOfPush DEF TypeOK
    <3> QED BY <2>7, <3>1 DEF Leaving
  <2>10. Items(transforming') = {}
    BY <2>6, ItemsInHand
  <2> QED BY <1>2, <2>7, <2>8, <2>9, <2>10 DEF ContentInv
<1>9. CASE PublishPop
  <2>1. outgoingQueue \in Seq(OutgoingItem) /\ outgoingQueue # << >>
    BY <1>9 DEF TypeOK, PublishPop
  <2>2. /\ Head(outgoingQueue) \in Items(outgoingQueue)
        /\ Items(outgoingQueue') \subseteq Items(outgoingQueue)
    BY <1>9, <2>1, ItemsOfPop DEF PublishPop
  <2>3. Items(publishing') = {Head(outgoingQueue)}
    BY <1>9, ItemsInHand DEF PublishPop
  <2>4. UNCHANGED <<incomingQueue, transformQueue, ingesting, transforming, arrived, published>>
    BY <1>9 DEF PublishPop
  <2>5. Leaving' \subseteq Leaving
    BY <2>2, <2>3, <2>4 DEF Leaving
  <2> QED BY <1>2, <2>4, <2>5 DEF ContentInv
<1>10. CASE PublishAccepted
  <2>1. publishing \in Seq(OutgoingItem) /\ publishing # << >> /\ published \in Seq(OutgoingItem)
    BY <1>10 DEF TypeOK, PublishAccepted
  <2>2. publishing[1] \in OutgoingItem /\ publishing[1] \in Items(publishing)
    BY <2>1, InHand, ItemInHand
  <2>3. Items(published') = Items(published) \cup {publishing[1]} /\ Items(publishing') = {}
    <3>1. published' = Append(published, publishing[1]) /\ publishing' = << >>
      BY <1>10 DEF PublishAccepted
    <3>2. Items(Append(published, publishing[1])) = Items(published) \cup {publishing[1]}
      BY <2>1, <2>2, ItemsOfPush
    <3> QED BY <3>1, <3>2, ItemsInHand
  <2>4. UNCHANGED <<incomingQueue, transformQueue, outgoingQueue, ingesting, transforming,
                    arrived>>
    BY <1>10 DEF PublishAccepted, queues
  <2>5. Leaving' \subseteq Leaving
    BY <2>2, <2>3, <2>4 DEF Leaving
  <2> QED BY <1>2, <2>4, <2>5 DEF ContentInv
<1>11. CASE PublishThrows \/ MalformedMessageArrived
  BY <1>1, <1>11 DEF PublishThrows, MalformedMessageArrived, Terminate
<1>12. CASE UNCHANGED vars
  BY <1>1, <1>12 DEF vars
<1> QED
  BY <1>3, <1>4, <1>5, <1>6, <1>7, <1>8, <1>9, <1>10, <1>11, <1>12
  DEF Next, Ingest, Transform, Publish, Callback

(* In every reachable state every item carries what it should: its message *)
(* as it arrived, a run of a prefix of its chain, or an output of it.      *)
THEOREM ContentInvariant == Safety => []ContentInv
<1>1. Init => ContentInv
  BY ContentInit
<1>2. TypeOK /\ ContentInv /\ [Next]_vars => ContentInv'
  BY ContentStep
<1> QED BY <1>1, <1>2, TypeCorrect, PTL DEF Safety

(* Whatever the interleaving of the threads, what is published is what the *)
(* whole chain of its route makes of the message as it arrived.            *)
THEOREM ChainOutputOnly == Safety => []PublishedIsChainOutput
<1>1. ContentInv => PublishedIsChainOutput
  BY DEF ContentInv, PublishedIsChainOutput, Leaving, Items, IsMade
<1> QED BY <1>1, ContentInvariant, PTL

-----------------------------------------------------------------------------
(* The module Relay speaks of the same routes, order and chains.           *)
LEMMA SameRouting ==
    /\ \A t : Promised!RoutesOf(t) = RoutesOf(t)
    /\ \A a, b : Promised!SameLane(a, b) <=> SameLane(a, b)
    /\ \A a, b : Promised!Precedes(a, b) <=> Precedes(a, b)
    /\ \A r, it, ip : Promised!ChainOutputs(r, it, ip) = ChainOutputs(r, it, ip)
    /\ \A n, k : Promised!Token(n, k) = Delivery(n, k)
<1>1. \A t : Promised!RoutesOf(t) = RoutesOf(t)
  BY DEF Promised!RoutesOf, RoutesOf
<1>2. \A a, b : Promised!SameLane(a, b) <=> SameLane(a, b)
  BY <1>1 DEF Promised!SameLane, SameLane, Promised!Direct, Direct,
              Promised!StreamTransformersOf, StreamTransformersOf
<1>3. \A a, b : Promised!Precedes(a, b) <=> Precedes(a, b)
  BY DEF Promised!Precedes, Precedes
<1>4. \A r, it, ip : Promised!ChainOutputs(r, it, ip) = ChainOutputs(r, it, ip)
  BY DEF Promised!ChainOutputs, ChainOutputs, Promised!IsChainRun, IsChainRun,
         Promised!Survives, Survives, Promised!Transformed, Transformed,
         Promised!Output, Output
<1>5. \A n, k : Promised!Token(n, k) = Delivery(n, k)
  BY DEF Promised!Token, Delivery
<1> QED BY <1>1, <1>2, <1>3, <1>4, <1>5

(* A message that has arrived has a list of routes.                        *)
LEMMA ArrivedRoutes ==
    ASSUME TypeOK, NEW n \in DOMAIN arrived
    PROVE  RoutesOf(arrived[n].topic) \in Seq(RouteProperties)
<1>1. arrived \in Seq([topic: Topic, payload: Payload])
  BY DEF TypeOK
<1>2. arrived[n] \in [topic: Topic, payload: Payload]
  BY <1>1, ItemOf
<1>3. arrived[n].topic \in Topic
  BY <1>2
<1> QED BY <1>3, RoutesOfType

(* What ingest() has handed over is handed over in order: with a delivery, *)
(* all that precede it.                                                    *)
LEMMA HandedOverInOrder ==
    ASSUME TypeOK, IntakeInv,
           NEW n \in 1..Taken, NEW k \in DOMAIN RoutesOf(arrived[n].topic),
           NEW m \in 1..n, NEW j \in DOMAIN RoutesOf(arrived[m].topic),
           IsHandedOver(Delivery(n, k)), Precedes(Delivery(m, j), Delivery(n, k))
    PROVE  m \in 1..Taken /\ IsHandedOver(Delivery(m, j))
<1>1. /\ arrived \in Seq([topic: Topic, payload: Payload])
      /\ Len(arrived) \in Nat /\ Len(incomingQueue) \in Nat /\ Len(incomingQueue) <= Len(arrived)
  BY DEF TypeOK, IntakeInv
<1>2. Taken \in Nat /\ Taken <= Len(arrived)
  BY <1>1 DEF Taken
<1>3. m \in 1..Taken /\ m \in DOMAIN arrived /\ n \in DOMAIN arrived
  BY <1>1, <1>2
<1>4. j \in Nat /\ k \in Nat
  <2>1. /\ RoutesOf(arrived[m].topic) \in Seq(RouteProperties)
        /\ RoutesOf(arrived[n].topic) \in Seq(RouteProperties)
    BY <1>3, ArrivedRoutes
  <2> QED BY <2>1
<1>5. \A i \in DOMAIN ingesting : ingesting[i].next \in Nat
  <2>1. ingesting \in Seq(IngestState)
    BY DEF TypeOK
  <2>2. \A i \in DOMAIN ingesting : ingesting[i] \in IngestState
    BY <2>1, ItemOf
  <2> QED BY <2>2 DEF IngestState
<1>6. m < n \/ (m = n /\ j < k)
  BY DEF Precedes, Delivery
<1>7. \A i \in DOMAIN ingesting : n < Taken \/ k < ingesting[i].next
  BY DEF IsHandedOver, Delivery
<1>8. \A i \in DOMAIN ingesting : m < Taken \/ j < ingesting[i].next
  BY <1>2, <1>3, <1>4, <1>5, <1>6, <1>7
<1> QED BY <1>3, <1>8 DEF IsHandedOver, Delivery

(* What the publisher thread carries is next in its lane: every delivery   *)
(* that precedes it there has been published, and it has not.              *)
LEMMA CarriedIsNext ==
    ASSUME IInv, publishing # << >>
    PROVE  /\ publishing[1].origin \in DOMAIN arrived
           /\ publishing[1].from = arrived[publishing[1].origin].topic
           /\ publishing[1].route \in DOMAIN RoutesOf(arrived[publishing[1].origin].topic)
           /\ Promised!IsNext(publishing[1].origin, publishing[1].route)
<1> USE DEF IInv
<1> DEFINE x == publishing[1]
           n == x.origin
           k == x.route
<1>1. publishing \in Seq(OutgoingItem) /\ Len(publishing) <= 1
  BY DEF TypeOK
<1>2. DOMAIN publishing = {1} /\ x \in OutgoingItem
  BY <1>1, OnlyOne
<1>3. Tokens(publishing) = {TokenOf(x)}
  BY <1>2 DEF Tokens
<1>4. IsHandedOver(TokenOf(x))
  BY <1>3 DEF Conserved, Stages
<1>5. /\ n \in 1..Taken /\ x.from = arrived[n].topic
      /\ k \in DOMAIN RoutesOf(arrived[n].topic)
  BY <1>4 DEF IsHandedOver, TokenOf
<1>6. /\ arrived \in Seq([topic: Topic, payload: Payload])
      /\ Len(arrived) \in Nat /\ Len(incomingQueue) \in Nat /\ Len(incomingQueue) <= Len(arrived)
  BY DEF TypeOK, IntakeInv
<1>7. n \in DOMAIN arrived
  BY <1>5, <1>6 DEF Taken
<1>8. n \in Nat /\ k \in Nat
  BY <1>2 DEF OutgoingItem
<1>9. TokenOf(x) = Delivery(n, k)
  BY <1>5 DEF TokenOf, Delivery
<1> HIDE DEF x, n, k
<1>10. ~Precedes(Delivery(n, k), Delivery(n, k))
  BY <1>8 DEF Precedes, Delivery
<1>11. ~Promised!IsPublished(n, k)
  <2> SUFFICES ASSUME NEW i \in DOMAIN published, published[i].origin = n,
                      published[i].route = k
               PROVE  FALSE
    BY DEF Promised!IsPublished
  <2>1. TokenOf(published[i]) \in Tokens(published)
    BY DEF Tokens
  <2>2. IsHandedOver(TokenOf(published[i]))
    BY <2>1 DEF Conserved, Stages
  <2>3. TokenOf(published[i]) = Delivery(n, k)
    BY <2>2 DEF IsHandedOver, TokenOf, Delivery
  <2>4. SameLane(Delivery(n, k), Delivery(n, k))
    BY DEF SameLane
  <2> QED BY <1>3, <1>9, <1>10, <2>1, <2>3, <2>4 DEF OrderInv, Before
<1>12. ASSUME NEW m \in 1..n, NEW j \in DOMAIN RoutesOf(arrived[m].topic),
              Precedes(Delivery(m, j), Delivery(n, k)),
              SameLane(Delivery(m, j), Delivery(n, k))
       PROVE  Promised!IsPublished(m, j)
  <2> DEFINE d == Delivery(m, j)
             e == Delivery(n, k)
  <2>1. m \in 1..Taken /\ IsHandedOver(d)
    BY <1>4, <1>5, <1>9, <1>12, HandedOverInOrder
  <2>2. d \in Stages
    BY <2>1 DEF Conserved
  <2>3. d.origin = m /\ d.route = j
    BY DEF Delivery
  <2>4. ~Precedes(e, d)
    <3>1. RoutesOf(arrived[m].topic) \in Seq(RouteProperties)
      <4>1. m \in DOMAIN arrived
        BY <1>6, <1>7, <1>8
      <4> QED BY <4>1, ArrivedRoutes
    <3>2. j \in Nat /\ m \in Nat
      BY <1>8, <3>1
    <3> QED BY <1>8, <1>12, <3>2 DEF Precedes, Delivery
  <2>5. SameLane(e, d) /\ d # e
    BY <1>10, <1>12 DEF SameLane
  <2> HIDE DEF d, e
  <2>6. d \notin Tokens(publishing)
    BY <1>3, <1>9, <2>5 DEF e
  <2>7. d \notin Tokens(outgoingQueue) \cup Transformable
    BY <1>3, <1>9, <2>4, <2>5 DEF OrderInv, Before, e
  <2>8. d \in Tokens(published)
    BY <2>2, <2>6, <2>7 DEF Stages
  <2>9. PICK i \in DOMAIN published : d = TokenOf(published[i])
    BY <2>8 DEF Tokens
  <2>10. published[i].origin = m /\ published[i].route = j
    BY <2>3, <2>9 DEF TokenOf
  <2> QED BY <2>10 DEF Promised!IsPublished
<1>13. Promised!IsNext(n, k)
  BY <1>11, <1>12, SameRouting DEF Promised!IsNext
<1> QED BY <1>5, <1>7, <1>13 DEF x, n, k

(* Whatever is due earlier in the lane of a delivery that has been         *)
(* published has been published before it.                                 *)
LEMMA PublishedInTurn ==
    ASSUME IInv, NEW i \in DOMAIN published,
           NEW m \in DOMAIN arrived, NEW j \in DOMAIN RoutesOf(arrived[m].topic),
           Precedes(Delivery(m, j), published[i]), SameLane(Delivery(m, j), published[i])
    PROVE  \E h \in DOMAIN published : h < i /\ TokenOf(published[h]) = Delivery(m, j)
<1> USE DEF IInv
<1> DEFINE x == published[i]
           n == x.origin
           k == x.route
           d == Delivery(m, j)
<1>1. published \in Seq(OutgoingItem) /\ x \in OutgoingItem
  BY ItemOf DEF TypeOK
<1>2. TokenOf(x) \in Tokens(published)
  BY DEF Tokens
<1>3. IsHandedOver(TokenOf(x))
  BY <1>2 DEF Conserved, Stages
<1>4. n \in 1..Taken /\ x.from = arrived[n].topic /\ k \in DOMAIN RoutesOf(arrived[n].topic)
  BY <1>3 DEF IsHandedOver, TokenOf
<1>5. TokenOf(x) = Delivery(n, k)
  BY <1>4 DEF TokenOf, Delivery
<1>6. /\ Precedes(d, Delivery(n, k)) /\ SameLane(d, Delivery(n, k))
      /\ d.origin = m /\ d.route = j
  BY <1>4 DEF Precedes, SameLane, Direct, StreamTransformersOf, Delivery
<1>7. n \in Nat /\ k \in Nat /\ m \in Nat /\ m >= 1 /\ j \in Nat
  <2>1. arrived \in Seq([topic: Topic, payload: Payload])
    BY DEF TypeOK
  <2>2. RoutesOf(arrived[m].topic) \in Seq(RouteProperties)
    BY ArrivedRoutes
  <2>3. m \in Nat /\ m >= 1
    BY <2>1
  <2>4. j \in Nat
    BY <2>2
  <2> QED BY <1>1, <2>3, <2>4 DEF OutgoingItem
<1> HIDE DEF x, n, k
<1>8. m \in 1..n
  BY <1>6, <1>7 DEF Precedes, Delivery
<1>9. d \in Stages
  BY <1>3, <1>4, <1>5, <1>6, <1>8, HandedOverInOrder DEF Conserved
<1>10. SameLane(Delivery(n, k), d) /\ ~Precedes(Delivery(n, k), d) /\ ~Precedes(d, d)
  BY <1>6, <1>7 DEF SameLane, Precedes, Delivery
<1> HIDE DEF d
<1>11. d \in Tokens(published)
  BY <1>2, <1>5, <1>9, <1>10 DEF Stages, OrderInv, Before
<1>12. PICK h \in DOMAIN published : d = TokenOf(published[h])
  BY <1>11 DEF Tokens
<1>13. h # i
  <2> SUFFICES ASSUME h = i PROVE FALSE
    OBVIOUS
  <2> QED BY <1>5, <1>6, <1>10, <1>12 DEF x
<1>14. ~(i < h)
  <2> SUFFICES ASSUME i < h PROVE FALSE
    OBVIOUS
  <2>1. SameLane(published[i], published[h]) => Precedes(published[i], published[h])
    BY DEF OrderInv, Ordered
  <2>2. SameLane(TokenOf(x), d) => Precedes(TokenOf(x), d)
    BY <1>12, <2>1, TokenDecides DEF x
  <2> QED BY <1>5, <1>10, <2>2
<1>15. h < i
  <2>1. h \in Nat /\ i \in Nat
    BY <1>1
  <2> QED BY <1>13, <1>14, <2>1
<1> QED BY <1>12, <1>15 DEF d

(* The threads implement the service of module Relay, in which there are   *)
(* no queues: every step of a thread or of the client's callback thread is *)
(* a step of the service or changes nothing of it.  A delivery is made     *)
(* once, in its turn and with the output of its chain.                     *)
THEOREM ThreadsImplementRelay == Safety => Promised!Safety
<1>1. Init => Promised!Init
  BY DEF Init, Promised!Init
<1>2. TypeOK /\ IInv /\ ContentInv /\ [Next]_vars => [Promised!Next]_(Promised!vars)
  <2> SUFFICES ASSUME TypeOK, IInv, ContentInv, [Next]_vars
               PROVE  [Promised!Next]_(Promised!vars)
    OBVIOUS
  <2>1. CASE PublishAccepted
    <3> DEFINE x == publishing[1]
    <3>1. publishing \in Seq(OutgoingItem) /\ publishing # << >>
      BY <2>1 DEF TypeOK, PublishAccepted
    <3>2. x \in OutgoingItem /\ x \in Items(publishing)
      BY <3>1, InHand, ItemInHand
    <3>3. /\ x.origin \in DOMAIN arrived /\ x.from = arrived[x.origin].topic
          /\ x.route \in DOMAIN RoutesOf(arrived[x.origin].topic)
          /\ Promised!IsNext(x.origin, x.route)
      BY <3>1, CarriedIsNext
    <3>4. IsMade(x)
      BY <3>2 DEF ContentInv, Leaving
    <3> DEFINE out == [topic |-> x.topic, payload |-> x.payload]
    <3>5. out \in Promised!ChainOutputs(
                      Promised!RoutesOf(arrived[x.origin].topic)[x.route],
                      arrived[x.origin].topic, arrived[x.origin].payload)
      BY <3>3, <3>4, SameRouting DEF IsMade, IsChainOutput
    <3>6. x = [origin |-> x.origin, from |-> arrived[x.origin].topic, route |-> x.route,
               topic |-> out.topic, payload |-> out.payload]
      BY <3>2, <3>3 DEF OutgoingItem
    <3>7. /\ running /\ published' = Append(published, x)
          /\ UNCHANGED <<arrived, running>>
      BY <2>1 DEF PublishAccepted
    <3> HIDE DEF x, out
    <3>8. Promised!Deliver(x.origin, x.route)
      BY <3>3, <3>5, <3>6, <3>7 DEF Promised!Deliver
    <3>9. Promised!DeliverSome
      BY <3>3, <3>8, SameRouting DEF Promised!DeliverSome
    <3> QED BY <3>9 DEF Promised!Next
  <2>2. CASE \E t \in Topic, p \in Payload : MessageArrived(t, p)
    <3>1. Promised!Arrive
      BY <2>2 DEF MessageArrived, Promised!Arrive
    <3> QED BY <3>1 DEF Promised!Next
  <2>3. CASE \/ MalformedMessageArrived \/ PublishThrows
             \/ TransformExecute /\ Terminate
    <3>1. Promised!Fail
      BY <2>3 DEF MalformedMessageArrived, PublishThrows, TransformExecute, Terminate,
                  Promised!Fail
    <3> QED BY <3>1 DEF Promised!Next
  <2>4. CASE \/ UNCHANGED vars
             \/ IngestPop \/ IngestRoute
             \/ TransformPop \/ TransformPush \/ (TransformExecute /\ ~Terminate)
             \/ PublishPop
    <3>1. UNCHANGED <<arrived, published, running>>
      BY <2>4 DEF vars, IngestPop, IngestRoute, TransformPop, TransformPush,
                  TransformExecute, PublishPop
    <3> QED BY <3>1 DEF Promised!vars
  <2> QED
    BY <2>1, <2>2, <2>3, <2>4 DEF Next, Ingest, Transform, Publish, Callback
<1> QED BY <1>1, <1>2, TypeCorrect, PipelineInvariant, ContentInvariant, PTL
        DEF Safety, Promised!Safety
=============================================================================
