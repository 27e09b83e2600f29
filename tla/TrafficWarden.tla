--------------------------- MODULE TrafficWarden ---------------------------
(***************************************************************************)
(* The three threads of TrafficWarden (traffic_warden.cpp) and the three   *)
(* concurrent queues between them.                                         *)
(*                                                                         *)
(*   callback --incomingQueue--> ingest --transformQueue--> transform      *)
(*                                 |                            |          *)
(*                                 +------> outgoingQueue <-----+          *)
(*                                               |                         *)
(*                                            publish                      *)
(*                                                                         *)
(* Each queue has one consumer, so "not empty() and try_pop()" is one      *)
(* step.  The item a thread works on is a sequence of length at most one.  *)
(* The threads spin: they are always ready, and take a step whenever their *)
(* queue or their hands are not empty.                                     *)
(***************************************************************************)
EXTENDS Routing

CONSTANT MaxMessages    \* bound on the messages that arrive
ASSUME MaxMessagesAssumption == MaxMessages \in Nat

VARIABLES
    incomingQueue,   \* m_incomingQueue
    transformQueue,  \* m_transformQueue
    outgoingQueue,   \* m_outgoingQueue
    ingesting,       \* the message ingest() carries, with its next route
    transforming,    \* the item transform() carries, with its next transformer
    publishing,      \* the message publish() has popped
    running,         \* FALSE once an exception has terminated the process
    arrived,         \* history: every message pushed on incomingQueue
    published        \* history: every message the MQTT client accepted

queues == <<incomingQueue, transformQueue, outgoingQueue>>
threads == <<ingesting, transforming, publishing>>
vars == <<queues, threads, running, arrived, published>>

(* The tokens (origin, from, route) are history: they say which delivery   *)
(* an item is.  transform() and publish() read the other fields only.      *)
IncomingItem == [origin: Nat, topic: Topic, payload: Payload]
OutgoingItem == [origin: Nat, from: Topic, route: Nat,
                 topic: Topic, payload: Payload]
TransformItem == [origin: Nat, from: Topic, route: Nat,
                  streamTransformers: Seq(Transformer),
                  inputPayload: Payload, topic: Topic, payload: Payload]
IngestState == [message: IncomingItem, next: Nat]
TransformState == [item: TransformItem, next: Nat \ {0}]

Init ==
    /\ incomingQueue = << >> /\ transformQueue = << >> /\ outgoingQueue = << >>
    /\ ingesting = << >> /\ transforming = << >> /\ publishing = << >>
    /\ running = TRUE
    /\ arrived = << >>
    /\ published = << >>

(* std::terminate: an exception left a thread's function or a callback.    *)
Terminate ==
    /\ running' = FALSE
    /\ UNCHANGED <<queues, threads, arrived, published>>

-----------------------------------------------------------------------------
(* message_arrived of the connection callback, on the MQTT client's thread.*)
MessageArrived(t, p) ==
    /\ running
    /\ Len(arrived) < MaxMessages
    /\ arrived' = Append(arrived, [topic |-> t, payload |-> p])
    /\ incomingQueue' = Append(incomingQueue,
          [origin |-> Len(arrived) + 1, topic |-> t, payload |-> p])
    /\ UNCHANGED <<transformQueue, outgoingQueue, threads, running, published>>

(* json::parse of a payload that is not JSON throws out of the callback.   *)
MalformedMessageArrived ==
    /\ running
    /\ Len(arrived) < MaxMessages
    /\ Terminate

-----------------------------------------------------------------------------
(* ingest(): pop a message; without a route it is logged and dropped.      *)
IngestPop ==
    /\ running
    /\ ingesting = << >>
    /\ incomingQueue # << >>
    /\ incomingQueue' = Tail(incomingQueue)
    /\ LET message == Head(incomingQueue)
       IN  ingesting' = IF RoutesOf(message.topic) = << >>
                        THEN << >>
                        ELSE <<[message |-> message, next |-> 1]>>
    /\ UNCHANGED <<transformQueue, outgoingQueue, transforming, publishing,
                   running, arrived, published>>

(* ++it_routeProperty: the rest of the loop over the routes of the topic.  *)
(* (Here and below, a definition named X_Fault is X with a fault in it: it *)
(* is not used, and stands for the mistake a property of X must reveal.)   *)
RestOfRoutes_RunsPastTheEnd(message, next) ==
    IF next > Len(RoutesOf(message.topic))
    THEN << >>
    ELSE <<[message |-> message, next |-> next + 1]>>
RestOfRoutes_StopsBeforeLast(message, next) ==
    IF next + 1 >= Len(RoutesOf(message.topic))
    THEN << >>
    ELSE <<[message |-> message, next |-> next + 1]>>
RestOfRoutes(message, next) ==
    IF next = Len(RoutesOf(message.topic))
    THEN << >>
    ELSE <<[message |-> message, next |-> next + 1]>>

(* !l_streamTransformers.empty()                                           *)
NeedsTransform(route) == route.streamTransformers # << >>

(* One iteration of that loop: push the route's item on the queue of the   *)
(* thread that is next.                                                    *)
IngestRoute ==
    /\ running
    /\ ingesting # << >>
    /\ LET message == ingesting[1].message
           next == ingesting[1].next
           route == RoutesOf(message.topic)[next]
       IN  /\ IF NeedsTransform(route)
              THEN /\ transformQueue' = Append(transformQueue,
                         [origin |-> message.origin, from |-> message.topic,
                          route |-> next,
                          streamTransformers |-> route.streamTransformers,
                          inputPayload |-> message.payload,
                          topic |-> route.outputTopic,
                          payload |-> message.payload])
                   /\ UNCHANGED outgoingQueue
              ELSE /\ outgoingQueue' = Append(outgoingQueue,
                         [origin |-> message.origin, from |-> message.topic,
                          route |-> next,
                          topic |-> route.outputTopic,
                          payload |-> message.payload])
                   /\ UNCHANGED transformQueue
           /\ ingesting' = RestOfRoutes(message, next)
    /\ UNCHANGED <<incomingQueue, transforming, publishing,
                   running, arrived, published>>

-----------------------------------------------------------------------------
(* transform(): pop an item; one without transformers would be discarded.  *)
TransformPop ==
    /\ running
    /\ transforming = << >>
    /\ transformQueue # << >>
    /\ transformQueue' = Tail(transformQueue)
    /\ LET item == Head(transformQueue)
       IN  transforming' = IF item.streamTransformers = << >>
                           THEN << >>
                           ELSE <<[item |-> item, next |-> 1]>>
    /\ UNCHANGED <<incomingQueue, outgoingQueue, ingesting, publishing,
                   running, arrived, published>>

(* it_streamTransformer == l_streamTransformers.end()                      *)
ChainIsThrough_OneTooEarly(next, chain) == next >= Len(chain)
ChainIsThrough(next, chain) == next > Len(chain)

(* One iteration of the loop over the transformers.  An execution error is *)
(* logged and the loop goes on; any other exception terminates the process.*)
TransformExecute ==
    /\ running
    /\ transforming # << >>
    /\ LET item == transforming[1].item
           next == transforming[1].next
           s == item.streamTransformers[next]
           out == [topic |-> item.topic, payload |-> item.payload]
           after == Transformed(s, item.from, item.inputPayload, out)
       IN  /\ ~ChainIsThrough(next, item.streamTransformers)
           /\ IF Survives(s, item.from, item.inputPayload, out)
              THEN /\ transforming' =
                         <<[item |-> [item EXCEPT !.topic = after.topic,
                                                  !.payload = after.payload],
                            next |-> next + 1]>>
                   /\ UNCHANGED <<queues, ingesting, publishing, running,
                                  arrived, published>>
              ELSE Terminate

(* The chain is through: hand its output over to the publisher thread.     *)
TransformPush ==
    /\ running
    /\ transforming # << >>
    /\ LET item == transforming[1].item
       IN  /\ ChainIsThrough(transforming[1].next, item.streamTransformers)
           /\ outgoingQueue' = Append(outgoingQueue,
                 [origin |-> item.origin, from |-> item.from,
                  route |-> item.route,
                  topic |-> item.topic, payload |-> item.payload])
    /\ transforming' = << >>
    /\ UNCHANGED <<incomingQueue, transformQueue, ingesting, publishing,
                   running, arrived, published>>

-----------------------------------------------------------------------------
(* publish(): pop a message, then hand it to the MQTT client.              *)
PublishPop_TakesNewest ==
    /\ running
    /\ publishing = << >>
    /\ outgoingQueue # << >>
    /\ outgoingQueue' = SubSeq(outgoingQueue, 1, Len(outgoingQueue) - 1)
    /\ publishing' = <<outgoingQueue[Len(outgoingQueue)]>>
    /\ UNCHANGED <<incomingQueue, transformQueue, ingesting, transforming,
                   running, arrived, published>>
PublishPop ==
    /\ running
    /\ publishing = << >>
    /\ outgoingQueue # << >>
    /\ outgoingQueue' = Tail(outgoingQueue)
    /\ publishing' = <<Head(outgoingQueue)>>
    /\ UNCHANGED <<incomingQueue, transformQueue, ingesting, transforming,
                   running, arrived, published>>

PublishAccepted_SendsAgain ==
    /\ running
    /\ publishing # << >>
    /\ Len(published) < 3 * MaxMessages
    /\ published' = Append(published, publishing[1])
    /\ UNCHANGED <<queues, threads, running, arrived>>
PublishAccepted ==
    /\ running
    /\ publishing # << >>
    /\ published' = Append(published, publishing[1])
    /\ publishing' = << >>
    /\ UNCHANGED <<queues, ingesting, transforming, running, arrived>>

(* async_client::publish throws (no connection, a topic that is not UTF-8, *)
(* no message identifier left) and nobody catches it.                      *)
PublishThrows ==
    /\ running
    /\ publishing # << >>
    /\ Terminate

-----------------------------------------------------------------------------
Ingest == IngestPop \/ IngestRoute
Transform == TransformPop \/ TransformExecute \/ TransformPush
Publish == PublishPop \/ PublishAccepted \/ PublishThrows
Callback ==
    \/ \E t \in Topic, p \in Payload : MessageArrived(t, p)
    \/ MalformedMessageArrived

Next == Ingest \/ Transform \/ Publish \/ Callback

(* Each thread runs on a processor of its own and is never blocked.        *)
Fairness == WF_vars(Ingest) /\ WF_vars(Transform) /\ WF_vars(Publish)
Safety == Init /\ [][Next]_vars
Spec == Safety /\ Fairness

-----------------------------------------------------------------------------
(* Every queue, hand and history holds items of its kind; a thread carries *)
(* at most one, and the ingest thread's route exists.                      *)
TypeOK ==
    /\ incomingQueue \in Seq(IncomingItem)
    /\ transformQueue \in Seq(TransformItem)
    /\ outgoingQueue \in Seq(OutgoingItem)
    /\ ingesting \in Seq(IngestState) /\ Len(ingesting) <= 1
    /\ \A i \in DOMAIN ingesting :
          ingesting[i].next \in DOMAIN RoutesOf(ingesting[i].message.topic)
    /\ transforming \in Seq(TransformState)
    /\ Len(transforming) <= 1
    /\ publishing \in Seq(OutgoingItem) /\ Len(publishing) <= 1
    /\ running \in BOOLEAN
    /\ arrived \in Seq([topic: Topic, payload: Payload])
    /\ published \in Seq(OutgoingItem)

(* Deliveries of one lane leave in the order in which their messages       *)
(* arrived and, for one message, in the order of its routes, and none      *)
(* leaves twice: whatever the two threads that push on outgoingQueue do.   *)
Ordered(items) ==
    \A i, j \in DOMAIN items :
        (i < j /\ SameLane(items[i], items[j])) => Precedes(items[i], items[j])
InLaneOrder == Ordered(published)

(* A delivery that is due is never dropped on the way: until it has been   *)
(* published it waits in one of the queues or in the hands of a thread.    *)
Holds(items, n, k) == \E i \in DOMAIN items : items[i].origin = n /\ items[i].route = k
InIngest(n, k) ==
    \/ \E i \in DOMAIN incomingQueue : incomingQueue[i].origin = n
    \/ \E i \in DOMAIN ingesting :
          ingesting[i].message.origin = n /\ ingesting[i].next <= k
InTransform(n, k) ==
    \/ Holds(transformQueue, n, k)
    \/ \E i \in DOMAIN transforming :
          transforming[i].item.origin = n /\ transforming[i].item.route = k
InPublish(n, k) == Holds(outgoingQueue, n, k) \/ Holds(publishing, n, k)
NothingLost ==
    \A n \in DOMAIN arrived : \A k \in DOMAIN RoutesOf(arrived[n].topic) :
        \/ InIngest(n, k)
        \/ InTransform(n, k)
        \/ InPublish(n, k)
        \/ Holds(published, n, k)

(* What is published is what the whole chain of the route makes of the     *)
(* message as it arrived: no transformer left out, run twice, run on       *)
(* another message's data, or fed a payload an earlier one has changed.    *)
IsChainOutput(item) ==
    [topic |-> item.topic, payload |-> item.payload] \in
        ChainOutputs(RoutesOf(item.from)[item.route],
                     item.from, arrived[item.origin].payload)
PublishedIsChainOutput ==
    \A i \in DOMAIN published : IsChainOutput(published[i])

(* Every message is in the end published along every route of its topic,   *)
(* or the process has terminated.                                          *)
EveryRouteServed ==
    \A n \in 1..MaxMessages : \A t \in DOMAIN Routes : \A k \in DOMAIN Routes[t] :
        (n \in DOMAIN arrived /\ arrived[n].topic = t)
            ~> (Holds(published, n, k) \/ ~running)

(* The threads implement the service of module Relay: with the queues      *)
(* hidden, what leaves is what Relay lets leave, and it does leave.        *)
Promised == INSTANCE Relay
ImplementsRelay == Promised!Spec
=============================================================================
