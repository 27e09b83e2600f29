---------------------- MODULE MqttTrafficWarden_proofs ----------------------
(***************************************************************************)
(* Theorems about the program at work: the threads of TrafficWarden and    *)
(* the MQTT client, joined.                                                *)
(*                                                                         *)
(* The invariants of the two parts hold of the whole, since every step of  *)
(* the program is a step of a part, or ends the process and leaves the     *)
(* part alone.  What joins them is that the client has accepted as many    *)
(* messages as the publisher thread has handed to it.                      *)
(***************************************************************************)
EXTENDS MqttTrafficWarden, TLAPS

PipelineFacts == INSTANCE TrafficWardenRelay_proofs
ClientFacts == INSTANCE MqttClient_proofs WITH Subscriptions <- Len(TopicList)

Joined == accepted = Len(published)

IInv ==
    /\ PipelineFacts!IInv /\ PipelineFacts!ContentInv
    /\ ClientFacts!IInv
    /\ Joined

-----------------------------------------------------------------------------
(* The constants are what the two parts assume.                            *)
LEMMA Assumptions ==
    /\ PipelineFacts!RoutesAssumption
    /\ PipelineFacts!ExecuteAssumption
    /\ PipelineFacts!MaxMessagesAssumption
    /\ ClientFacts!SubscriptionsAssumption
    /\ ClientFacts!MaxMsgIdsAssumption
    /\ ClientFacts!MaxPublishesAssumption
<1>1. PipelineFacts!RoutesAssumption
  BY RoutesAssumption DEF PipelineFacts!RoutesAssumption, PipelineFacts!RouteProperties,
     RouteProperties
<1>2. PipelineFacts!ExecuteAssumption
  BY ExecuteAssumption DEF PipelineFacts!ExecuteAssumption, PipelineFacts!ExecuteResult,
     ExecuteResult
<1>3. PipelineFacts!MaxMessagesAssumption
  BY BoundsAssumption DEF PipelineFacts!MaxMessagesAssumption
<1>4. ClientFacts!SubscriptionsAssumption
  BY TopicListAssumption DEF ClientFacts!SubscriptionsAssumption
<1>5. ClientFacts!MaxMsgIdsAssumption /\ ClientFacts!MaxPublishesAssumption
  BY BoundsAssumption DEF ClientFacts!MaxMsgIdsAssumption, ClientFacts!MaxPublishesAssumption
<1> QED BY <1>1, <1>2, <1>3, <1>4, <1>5

(* The theorems about the threads speak of the same threads.               *)
LEMMA SameThreads ==
    /\ Pipeline!Init <=> PipelineFacts!Init
    /\ Pipeline!Ingest <=> PipelineFacts!Ingest
    /\ Pipeline!Transform <=> PipelineFacts!Transform
    /\ Pipeline!PublishPop <=> PipelineFacts!PublishPop
    /\ Pipeline!PublishAccepted <=> PipelineFacts!PublishAccepted
    /\ Pipeline!PublishThrows <=> PipelineFacts!PublishThrows
    /\ \A t, p : Pipeline!MessageArrived(t, p) <=> PipelineFacts!MessageArrived(t, p)
    /\ Pipeline!MalformedMessageArrived <=> PipelineFacts!MalformedMessageArrived
<1> USE DEF Pipeline!queues, PipelineFacts!queues, Pipeline!threads, PipelineFacts!threads,
            Pipeline!Terminate, PipelineFacts!Terminate
<1>1. Pipeline!Init <=> PipelineFacts!Init
  BY DEF Pipeline!Init, PipelineFacts!Init
<1>2. Pipeline!Ingest <=> PipelineFacts!Ingest
  BY DEF Pipeline!Ingest, PipelineFacts!Ingest, Pipeline!IngestPop, PipelineFacts!IngestPop,
         Pipeline!IngestRoute, PipelineFacts!IngestRoute,
         Pipeline!RestOfRoutes, PipelineFacts!RestOfRoutes,
         Pipeline!NeedsTransform, PipelineFacts!NeedsTransform,
         Pipeline!RoutesOf, PipelineFacts!RoutesOf
<1>3. Pipeline!Transform <=> PipelineFacts!Transform
  BY DEF Pipeline!Transform, PipelineFacts!Transform,
         Pipeline!TransformPop, PipelineFacts!TransformPop,
         Pipeline!TransformExecute, PipelineFacts!TransformExecute,
         Pipeline!TransformPush, PipelineFacts!TransformPush,
         Pipeline!ChainIsThrough, PipelineFacts!ChainIsThrough,
         Pipeline!Survives, PipelineFacts!Survives,
         Pipeline!Transformed, PipelineFacts!Transformed
<1>4. Pipeline!PublishPop <=> PipelineFacts!PublishPop
  BY DEF Pipeline!PublishPop, PipelineFacts!PublishPop
<1>5. Pipeline!PublishAccepted <=> PipelineFacts!PublishAccepted
  BY DEF Pipeline!PublishAccepted, PipelineFacts!PublishAccepted
<1>6. Pipeline!PublishThrows <=> PipelineFacts!PublishThrows
  BY DEF Pipeline!PublishThrows, PipelineFacts!PublishThrows
<1>7. \A t, p : Pipeline!MessageArrived(t, p) <=> PipelineFacts!MessageArrived(t, p)
  BY DEF Pipeline!MessageArrived, PipelineFacts!MessageArrived
<1>8. Pipeline!MalformedMessageArrived <=> PipelineFacts!MalformedMessageArrived
  BY DEF Pipeline!MalformedMessageArrived, PipelineFacts!MalformedMessageArrived
<1> QED BY <1>1, <1>2, <1>3, <1>4, <1>5, <1>6, <1>7, <1>8

(* The theorems about the client speak of the same client.                 *)
LEMMA SameClient ==
    /\ Client!Init <=> ClientFacts!Init
    /\ Client!MainThread <=> ClientFacts!MainThread
    /\ Client!Callback <=> ClientFacts!Callback
    /\ Client!ConnectionLost <=> ClientFacts!ConnectionLost
    /\ Client!Publish <=> ClientFacts!Publish
    /\ Client!PublishThrows <=> ClientFacts!PublishThrows
    /\ Client!Write <=> ClientFacts!Write
    /\ Client!Broker <=> ClientFacts!Broker
    /\ Client!Acknowledged <=> ClientFacts!Acknowledged
<1> USE DEF Client!library, ClientFacts!library, Client!session, ClientFacts!session,
            Client!history, ClientFacts!history, Client!HasMsgId, ClientFacts!HasMsgId,
            Client!Accepts, ClientFacts!Accepts
<1>1. Client!Init <=> ClientFacts!Init
  BY DEF Client!Init, ClientFacts!Init
<1>2. Client!MainThread <=> ClientFacts!MainThread
  BY DEF Client!MainThread, ClientFacts!MainThread,
         Client!InitCallback, ClientFacts!InitCallback, Client!Connect, ClientFacts!Connect,
         Client!ConnectThrows, ClientFacts!ConnectThrows
<1>3. Client!Callback <=> ClientFacts!Callback
  BY DEF Client!Callback, ClientFacts!Callback,
         Client!Established, ClientFacts!Established, Client!OnFailure, ClientFacts!OnFailure,
         Client!Reconnect, ClientFacts!Reconnect,
         Client!ReconnectThrows, ClientFacts!ReconnectThrows,
         Client!Subscribe, ClientFacts!Subscribe,
         Client!SubscribeThrows, ClientFacts!SubscribeThrows,
         Client!FirstTopic, ClientFacts!FirstTopic,
         Client!AfterFailure, ClientFacts!AfterFailure,
         Client!AfterConnect, ClientFacts!AfterConnect,
         Client!IsLastTopic, ClientFacts!IsLastTopic
<1>4. Client!ConnectionLost <=> ClientFacts!ConnectionLost
  BY DEF Client!ConnectionLost, ClientFacts!ConnectionLost,
         Client!PublishesOf, ClientFacts!PublishesOf
<1>5. Client!Publish <=> ClientFacts!Publish
  BY DEF Client!Publish, ClientFacts!Publish, Client!Handed, ClientFacts!Handed,
         Client!Message, ClientFacts!Message
<1>6. Client!PublishThrows <=> ClientFacts!PublishThrows
  BY DEF Client!PublishThrows, ClientFacts!PublishThrows
<1>7. Client!Write <=> ClientFacts!Write
  BY DEF Client!Write, ClientFacts!Write
<1>8. Client!Broker <=> ClientFacts!Broker
  BY DEF Client!Broker, ClientFacts!Broker, Client!Processes, ClientFacts!Processes
<1>9. Client!Acknowledged <=> ClientFacts!Acknowledged
  BY DEF Client!Acknowledged, ClientFacts!Acknowledged, Client!RemoveAt, ClientFacts!RemoveAt
<1> QED BY <1>1, <1>2, <1>3, <1>4, <1>5, <1>6, <1>7, <1>8, <1>9

-----------------------------------------------------------------------------
(* A step of the program is one of the client, or leaves the client alone; *)
(* then it may end the process.                                            *)
LEMMA ClientPart ==
    ASSUME ClientFacts!IInv, PipelineFacts!IInv, [Next]_vars
    PROVE  ClientFacts!IInv'
<1> USE Assumptions
<1>1. ASSUME ClientFacts!Next
      PROVE  ClientFacts!IInv'
  BY <1>1, ClientFacts!ClientStep
<1>2. ASSUME UNCHANGED clientVars, running' \in BOOLEAN, running' => running
      PROVE  ClientFacts!IInv'
  BY <1>2, ClientFacts!ProcessStops
     DEF clientVars, ClientFacts!library, ClientFacts!session, ClientFacts!history
<1>3. CASE \/ PublishAccepted \/ PublishThrows
           \/ MainThread \/ CallbackThread \/ ConnectionLost
           \/ Write \/ Broker \/ Acknowledged
  <2>1. ClientFacts!Next
    BY <1>3, SameClient DEF PublishAccepted, PublishThrows, MainThread,
       CallbackThread, ConnectionLost, Write, Broker, Acknowledged, ClientFacts!Next
  <2> QED BY <1>1, <2>1
<1>4. CASE \/ MessageArrived \/ MalformedMessageArrived
           \/ IngestThread \/ TransformThread \/ PublishPop
           \/ UNCHANGED vars
  <2>1. running \in BOOLEAN
    BY DEF ClientFacts!IInv, ClientFacts!TypeOK
  <2>2. UNCHANGED clientVars /\ (running' = running \/ running' = FALSE)
    BY <1>4 DEF MessageArrived, MalformedMessageArrived, IngestThread, TransformThread,
       PublishPop, vars, Pipeline!MessageArrived, Pipeline!MalformedMessageArrived,
       Pipeline!Ingest, Pipeline!IngestPop, Pipeline!IngestRoute,
       Pipeline!Transform, Pipeline!TransformPop, Pipeline!TransformExecute,
       Pipeline!TransformPush, Pipeline!PublishPop, Pipeline!Terminate
  <2>3. CASE running' = running
    BY <1>2, <2>1, <2>2, <2>3
  <2>4. CASE running' = FALSE
    BY <1>2, <2>2, <2>4
  <2> QED BY <2>2, <2>3, <2>4
<1> QED BY <1>3, <1>4 DEF Next, PublishThread

(* A step of the program is one of the threads, or leaves the threads and  *)
(* the queues alone; then it may end the process.                          *)
LEMMA PipelinePart ==
    ASSUME ClientFacts!IInv, PipelineFacts!IInv, PipelineFacts!ContentInv, [Next]_vars
    PROVE  PipelineFacts!IInv' /\ PipelineFacts!ContentInv'
<1> USE Assumptions
<1>1. ASSUME PipelineFacts!Next
      PROVE  PipelineFacts!IInv' /\ PipelineFacts!ContentInv'
  <2>1. PipelineFacts!TypeOK
    BY DEF PipelineFacts!IInv
  <2> QED BY <1>1, <2>1, PipelineFacts!PipelineStep, PipelineFacts!ContentStep
<1>2. CASE \/ MessageArrived \/ MalformedMessageArrived
           \/ IngestThread \/ TransformThread
           \/ PublishPop \/ PublishAccepted \/ PublishThrows
  <2>1. PipelineFacts!Next
    <3>1. CASE MessageArrived
      <4>1. PICK i \in DOMAIN TopicList :
               \E t \in Matching[TopicList[i]], p \in Payload : Pipeline!MessageArrived(t, p)
        BY <3>1 DEF MessageArrived
      <4>2. Matching[TopicList[i]] \subseteq Topic
        <5>1. TopicList[i] \in DOMAIN Routes
          BY TopicListAssumption
        <5> QED BY <5>1, MatchingAssumption
      <4>3. \E t \in Topic, p \in Payload : PipelineFacts!MessageArrived(t, p)
        BY <4>1, <4>2, SameThreads
      <4> QED BY <4>3 DEF PipelineFacts!Next, PipelineFacts!Callback
    <3>2. CASE MalformedMessageArrived
      BY <3>2, SameThreads DEF MalformedMessageArrived, PipelineFacts!Next,
         PipelineFacts!Callback
    <3>3. CASE IngestThread \/ TransformThread
      BY <3>3, SameThreads DEF IngestThread, TransformThread, PipelineFacts!Next
    <3>4. CASE PublishPop \/ PublishAccepted \/ PublishThrows
      BY <3>4, SameThreads DEF PublishPop, PublishAccepted, PublishThrows,
         PipelineFacts!Next, PipelineFacts!Publish
    <3> QED BY <1>2, <3>1, <3>2, <3>3, <3>4
  <2> QED BY <1>1, <2>1
<1>3. CASE \/ MainThread \/ CallbackThread \/ ConnectionLost
           \/ Write \/ Broker \/ Acknowledged
           \/ UNCHANGED vars
  <2>1. UNCHANGED pipelineVars
    BY <1>3 DEF MainThread, CallbackThread, ConnectionLost, Write, Broker,
       Acknowledged, vars
  <2>2. running' \in BOOLEAN
    BY ClientPart DEF ClientFacts!IInv, ClientFacts!TypeOK
  <2>3. PipelineFacts!TypeOK'
    BY <2>1, <2>2 DEF PipelineFacts!IInv, PipelineFacts!TypeOK, pipelineVars
  <2>4. UNCHANGED <<PipelineFacts!queues, PipelineFacts!threads, arrived, published>>
    BY <2>1 DEF pipelineVars, PipelineFacts!queues, PipelineFacts!threads
  <2>5. PipelineFacts!IInv'
    BY <2>3, <2>4, PipelineFacts!NothingMoves
  <2>6. PipelineFacts!ContentInv'
    BY <2>4, PipelineFacts!ContentKept
  <2> QED BY <2>5, <2>6
<1> QED BY <1>2, <1>3 DEF Next, PublishThread

(* The client has accepted what the publisher thread has handed over.      *)
LEMMA JoinedStep ==
    ASSUME IInv, [Next]_vars
    PROVE  Joined'
<1> USE DEF IInv, Joined
<1>1. CASE PublishAccepted
  <2>1. published' = Append(published, publishing[1]) /\ accepted' = accepted + 1
    BY <1>1 DEF PublishAccepted, Pipeline!PublishAccepted, Client!Publish
  <2>2. published \in Seq(PipelineFacts!OutgoingItem)
    BY DEF PipelineFacts!IInv, PipelineFacts!TypeOK
  <2> QED BY <2>1, <2>2
<1>2. CASE ~PublishAccepted
  <2>1. UNCHANGED <<published, accepted>>
    BY <1>2
    DEF Next, PublishThread, vars, pipelineVars, clientVars,
        MessageArrived, MalformedMessageArrived, IngestThread, TransformThread,
        PublishPop, PublishThrows, MainThread, CallbackThread,
        ConnectionLost, Write, Broker, Acknowledged,
        Pipeline!MessageArrived, Pipeline!MalformedMessageArrived, Pipeline!Ingest,
        Pipeline!IngestPop, Pipeline!IngestRoute, Pipeline!Transform,
        Pipeline!TransformPop, Pipeline!TransformExecute, Pipeline!TransformPush,
        Pipeline!PublishPop, Pipeline!PublishThrows, Pipeline!Terminate,
        Client!PublishThrows, Client!MainThread,
        Client!InitCallback, Client!Connect, Client!ConnectThrows, Client!Callback,
        Client!Established, Client!OnFailure, Client!Reconnect, Client!ReconnectThrows,
        Client!Subscribe, Client!SubscribeThrows, Client!ConnectionLost, Client!Write,
        Client!Broker, Client!Processes, Client!Acknowledged, Client!history
  <2> QED BY <2>1
<1> QED BY <1>1, <1>2

(* The invariants of the threads and of the client hold of the program,    *)
(* and the two agree on what has been published.                           *)
THEOREM ProgramInvariant == Safety => []IInv
<1>1. Init => IInv
  <2> SUFFICES ASSUME Init PROVE IInv
    OBVIOUS
  <2>1. PipelineFacts!IInv /\ PipelineFacts!ContentInv
    BY Assumptions, SameThreads, PipelineFacts!PipelineInit, PipelineFacts!ContentInit
       DEF Init
  <2>2. ClientFacts!IInv
    BY Assumptions, SameClient, ClientFacts!ClientInit DEF Init
  <2>3. Joined
    BY DEF Init, Pipeline!Init, Client!Init, Joined
  <2> QED BY <2>1, <2>2, <2>3 DEF IInv
<1>2. IInv /\ [Next]_vars => IInv'
  BY ClientPart, PipelinePart, JoinedStep DEF IInv
<1> QED BY <1>1, <1>2, PTL DEF Safety

(* The broker receives the deliveries of one lane in the order in which    *)
(* their messages arrived and of their routes, and none twice, whatever    *)
(* the threads do and whatever connections are lost.                       *)
THEOREM LaneOrderAtBroker == Safety => []BrokerLaneOrder
<1>1. IInv => BrokerLaneOrder
  <2> SUFFICES ASSUME IInv PROVE BrokerLaneOrder
    OBVIOUS
  <2>1. \A i \in DOMAIN delivered : delivered[i] \in DOMAIN published
    <3>1. /\ ClientFacts!Settled \in Nat /\ accepted \in Nat
          /\ ClientFacts!Settled <= accepted
      <4>1. ClientFacts!TypeOK /\ ClientFacts!MessagesInv
        BY DEF IInv, ClientFacts!IInv
      <4>2. ClientFacts!Settled \in Nat /\ accepted \in Nat
        BY <4>1, Assumptions, ClientFacts!SettledIsNat DEF ClientFacts!TypeOK
      <4>3. \E w \in ClientFacts!Settled..accepted : TRUE
        BY <4>1 DEF ClientFacts!MessagesInv
      <4> QED BY <4>2, <4>3
    <3>2. \A i \in DOMAIN delivered : delivered[i] \in 1..ClientFacts!Settled
      BY DEF IInv, ClientFacts!IInv, ClientFacts!MessagesInv, ClientFacts!Range
    <3>3. DOMAIN published = 1..accepted
      <4>1. published \in Seq(PipelineFacts!OutgoingItem) /\ accepted = Len(published)
        BY DEF IInv, Joined, PipelineFacts!IInv, PipelineFacts!TypeOK
      <4> QED BY <4>1
    <3> QED BY <3>1, <3>2, <3>3
  <2>2. Pipeline!Ordered(Received)
    <3> SUFFICES ASSUME NEW i \in DOMAIN delivered, NEW j \in DOMAIN delivered, i < j,
                        Pipeline!SameLane(published[delivered[i]], published[delivered[j]])
                 PROVE  Pipeline!Precedes(published[delivered[i]], published[delivered[j]])
      BY DEF Pipeline!Ordered, Received
    <3>1. delivered[i] < delivered[j]
      BY DEF IInv, ClientFacts!IInv, ClientFacts!MessagesInv, ClientFacts!DeliveredInOrder
    <3>2. PipelineFacts!SameLane(published[delivered[i]], published[delivered[j]])
      BY DEF Pipeline!SameLane, PipelineFacts!SameLane, Pipeline!Direct, PipelineFacts!Direct,
         Pipeline!StreamTransformersOf, PipelineFacts!StreamTransformersOf,
         Pipeline!RoutesOf, PipelineFacts!RoutesOf
    <3>3. PipelineFacts!Precedes(published[delivered[i]], published[delivered[j]])
      BY <2>1, <3>1, <3>2 DEF IInv, PipelineFacts!IInv, PipelineFacts!OrderInv,
         PipelineFacts!Ordered
    <3> QED BY <3>3 DEF Pipeline!Precedes, PipelineFacts!Precedes
  <2> QED BY <2>1, <2>2 DEF BrokerLaneOrder
<1> QED BY <1>1, ProgramInvariant, PTL
(* A delivery that is due is in the program, with the client, received by  *)
(* the broker or lost with a connection, whatever the threads do, however  *)
(* often the connection is lost, and if the process has ended.             *)
THEOREM EveryDeliveryAccounted == Safety => []NothingVanishes
<1>1. IInv => NothingVanishes
  <2> SUFFICES ASSUME IInv, NEW n \in DOMAIN arrived,
                      NEW k \in DOMAIN Pipeline!RoutesOf(arrived[n].topic),
                      ~Pipeline!InIngest(n, k), ~Pipeline!InTransform(n, k),
                      ~Pipeline!InPublish(n, k)
               PROVE  HandedOver(n, k)
    BY DEF NothingVanishes
  <2>1. \/ PipelineFacts!InIngest(n, k) \/ PipelineFacts!InTransform(n, k)
        \/ PipelineFacts!InPublish(n, k) \/ PipelineFacts!Holds(published, n, k)
    <3>1. PipelineFacts!NothingLost
      BY Assumptions, PipelineFacts!StagesHoldAll DEF IInv
    <3>2. k \in DOMAIN PipelineFacts!RoutesOf(arrived[n].topic)
      BY DEF Pipeline!RoutesOf, PipelineFacts!RoutesOf
    <3> QED BY <3>1, <3>2 DEF PipelineFacts!NothingLost
  <2>2. PipelineFacts!Holds(published, n, k)
    <3>1. ~PipelineFacts!InIngest(n, k)
      BY DEF Pipeline!InIngest, PipelineFacts!InIngest
    <3>2. ~PipelineFacts!InTransform(n, k)
      BY DEF Pipeline!InTransform, PipelineFacts!InTransform, Pipeline!Holds,
         PipelineFacts!Holds
    <3>3. ~PipelineFacts!InPublish(n, k)
      BY DEF Pipeline!InPublish, PipelineFacts!InPublish, Pipeline!Holds,
         PipelineFacts!Holds
    <3> QED BY <2>1, <3>1, <3>2, <3>3
  <2>3. PICK i \in DOMAIN published : published[i].origin = n /\ published[i].route = k
    BY <2>2 DEF PipelineFacts!Holds
  <2>4. i \in 1..accepted
    <3>1. published \in Seq(PipelineFacts!OutgoingItem) /\ accepted = Len(published)
      BY DEF IInv, Joined, PipelineFacts!IInv, PipelineFacts!TypeOK
    <3> QED BY <3>1
  <2>5. \/ i \in ClientFacts!PublishesOf(wire) \cup ClientFacts!PublishesOf(queued)
        \/ i \in Range(delivered) \cup dropped
    <3>1. ClientFacts!NoneForgotten
      BY Assumptions, ClientFacts!NumbersAreAll DEF IInv
    <3> QED BY <2>4, <3>1 DEF ClientFacts!NoneForgotten, ClientFacts!Range, Range
  <2>6. WithTheClient(i) \/ i \in Range(delivered) \cup dropped
    BY <2>5 DEF WithTheClient, Client!PublishesOf, ClientFacts!PublishesOf
  <2> QED BY <2>3, <2>6 DEF HandedOver
<1> QED BY <1>1, ProgramInvariant, PTL
-----------------------------------------------------------------------------
(* The module Service speaks of the same routes, order and chains as the   *)
(* theorems about the threads.                                             *)
LEMMA SameRouting ==
    /\ \A t : Promised!RoutesOf(t) = PipelineFacts!RoutesOf(t)
    /\ \A a, b : Promised!SameLane(a, b) <=> PipelineFacts!SameLane(a, b)
    /\ \A a, b : Promised!Precedes(a, b) <=> PipelineFacts!Precedes(a, b)
    /\ \A r, it, ip : Promised!ChainOutputs(r, it, ip) = PipelineFacts!ChainOutputs(r, it, ip)
    /\ \A n, k : Promised!Token(n, k) = PipelineFacts!Delivery(n, k)
    /\ \A x : Promised!TokenOf(x) = TokenOf(x) /\ PipelineFacts!TokenOf(x) = TokenOf(x)
<1>1. \A t : Promised!RoutesOf(t) = PipelineFacts!RoutesOf(t)
  BY DEF Promised!RoutesOf, PipelineFacts!RoutesOf
<1>2. \A a, b : Promised!SameLane(a, b) <=> PipelineFacts!SameLane(a, b)
  BY <1>1 DEF Promised!SameLane, PipelineFacts!SameLane, Promised!Direct,
              PipelineFacts!Direct, Promised!StreamTransformersOf,
              PipelineFacts!StreamTransformersOf
<1>3. \A a, b : Promised!Precedes(a, b) <=> PipelineFacts!Precedes(a, b)
  BY DEF Promised!Precedes, PipelineFacts!Precedes
<1>4. \A r, it, ip : Promised!ChainOutputs(r, it, ip) = PipelineFacts!ChainOutputs(r, it, ip)
  BY DEF Promised!ChainOutputs, PipelineFacts!ChainOutputs, Promised!IsChainRun,
         PipelineFacts!IsChainRun, Promised!Survives, PipelineFacts!Survives,
         Promised!Transformed, PipelineFacts!Transformed,
         Promised!Output, PipelineFacts!Output
<1>5. \A n, k : Promised!Token(n, k) = PipelineFacts!Delivery(n, k)
  BY DEF Promised!Token, PipelineFacts!Delivery
<1>6. \A x : Promised!TokenOf(x) = TokenOf(x) /\ PipelineFacts!TokenOf(x) = TokenOf(x)
  BY DEF Promised!TokenOf, PipelineFacts!TokenOf, TokenOf
<1> QED BY <1>1, <1>2, <1>3, <1>4, <1>5, <1>6

(* The deliveries among the first n that were published.                   *)
TokensUpTo(n) == {TokenOf(published[i]) : i \in 1..n}

(* What is published is due, was not published before, is behind nothing   *)
(* that has not been published, and is what its chain makes of its message.*)
LEMMA PublishedIsReady ==
    ASSUME IInv, NEW i \in DOMAIN published
    PROVE  LET x == TokenOf(published[i])
           IN  /\ x \in Promised!Due
               /\ x \notin TokensUpTo(i - 1)
               /\ Promised!IsBehindOnly(x, TokensUpTo(i - 1))
               /\ [topic |-> published[i].topic, payload |-> published[i].payload]
                     \in Promised!OutputsOf(x)
<1> DEFINE p == published[i]
           x == TokenOf(p)
<1>1. PipelineFacts!IInv /\ PipelineFacts!TypeOK /\ PipelineFacts!ContentInv
  BY DEF IInv, PipelineFacts!IInv
<1>2. /\ published \in Seq(PipelineFacts!OutgoingItem)
      /\ p \in PipelineFacts!OutgoingItem
  BY <1>1, PipelineFacts!ItemOf DEF PipelineFacts!TypeOK
<1>3. i \in Nat /\ p.origin \in Nat /\ p.route \in Nat
  BY <1>2 DEF PipelineFacts!OutgoingItem
<1>4. /\ p.origin \in DOMAIN arrived /\ p.from = arrived[p.origin].topic
      /\ p.route \in DOMAIN Promised!RoutesOf(p.from)
  <2>1. PipelineFacts!TokenOf(p) \in PipelineFacts!Stages
    BY DEF PipelineFacts!Stages, PipelineFacts!Tokens
  <2>2. PipelineFacts!IsHandedOver(PipelineFacts!TokenOf(p))
    BY <1>1, <2>1 DEF PipelineFacts!IInv, PipelineFacts!Conserved
  <2>3. /\ p.origin \in 1..PipelineFacts!Taken
        /\ p.from = arrived[p.origin].topic
        /\ p.route \in DOMAIN PipelineFacts!RoutesOf(p.from)
    BY <2>2 DEF PipelineFacts!IsHandedOver, PipelineFacts!TokenOf
  <2>4. /\ arrived \in Seq([topic: Topic, payload: Payload])
        /\ Len(arrived) \in Nat /\ Len(incomingQueue) \in Nat
        /\ Len(incomingQueue) <= Len(arrived)
    BY <1>1 DEF PipelineFacts!IInv, PipelineFacts!TypeOK, PipelineFacts!IntakeInv
  <2>5. p.origin \in DOMAIN arrived
    BY <2>3, <2>4 DEF PipelineFacts!Taken
  <2> QED BY <2>3, <2>5, SameRouting
<1> HIDE DEF p
<1>5. x = Promised!Token(p.origin, p.route)
  BY <1>4 DEF Promised!Token, TokenOf
<1>6. x \in Promised!Due
  BY <1>4, <1>5 DEF Promised!Due
<1>7. x \notin TokensUpTo(i - 1)
  <2> SUFFICES ASSUME NEW h \in 1..(i - 1), x = TokenOf(published[h])
               PROVE  FALSE
    BY DEF TokensUpTo
  <2>1. h \in DOMAIN published /\ h < i
    BY <1>2, <1>3
  <2>2. PipelineFacts!SameLane(published[h], p) => PipelineFacts!Precedes(published[h], p)
    BY <1>1, <2>1 DEF p, PipelineFacts!IInv, PipelineFacts!OrderInv, PipelineFacts!Ordered
  <2>3. PipelineFacts!SameLane(x, x) => PipelineFacts!Precedes(x, x)
    <3>1. /\ x.origin = p.origin /\ x.from = p.from /\ x.route = p.route
          /\ published[h].origin = p.origin /\ published[h].from = p.from
          /\ published[h].route = p.route
      BY DEF TokenOf
    <3> QED BY <2>2, <3>1 DEF PipelineFacts!SameLane, PipelineFacts!Direct,
               PipelineFacts!StreamTransformersOf, PipelineFacts!Precedes
  <2>4. PipelineFacts!SameLane(x, x)
    BY DEF PipelineFacts!SameLane
  <2>5. ~PipelineFacts!Precedes(x, x)
    BY <1>3 DEF PipelineFacts!Precedes, TokenOf
  <2> QED BY <2>3, <2>4, <2>5
<1>8. Promised!IsBehindOnly(x, TokensUpTo(i - 1))
  <2> SUFFICES ASSUME NEW m \in DOMAIN arrived,
                      NEW j \in DOMAIN Promised!RoutesOf(arrived[m].topic),
                      Promised!Precedes(Promised!Token(m, j), x),
                      Promised!SameLane(Promised!Token(m, j), x)
               PROVE  Promised!Token(m, j) \in TokensUpTo(i - 1)
    BY DEF Promised!IsBehindOnly, Promised!Due
  <2> DEFINE d == PipelineFacts!Delivery(m, j)
  <2>1. d = Promised!Token(m, j) /\ j \in DOMAIN PipelineFacts!RoutesOf(arrived[m].topic)
    BY SameRouting
  <2> HIDE DEF d
  <2>3. PipelineFacts!Precedes(d, x) /\ PipelineFacts!SameLane(d, x)
    BY <2>1, SameRouting
  <2>4. PipelineFacts!Precedes(d, p) /\ PipelineFacts!SameLane(d, p)
    <3>1. x.origin = p.origin /\ x.from = p.from /\ x.route = p.route
      BY DEF TokenOf
    <3> QED BY <2>3, <3>1 DEF PipelineFacts!SameLane, PipelineFacts!Direct,
               PipelineFacts!StreamTransformersOf, PipelineFacts!Precedes
  <2>5. PICK h \in DOMAIN published : h < i /\ PipelineFacts!TokenOf(published[h]) = d
    BY <1>1, <2>1, <2>4, Assumptions, PipelineFacts!PublishedInTurn DEF d, p
  <2>6. h \in 1..(i - 1)
    BY <1>2, <1>3, <2>5
  <2> QED BY <2>1, <2>5, <2>6, SameRouting DEF TokensUpTo
<1>9. [topic |-> p.topic, payload |-> p.payload] \in Promised!OutputsOf(x)
  <2>1. PipelineFacts!IsMade(p)
    BY <1>1 DEF p, PipelineFacts!ContentInv, PipelineFacts!Leaving, PipelineFacts!Items
  <2>2. x.origin = p.origin /\ x.from = p.from /\ x.route = p.route
    BY DEF TokenOf
  <2> QED BY <2>1, <2>2, SameRouting
          DEF PipelineFacts!IsMade, PipelineFacts!IsChainOutput, Promised!OutputsOf
<1> QED BY <1>6, <1>7, <1>8, <1>9 DEF p

(* What the broker has received or a lost connection has taken along are   *)
(* the first deliveries that were published.                               *)
LEMMA SettledTokens ==
    ASSUME IInv
    PROVE  /\ ClientFacts!Settled \in Nat
           /\ DOMAIN published = 1..accepted
           /\ Range(delivered) \cup dropped = 1..ClientFacts!Settled
           /\ 1..ClientFacts!Settled \subseteq DOMAIN published
           /\ delivered \in Seq(1..ClientFacts!Settled)
           /\ Promised!Settled = TokensUpTo(ClientFacts!Settled)
<1>1. ClientFacts!TypeOK /\ ClientFacts!MessagesInv
  BY DEF IInv, ClientFacts!IInv
<1>2. ClientFacts!Settled \in Nat /\ accepted \in Nat /\ delivered \in Seq(Nat)
  BY <1>1, Assumptions, ClientFacts!SettledIsNat DEF ClientFacts!TypeOK
<1>3. DOMAIN published = 1..accepted
  <2>1. published \in Seq(PipelineFacts!OutgoingItem) /\ accepted = Len(published)
    BY DEF IInv, Joined, PipelineFacts!IInv, PipelineFacts!TypeOK
  <2> QED BY <2>1
<1>4. Range(delivered) \cup dropped = 1..ClientFacts!Settled
  BY <1>1 DEF ClientFacts!MessagesInv, ClientFacts!Range, Range
<1>5. 1..ClientFacts!Settled \subseteq DOMAIN published
  <2>1. \E w \in ClientFacts!Settled..accepted : TRUE
    BY <1>1 DEF ClientFacts!MessagesInv
  <2> QED BY <1>2, <1>3, <2>1
<1>6. delivered \in Seq(1..ClientFacts!Settled)
  <2>1. \A i \in 1..Len(delivered) : delivered[i] \in 1..ClientFacts!Settled
    BY <1>2, <1>4 DEF Range
  <2> QED BY <1>2, <2>1
<1>7. Promised!Settled = TokensUpTo(ClientFacts!Settled)
  <2>1. Promised!Settled = {TokenOf(published[i]) : i \in Range(delivered) \cup dropped}
    <3>1. {Promised!TokenOf(Received[i]) : i \in DOMAIN Received}
             = {TokenOf(published[i]) : i \in Range(delivered)}
      BY SameRouting DEF Received, Range
    <3> QED BY <3>1 DEF Promised!Settled, Lost
  <2> QED BY <1>4, <2>1 DEF TokensUpTo
<1> QED BY <1>2, <1>3, <1>4, <1>5, <1>6, <1>7

(* What is published is not changed later.                                 *)
LEMMA PublishedStays ==
    ASSUME IInv, [Next]_vars
    PROVE  \A i \in DOMAIN published : published'[i] = published[i]
<1>1. published \in Seq(PipelineFacts!OutgoingItem)
  BY DEF IInv, PipelineFacts!IInv, PipelineFacts!TypeOK
<1>2. UNCHANGED published \/ \E x : published' = Append(published, x)
  BY DEF Next, PublishThread, vars, pipelineVars,
      MessageArrived, MalformedMessageArrived, IngestThread, TransformThread,
      PublishPop, PublishAccepted, PublishThrows, MainThread,
      CallbackThread, ConnectionLost, Write, Broker, Acknowledged,
      Pipeline!MessageArrived, Pipeline!MalformedMessageArrived, Pipeline!Ingest,
      Pipeline!IngestPop, Pipeline!IngestRoute, Pipeline!Transform,
      Pipeline!TransformPop, Pipeline!TransformExecute, Pipeline!TransformPush,
      Pipeline!PublishPop, Pipeline!PublishAccepted, Pipeline!PublishThrows,
      Pipeline!Terminate
<1> QED BY <1>1, <1>2

(* A step that the broker and the connection do not notice.                *)
LEMMA HistoryStays ==
    ASSUME IInv, [Next]_vars, UNCHANGED <<delivered, dropped>>
    PROVE  Received' = Received /\ Lost' = Lost
<1>1. \A i \in DOMAIN published : published'[i] = published[i]
  BY PublishedStays
<1>2. /\ \A i \in DOMAIN delivered : delivered[i] \in DOMAIN published
      /\ \A i \in dropped : i \in DOMAIN published
  BY SettledTokens DEF Range
<1>3. Received' = Received
  BY <1>1, <1>2 DEF Received
<1>4. Lost' = Lost
  BY <1>1, <1>2 DEF Lost, TokenOf
<1> QED BY <1>3, <1>4

(* The broker receives, of those that are ready, the one that was          *)
(* published first.                                                        *)
LEMMA ReceiptIsDelivery ==
    ASSUME IInv, Broker
    PROVE  [Promised!Next]_(Promised!vars)
<1>1. PICK grants \in BOOLEAN : ClientFacts!Processes(grants)
  BY SameClient DEF Broker, ClientFacts!Broker
<1>2. /\ UNCHANGED <<accepted, dropped, running>>
      /\ \/ UNCHANGED delivered
         \/ /\ ClientFacts!Settled + 1 <= accepted
            /\ delivered' = Append(delivered, ClientFacts!Settled + 1)
  BY <1>1, Assumptions, ClientFacts!ReceivedIsOldest DEF IInv
<1>3. UNCHANGED <<arrived, published>> /\ running
  BY <1>1 DEF Broker, pipelineVars, ClientFacts!Processes
<1>4. CASE UNCHANGED delivered
  <2>1. Received' = Received /\ Lost' = Lost
    BY <1>2, <1>3, <1>4 DEF Received, Lost, TokenOf
  <2> QED BY <1>2, <1>3, <2>1 DEF Promised!vars
<1>5. CASE /\ ClientFacts!Settled + 1 <= accepted
           /\ delivered' = Append(delivered, ClientFacts!Settled + 1)
  <2> DEFINE n == ClientFacts!Settled
             p == published[n + 1]
             x == TokenOf(p)
  <2>1. /\ n \in Nat /\ DOMAIN published = 1..accepted
        /\ delivered \in Seq(1..n) /\ 1..n \subseteq DOMAIN published
        /\ Promised!Settled = TokensUpTo(n)
    BY SettledTokens
  <2>2. accepted \in Nat
    BY DEF IInv, ClientFacts!IInv, ClientFacts!TypeOK
  <2>3. n + 1 \in DOMAIN published /\ n + 1 - 1 = n
    BY <1>5, <2>1, <2>2
  <2>4. /\ x \in Promised!Due /\ x \notin TokensUpTo(n)
        /\ Promised!IsBehindOnly(x, TokensUpTo(n))
        /\ [topic |-> p.topic, payload |-> p.payload] \in Promised!OutputsOf(x)
    <3> HIDE DEF n
    <3>1. PICK i \in DOMAIN published : i = n + 1
      BY <2>3
    <3>2. i - 1 = n
      BY <2>1, <3>1
    <3> QED BY <3>1, <3>2, PublishedIsReady
  <2>5. p \in PipelineFacts!OutgoingItem
    BY <2>3, PipelineFacts!ItemOf DEF IInv, PipelineFacts!IInv, PipelineFacts!TypeOK
  <2> HIDE DEF n
  <2>6. Received' = Append(Received, p)
    <3>1. delivered' = Append(delivered, n + 1)
      BY <1>5 DEF n
    <3>2. /\ DOMAIN delivered = 1..Len(delivered) /\ Len(delivered) \in Nat
          /\ DOMAIN delivered' = 1..(Len(delivered) + 1)
          /\ delivered'[Len(delivered) + 1] = n + 1
          /\ \A i \in 1..Len(delivered) : delivered'[i] = delivered[i]
      BY <2>1, <3>1
    <3>3. Received' = [i \in 1..(Len(delivered) + 1) |->
                          IF i = Len(delivered) + 1 THEN p ELSE published[delivered[i]]]
      BY <1>3, <3>2 DEF Received
    <3>4. Append(Received, p) = [i \in 1..(Len(delivered) + 1) |->
                          IF i = Len(delivered) + 1 THEN p ELSE published[delivered[i]]]
      <4>1. Received = [i \in 1..Len(delivered) |-> published[delivered[i]]]
        BY <3>2 DEF Received
      <4> HIDE DEF p
      <4>2. \A i \in 1..Len(delivered) :
               published[delivered[i]] \in PipelineFacts!OutgoingItem
        <5>1. published \in Seq(PipelineFacts!OutgoingItem)
          BY DEF IInv, PipelineFacts!IInv, PipelineFacts!TypeOK
        <5>2. \A i \in 1..Len(delivered) : delivered[i] \in DOMAIN published
          BY <2>1, <3>2
        <5> QED BY <5>1, <5>2
      <4>3. Received \in Seq(PipelineFacts!OutgoingItem) /\ Len(Received) = Len(delivered)
        BY <3>2, <4>1, <4>2
      <4> QED BY <2>5, <3>2, <4>1, <4>3
    <3> QED BY <3>3, <3>4
  <2>7. p = [origin |-> x.origin, from |-> x.from, route |-> x.route,
             topic |-> p.topic, payload |-> p.payload]
    BY <2>5 DEF TokenOf, PipelineFacts!OutgoingItem
  <2>8. Lost' = Lost
    BY <1>2, <1>3 DEF Lost, TokenOf
  <2> HIDE DEF p, x
  <2>9. Promised!Deliver
    <3> DEFINE out == [topic |-> p.topic, payload |-> p.payload]
    <3>1. out.topic = p.topic /\ out.payload = p.payload
      OBVIOUS
    <3>2. out \in Promised!OutputsOf(x)
      BY <2>4
    <3> HIDE DEF out
    <3>3. Received' = Append(Received, [origin |-> x.origin, from |-> x.from,
                 route |-> x.route, topic |-> out.topic, payload |-> out.payload])
      BY <2>6, <2>7, <3>1
    <3> QED BY <1>2, <1>3, <2>1, <2>4, <2>8, <3>2, <3>3 DEF Promised!Deliver
  <2> QED BY <1>3, <2>9 DEF Promised!Next
<1> QED BY <1>2, <1>4, <1>5

(* A lost connection takes along deliveries that were ready, if any.       *)
LEMMA LossIsOfTheReady ==
    ASSUME IInv, ConnectionLost
    PROVE  [Promised!Next]_(Promised!vars)
<1> DEFINE n == ClientFacts!Settled
<1>1. PICK written \in n..accepted :
         /\ dropped' = dropped \cup (n + 1 .. written)
         /\ UNCHANGED <<accepted, delivered, running>>
  BY SameClient, Assumptions, ClientFacts!LostAreOldest DEF IInv, ConnectionLost
<1>2. UNCHANGED <<arrived, published>> /\ running
  BY DEF ConnectionLost, Client!ConnectionLost, pipelineVars
<1>3. /\ n \in Nat /\ DOMAIN published = 1..accepted
      /\ Promised!Settled = TokensUpTo(n)
  BY SettledTokens
<1>4. accepted \in Nat
  BY DEF IInv, ClientFacts!IInv, ClientFacts!TypeOK
<1> HIDE DEF n
<1> DEFINE some == {TokenOf(published[i]) : i \in n + 1 .. written}
<1>5. ASSUME NEW i \in n + 1 .. written
      PROVE  LET x == TokenOf(published[i])
             IN  /\ x \in Promised!Due \ TokensUpTo(n)
                 /\ Promised!OutputsOf(x) # {}
                 /\ Promised!IsBehindOnly(x, TokensUpTo(n) \cup some)
  <2> DEFINE x == TokenOf(published[i])
  <2>1. i \in DOMAIN published
    BY <1>1, <1>3, <1>4
  <2>2. /\ x \in Promised!Due /\ x \notin TokensUpTo(i - 1)
        /\ Promised!IsBehindOnly(x, TokensUpTo(i - 1))
        /\ Promised!OutputsOf(x) # {}
    BY <2>1, PublishedIsReady
  <2>3. TokensUpTo(n) \subseteq TokensUpTo(i - 1)
    BY <1>1, <1>3, <1>4 DEF TokensUpTo
  <2>4. TokensUpTo(i - 1) \subseteq TokensUpTo(n) \cup some
    <3>1. \A h \in 1..(i - 1) : h \in 1..n \/ h \in n + 1 .. written
      BY <1>1, <1>3, <1>4
    <3> QED BY <3>1 DEF TokensUpTo
  <2> HIDE DEF x, some
  <2> QED BY <2>2, <2>3, <2>4 DEF x, Promised!IsBehindOnly
<1>6. Lost' = Lost \cup some /\ Received' = Received
  BY <1>1, <1>2 DEF Lost, Received, TokenOf
<1>7. some \in SUBSET (Promised!Due \ Promised!Settled)
  BY <1>3, <1>5
<1>8. \A x \in some : /\ Promised!OutputsOf(x) # {}
                      /\ Promised!IsBehindOnly(x, Promised!Settled \cup some)
  BY <1>3, <1>5
<1> HIDE DEF some
<1>9. Promised!Lose
  BY <1>1, <1>2, <1>6, <1>7, <1>8 DEF Promised!Lose
<1> QED BY <1>2, <1>9 DEF Promised!Next

(* Every other step is an arrival, or ends the process, or is not seen by  *)
(* those who use the service.                                              *)
LEMMA OthersAreUnseen ==
    ASSUME IInv, [Next]_vars, ~Broker, ~ConnectionLost
    PROVE  [Promised!Next]_(Promised!vars)
<1>1. running \in BOOLEAN
  BY DEF IInv, ClientFacts!IInv, ClientFacts!TypeOK
<1>2. ASSUME UNCHANGED <<delivered, dropped, arrived>>,
             running' = running \/ (running /\ running' = FALSE)
      PROVE  [Promised!Next]_(Promised!vars)
  <2>1. Received' = Received /\ Lost' = Lost
    BY <1>2, HistoryStays
  <2> QED BY <1>2, <2>1 DEF Promised!vars, Promised!Next, Promised!Fail
<1>3. CASE MessageArrived
  <2>1. UNCHANGED <<delivered, dropped>> /\ running
    BY <1>3 DEF MessageArrived, clientVars, Pipeline!MessageArrived
  <2>2. Received' = Received /\ Lost' = Lost
    BY <2>1, HistoryStays
  <2>3. Promised!Arrive
    <3>1. PICK i \in DOMAIN TopicList :
             \E t \in Matching[TopicList[i]], p \in Payload : Pipeline!MessageArrived(t, p)
      BY <1>3 DEF MessageArrived
    <3>2. Matching[TopicList[i]] \subseteq Topic
      <4>1. TopicList[i] \in DOMAIN Routes
        BY TopicListAssumption
      <4> QED BY <4>1, MatchingAssumption
    <3> QED BY <2>2, <3>1, <3>2 DEF Pipeline!MessageArrived, Promised!Arrive
  <2> QED BY <2>1, <2>3 DEF Promised!Next
<1>4. CASE Acknowledged
  <2>1. running' = running /\ UNCHANGED <<delivered, dropped, arrived>>
    BY <1>4 DEF Acknowledged, Client!Acknowledged, Client!history, pipelineVars
  <2> QED BY <1>2, <2>1
<1>5. CASE \/ MalformedMessageArrived \/ IngestThread \/ TransformThread
           \/ PublishThread \/ Write \/ UNCHANGED vars
  <2>1. UNCHANGED <<delivered, dropped, arrived>>
    BY <1>5 DEF MalformedMessageArrived, IngestThread, TransformThread, PublishThread,
       PublishPop, PublishAccepted, PublishThrows, Write, vars,
       pipelineVars, clientVars,
       Pipeline!MalformedMessageArrived, Pipeline!Ingest, Pipeline!IngestPop,
       Pipeline!IngestRoute, Pipeline!Transform, Pipeline!TransformPop,
       Pipeline!TransformExecute, Pipeline!TransformPush, Pipeline!PublishPop,
       Pipeline!PublishAccepted, Pipeline!PublishThrows, Pipeline!Terminate,
       Client!Publish, Client!PublishThrows, Client!Write,
       Client!history
  <2>2. running' = running \/ (running /\ running' = FALSE)
    BY <1>5 DEF MalformedMessageArrived, IngestThread, TransformThread, PublishThread,
       PublishPop, PublishAccepted, PublishThrows, Write, vars,
       Pipeline!MalformedMessageArrived, Pipeline!Ingest, Pipeline!IngestPop,
       Pipeline!IngestRoute, Pipeline!Transform, Pipeline!TransformPop,
       Pipeline!TransformExecute, Pipeline!TransformPush, Pipeline!PublishPop,
       Pipeline!PublishAccepted, Pipeline!PublishThrows, Pipeline!Terminate,
       Client!Write
  <2> QED BY <1>2, <2>1, <2>2
<1>6. CASE MainThread \/ CallbackThread
  <2>1. UNCHANGED <<delivered, dropped, arrived>>
    BY <1>6 DEF MainThread, CallbackThread, pipelineVars, Client!MainThread,
       Client!InitCallback, Client!Connect, Client!ConnectThrows, Client!Callback,
       Client!Established, Client!OnFailure, Client!Reconnect, Client!ReconnectThrows,
       Client!Subscribe, Client!SubscribeThrows, Client!history
  <2>2. running' = running \/ (running /\ running' = FALSE)
    BY <1>6 DEF MainThread, CallbackThread, Client!MainThread,
       Client!InitCallback, Client!Connect, Client!ConnectThrows, Client!Callback,
       Client!Established, Client!OnFailure, Client!Reconnect, Client!ReconnectThrows,
       Client!Subscribe, Client!SubscribeThrows
  <2> QED BY <1>2, <2>1, <2>2
<1> QED BY <1>3, <1>4, <1>5, <1>6 DEF Next

(* The program, with its queues, its threads, its client and its           *)
(* connections hidden, is the service of module Service: from arrival to   *)
(* broker, every delivery is received once, in its turn and with the       *)
(* output of its chain, and a lost connection takes only what was next.    *)
THEOREM ProgramImplementsService == Safety => ImplementsService
<1>1. Init => Promised!Init
  BY DEF Init, Pipeline!Init, Client!Init, Promised!Init, Received, Lost
<1>2. IInv /\ [Next]_vars => [Promised!Next]_(Promised!vars)
  BY ReceiptIsDelivery, LossIsOfTheReady, OthersAreUnseen
<1> QED BY <1>1, <1>2, ProgramInvariant, PTL
        DEF Safety, ImplementsService, Promised!Spec
=============================================================================
