------------------------- MODULE MqttTrafficWarden -------------------------
(***************************************************************************)
(* The program at work: the threads of TrafficWarden and the MQTT client   *)
(* that TrafficWarden::init starts, joined where they meet.  publish() of  *)
(* the publisher thread is a call of the client, which throws without a    *)
(* connection; message_arrived of the client's callback pushes on the      *)
(* incoming queue, on the thread that also runs the other callbacks.       *)
(***************************************************************************)
EXTENDS Routing, SequencesExt

CONSTANTS
    TopicList,      \* l_inputTopics: the keys of m_routes in a list
    Matching,       \* the topics that a subscription to an input topic matches
    MaxMessages, MaxMsgIds, MaxPublishes

ASSUME TopicListAssumption ==
    /\ TopicList \in Seq(DOMAIN Routes) /\ Len(TopicList) > 0
    /\ Range(TopicList) = DOMAIN Routes
    /\ \A i, j \in DOMAIN TopicList : TopicList[i] = TopicList[j] => i = j
ASSUME MatchingAssumption == Matching \in [DOMAIN Routes -> SUBSET Topic]
ASSUME BoundsAssumption ==
    MaxMessages \in Nat /\ MaxMsgIds \in Nat \ {0} /\ MaxPublishes \in Nat

VARIABLES
    incomingQueue, transformQueue, outgoingQueue,
    ingesting, transforming, publishing, arrived, published,
    main, link, callback, nextTopic, queued, wire, unacked, granted, refused,
    accepted, delivered, dropped, gaveUp,
    running

Pipeline == INSTANCE TrafficWarden
Client == INSTANCE MqttClient WITH Subscriptions <- Len(TopicList)

pipelineVars == <<incomingQueue, transformQueue, outgoingQueue, ingesting,
                  transforming, publishing, arrived, published>>
clientVars == <<main, link, callback, nextTopic, queued, wire, unacked,
                granted, refused, accepted, delivered, dropped, gaveUp>>
vars == <<pipelineVars, clientVars, running>>

Init == Pipeline!Init /\ Client!Init

-----------------------------------------------------------------------------
(* message_arrived, for a topic that one of the subscriptions matches.     *)
MessageArrived ==
    /\ \E i \in DOMAIN TopicList :
          /\ Client!MayArrive(i)
          /\ \E t \in Matching[TopicList[i]], p \in Payload :
                Pipeline!MessageArrived(t, p)
    /\ UNCHANGED clientVars

MalformedMessageArrived ==
    /\ \E i \in DOMAIN TopicList : Client!MayArrive(i)
    /\ Pipeline!MalformedMessageArrived
    /\ UNCHANGED clientVars

(* The publisher thread's call of MqttClient::publish.  (X_Fault is X with *)
(* a fault in it that a property of X must reveal.)                        *)
PublishAccepted == Pipeline!PublishAccepted /\ Client!Publish
PublishThrows_Swallowed ==
    /\ running
    /\ publishing # << >>
    /\ ~Client!Accepts
    /\ publishing' = << >>
    /\ UNCHANGED <<incomingQueue, transformQueue, outgoingQueue, ingesting,
                   transforming, arrived, published, clientVars, running>>
PublishThrows == Pipeline!PublishThrows /\ Client!PublishThrows

IngestThread == Pipeline!Ingest /\ UNCHANGED clientVars
TransformThread == Pipeline!Transform /\ UNCHANGED clientVars
PublishPop == Pipeline!PublishPop /\ UNCHANGED clientVars
PublishThread == PublishPop \/ PublishAccepted \/ PublishThrows

(* init(): the threads run already when the callback is set and connect()  *)
(* is called.                                                              *)
MainThread == Client!MainThread /\ UNCHANGED pipelineVars
CallbackThread == Client!Callback /\ UNCHANGED pipelineVars
ConnectionLost == Client!ConnectionLost /\ UNCHANGED pipelineVars
Write == Client!Write /\ UNCHANGED pipelineVars
Broker == Client!Broker /\ UNCHANGED pipelineVars
Acknowledged == Client!Acknowledged /\ UNCHANGED pipelineVars

Next ==
    \/ MessageArrived \/ MalformedMessageArrived
    \/ IngestThread \/ TransformThread \/ PublishThread
    \/ MainThread \/ CallbackThread \/ ConnectionLost
    \/ Write \/ Broker \/ Acknowledged

Fairness ==
    /\ WF_vars(IngestThread) /\ WF_vars(TransformThread) /\ WF_vars(PublishThread)
    /\ WF_vars(MainThread) /\ WF_vars(CallbackThread)
    /\ WF_vars(Write) /\ WF_vars(Broker) /\ WF_vars(Acknowledged)
Safety == Init /\ [][Next]_vars
Spec == Safety /\ Fairness

-----------------------------------------------------------------------------
(* What the client calls its n-th message is the n-th that the publisher   *)
(* thread handed to it.                                                    *)
Received == [i \in DOMAIN delivered |-> published[delivered[i]]]

(* The broker receives the deliveries of one lane in the order in which    *)
(* their messages arrived, and none twice, whatever connections are lost.  *)
BrokerLaneOrder ==
    /\ \A i \in DOMAIN delivered : delivered[i] \in DOMAIN published
    /\ Pipeline!Ordered(Received)

(* Only a lost connection makes a delivery vanish: until the broker has it *)
(* it is in a queue of the program, in the hands of a thread, or with the  *)
(* client, between any two of which it could have been forgotten.          *)
WithTheClient(i) == i \in Client!PublishesOf(queued) \cup Client!PublishesOf(wire)
HandedOver(n, k) ==
    \E i \in DOMAIN published :
        /\ published[i].origin = n /\ published[i].route = k
        /\ WithTheClient(i) \/ i \in Range(delivered) \cup dropped
NothingVanishes ==
    \A n \in DOMAIN arrived : \A k \in DOMAIN Pipeline!RoutesOf(arrived[n].topic) :
        \/ Pipeline!InIngest(n, k) \/ Pipeline!InTransform(n, k) \/ Pipeline!InPublish(n, k)
        \/ HandedOver(n, k)

(* Once the connection lasts and unless an exception terminates it, the    *)
(* program relays: every message that arrived reaches the broker along     *)
(* every route of its topic, but for what a lost connection took with it.  *)
Reaches(n, k) ==
    \E i \in DOMAIN published :
        /\ published[i].origin = n /\ published[i].route = k
        /\ i \in Range(delivered) \/ i \in dropped
EveryMessageRelayed ==
    <>[](link = "up" /\ running) =>
        \A n \in 1..MaxMessages : \A t \in DOMAIN Routes : \A k \in DOMAIN Routes[t] :
            (n \in DOMAIN arrived /\ arrived[n].topic = t) ~> Reaches(n, k)

(* "Callback for when the connection is lost.  This will initiate the      *)
(* attempt to manually reconnect": the callback calls connect() again      *)
(* (gaveUp when that call throws).                                         *)
LossIsFollowedByAttempt ==
    (callback = "reconnect") ~> (link = "connecting" \/ gaveUp)

(* The program, with its queues, its threads, its client and its           *)
(* connections hidden, is the service of module Service: what the broker   *)
(* receives it receives once, in its turn and with the output of its       *)
(* chain, and a lost connection takes only what was next.                  *)
TokenOf(x) == [origin |-> x.origin, from |-> x.from, route |-> x.route]
Lost == {TokenOf(published[i]) : i \in dropped}
Promised == INSTANCE Service WITH received <- Received, lost <- Lost
ImplementsService == Promised!Spec
=============================================================================
