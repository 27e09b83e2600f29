----------------------------- MODULE MqttClient -----------------------------
(***************************************************************************)
(* The MQTT client of the program (mqtt_client.h, mqtt_client.cpp), its    *)
(* connection callback (mqtt_client_connection_callback.h) and what they   *)
(* rely on: the asynchronous client library, used without automatic        *)
(* reconnection and with a clean session, and the broker.                  *)
(*                                                                         *)
(* The library runs every callback on one thread, so a callback is a       *)
(* program counter: "idle", "connected" (in its subscription loop) or      *)
(* "reconnect" (asleep before it calls connect again).  A call to the      *)
(* library only queues a command; the library writes queued commands while *)
(* the link is up, the broker processes what is written, and a completed   *)
(* command is acknowledged.  When the connection is lost the clean session *)
(* forgets what is written or processed but not acknowledged; what is      *)
(* still queued is written on the next connection.                         *)
(***************************************************************************)
EXTENDS Naturals, Sequences, FiniteSets, SequencesExt

CONSTANTS
    Subscriptions,  \* number of topics in m_topicsToSubscribe
    MaxMsgIds,      \* message identifiers of the protocol (65535)
    MaxPublishes    \* bound on the messages handed to publish()

ASSUME SubscriptionsAssumption == Subscriptions \in Nat \ {0}
ASSUME MaxMsgIdsAssumption == MaxMsgIds \in Nat \ {0}
ASSUME MaxPublishesAssumption == MaxPublishes \in Nat

VARIABLES
    main,       \* the main thread: "created", "callbackSet" or "connectCalled"
    link,       \* the library's connection: "down", "connecting" or "up"
    callback,   \* the callback thread: "idle", "connected" or "reconnect"
    nextTopic,  \* the subscription loop's next topic
    queued,     \* commands the library has accepted and not written
    wire,       \* commands written that the broker has not processed
    unacked,    \* commands processed that are not acknowledged
    granted,    \* the topics the broker's session is subscribed to
    refused,    \* history: the topics the broker has refused since it connected
    accepted,   \* history: how many messages publish() has accepted
    delivered,  \* history: the messages the broker has received, in order
    dropped,    \* history: the messages a lost connection took with it
    gaveUp,     \* history: a call of connect() threw
    running     \* FALSE once an exception has terminated the process

library == <<queued, wire, unacked>>
session == <<granted, refused>>
history == <<accepted, delivered, dropped, gaveUp>>
vars == <<main, link, callback, nextTopic, library, session, history, running>>

Topics == 1..Subscriptions
Command == [kind: {"subscribe", "publish"}, what: Nat]

Init ==
    /\ main = "created" /\ link = "down" /\ callback = "idle" /\ nextTopic = 1
    /\ queued = << >> /\ wire = << >> /\ unacked = << >>
    /\ granted = {} /\ refused = {}
    /\ accepted = 0 /\ delivered = << >> /\ dropped = {} /\ gaveUp = FALSE
    /\ running = TRUE

(* A command occupies a message identifier until it is acknowledged.       *)
HasMsgId == Len(queued) + Len(wire) + Len(unacked) < MaxMsgIds

-----------------------------------------------------------------------------
(* The main thread: initCallback, then connect, which catches what the     *)
(* library's connect throws.                                               *)
InitCallback ==
    /\ running
    /\ main = "created"
    /\ main' = "callbackSet"
    /\ UNCHANGED <<link, callback, nextTopic, library, session, history, running>>

Connect ==
    /\ running
    /\ main = "callbackSet"
    /\ main' = "connectCalled"
    /\ link' = "connecting"
    /\ UNCHANGED <<callback, nextTopic, library, session, history, running>>

ConnectThrows ==
    /\ running
    /\ main = "callbackSet"
    /\ main' = "connectCalled"
    /\ gaveUp' = TRUE
    /\ UNCHANGED <<link, callback, nextTopic, library, session, running,
                   accepted, delivered, dropped>>

-----------------------------------------------------------------------------
(* The end of an attempt to connect, and the end of a connection.          *)

(* The broker accepts and starts a clean session; connected() is called,   *)
(* and begins with the first topic.  (Here and below, X_Fault is X with a  *)
(* fault in it: not used, it is a mistake a property must reveal.)         *)
FirstTopic_GoesOnWhereItWas == nextTopic
FirstTopic == 1
Established ==
    /\ running
    /\ link = "connecting"
    /\ callback = "idle"
    /\ link' = "up"
    /\ granted' = {}
    /\ refused' = {}
    /\ callback' = IF FirstTopic > Subscriptions THEN "idle" ELSE "connected"
    /\ nextTopic' = FirstTopic
    /\ UNCHANGED <<main, library, history, running>>

(* on_failure: reconnect().                                                *)
AfterFailure_Idle == "idle"
AfterFailure == "reconnect"
OnFailure ==
    /\ running
    /\ link = "connecting"
    /\ callback = "idle"
    /\ link' = "down"
    /\ callback' = AfterFailure
    /\ UNCHANGED <<main, nextTopic, library, session, history, running>>

(* connection_lost: reconnect().  The clean session ends.                  *)
PublishesOf(commands) ==
    {commands[i].what : i \in {j \in DOMAIN commands : commands[j].kind = "publish"}}
ConnectionLost ==
    /\ running
    /\ link = "up"
    /\ callback = "idle"
    /\ link' = "down"
    /\ callback' = "reconnect"
    /\ UNCHANGED queued
    /\ wire' = << >>
    /\ unacked' = << >>
    /\ granted' = {}
    /\ refused' = {}
    /\ dropped' = dropped \cup PublishesOf(wire)
    /\ UNCHANGED <<main, nextTopic, accepted, delivered, gaveUp, running>>

(* reconnect(), after its sleep.                                           *)
AfterConnect_AsBefore == "reconnect"
AfterConnect == "idle"
Reconnect ==
    /\ running
    /\ callback = "reconnect"
    /\ link' = "connecting"
    /\ callback' = AfterConnect
    /\ UNCHANGED <<main, nextTopic, library, session, history, running>>

(* connect() throws: the exception is logged, and nobody tries again.      *)
ReconnectThrows ==
    /\ running
    /\ callback = "reconnect"
    /\ callback' = "idle"
    /\ gaveUp' = TRUE
    /\ UNCHANGED <<main, link, nextTopic, library, session, running,
                   accepted, delivered, dropped>>

-----------------------------------------------------------------------------
(* connected(): one iteration of the loop over m_topicsToSubscribe.  With  *)
(* no message identifier left subscribe() throws out of the callback.      *)
IsLastTopic_OnePast == nextTopic > Subscriptions
IsLastTopic == nextTopic = Subscriptions
Subscribe ==
    /\ running
    /\ callback = "connected"
    /\ HasMsgId
    /\ queued' = Append(queued, [kind |-> "subscribe", what |-> nextTopic])
    /\ nextTopic' = nextTopic + 1
    /\ callback' = IF IsLastTopic THEN "idle" ELSE "connected"
    /\ UNCHANGED <<main, link, wire, unacked, session, history, running>>

SubscribeThrows ==
    /\ running
    /\ callback = "connected"
    /\ ~HasMsgId
    /\ running' = FALSE
    /\ UNCHANGED <<main, link, callback, nextTopic, library, session, history>>

(* publish(), on the publisher thread: the library refuses without a       *)
(* connection or without a message identifier, and publish() lets the      *)
(* exception through.                                                      *)
Accepts == link = "up" /\ HasMsgId
Message(n) == [kind |-> "publish", what |-> n]

Handed_Twice(n) == <<Message(n), Message(n)>>
Handed_UnlessBusy(n) == IF wire = << >> /\ unacked = << >> THEN <<Message(n)>> ELSE << >>
Handed(n) == <<Message(n)>>
Publish ==
    /\ running
    /\ accepted < MaxPublishes
    /\ Accepts
    /\ accepted' = accepted + 1
    /\ queued' = queued \o Handed(accepted + 1)
    /\ UNCHANGED <<main, link, callback, nextTopic, wire, unacked, session,
                   delivered, dropped, gaveUp, running>>

PublishThrows ==
    /\ running
    /\ accepted < MaxPublishes
    /\ ~Accepts
    /\ running' = FALSE
    /\ UNCHANGED <<main, link, callback, nextTopic, library, session, history>>

-----------------------------------------------------------------------------
(* The library writes the oldest queued command.                           *)
Write ==
    /\ running
    /\ link = "up"
    /\ queued # << >>
    /\ wire' = Append(wire, Head(queued))
    /\ queued' = Tail(queued)
    /\ UNCHANGED <<main, link, callback, nextTopic, unacked, session, history, running>>

(* The broker receives a message, grants a subscription or refuses it.     *)
Processes(grants) ==
    /\ running
    /\ link = "up"
    /\ wire # << >>
    /\ wire' = Tail(wire)
    /\ unacked' = Append(unacked, Head(wire))
    /\ LET command == Head(wire)
       IN  IF command.kind = "publish"
           THEN /\ grants
                /\ delivered' = Append(delivered, command.what)
                /\ UNCHANGED session
           ELSE /\ granted' = IF grants THEN granted \cup {command.what} ELSE granted
                /\ refused' = IF grants THEN refused ELSE refused \cup {command.what}
                /\ UNCHANGED delivered
    /\ UNCHANGED <<main, link, callback, nextTopic, queued, accepted,
                   dropped, gaveUp, running>>

(* delivery_complete, or the subscription listener's on_success or         *)
(* on_failure, which only log: a refused subscription is not tried again.  *)
Acknowledged ==
    /\ running
    /\ link = "up"
    /\ callback = "idle"
    /\ \E i \in DOMAIN unacked : unacked' = RemoveAt(unacked, i)
    /\ UNCHANGED <<main, link, callback, nextTopic, queued, wire, session, history, running>>

(* message_arrived may be called for a message that matches this topic.    *)
MayArrive(topic) ==
    /\ running
    /\ link = "up"
    /\ callback = "idle"
    /\ topic \in granted

-----------------------------------------------------------------------------
MainThread == InitCallback \/ Connect \/ ConnectThrows
Callback ==
    Established \/ OnFailure \/ Reconnect \/ ReconnectThrows \/ Subscribe \/ SubscribeThrows
Broker == Processes(TRUE) \/ Processes(FALSE)

Next ==
    \/ MainThread
    \/ Callback
    \/ ConnectionLost
    \/ Publish \/ PublishThrows
    \/ Write
    \/ Broker
    \/ Acknowledged

(* Threads run; an attempt to connect ends one way or the other; and what  *)
(* is written is processed while the connection lasts.                     *)
Fairness ==
    /\ WF_vars(MainThread) /\ WF_vars(Callback)
    /\ WF_vars(Write) /\ WF_vars(Broker) /\ WF_vars(Acknowledged)
Safety == Init /\ [][Next]_vars
Spec == Safety /\ Fairness

-----------------------------------------------------------------------------
(* Every variable has values of its kind.                                  *)
TypeOK ==
    /\ main \in {"created", "callbackSet", "connectCalled"}
    /\ link \in {"down", "connecting", "up"}
    /\ callback \in {"idle", "connected", "reconnect"}
    /\ nextTopic \in 1..(Subscriptions + 1)
    /\ queued \in Seq(Command) /\ wire \in Seq(Command) /\ unacked \in Seq(Command)
    /\ granted \subseteq Topics /\ refused \subseteq Topics
    /\ accepted \in Nat
    /\ delivered \in Seq(Nat)
    /\ dropped \subseteq Nat
    /\ gaveUp \in BOOLEAN /\ running \in BOOLEAN

(* Whoever is about to call connect() finds no connection and no attempt,  *)
(* and is alone: the main thread and the callbacks never make two chains   *)
(* of attempts, of which the library would refuse one.                     *)
OneAttemptAtATime ==
    (callback = "reconnect" \/ main = "callbackSet") =>
        link = "down" /\ ~(callback = "reconnect" /\ main = "callbackSet")

(* Once connect() has been called, a missing connection always has a       *)
(* callback at work on it, unless a call of connect() threw.               *)
RetryChainAlive ==
    (running /\ main = "connectCalled" /\ link = "down" /\ ~gaveUp)
        => callback = "reconnect"

(* A message reaches the broker at most once and after those accepted      *)
(* before it, across every loss of the connection.                         *)
DeliveredInOrder ==
    \A i, j \in DOMAIN delivered : i < j => delivered[i] < delivered[j]

(* No accepted message is forgotten and none is counted twice: it has been *)
(* received, or a lost connection took it, or it is under way.             *)
NoneForgotten ==
    LET underWay == PublishesOf(wire) \cup PublishesOf(queued)
    IN  /\ Range(delivered) \cup dropped \cup underWay = 1..accepted
        /\ Range(delivered) \cap dropped = {}
        /\ (Range(delivered) \cup dropped) \cap underWay = {}

(* The client implements the channel of module Channel: only the oldest    *)
(* messages under way are lost with a connection, and nothing overtakes.   *)
Promised == INSTANCE Channel
ImplementsChannel == Promised!Spec

(* After any number of losses, once the connection lasts, the broker has   *)
(* been asked again for every topic and has answered: the client depends   *)
(* on connected() for it, as a clean session remembers no subscription.    *)
Resubscribed ==
    <>[](link = "up") => (<>[](granted \cup refused = Topics) \/ <>(~running))

(* Once the connection lasts, every accepted message has been received,    *)
(* but for those an earlier connection took with it.                       *)
EventuallyDelivered ==
    <>[](link = "up") =>
        \A n \in 1..MaxPublishes :
            (accepted >= n) ~> (n \in Range(delivered) \/ n \in dropped \/ ~running)
=============================================================================
