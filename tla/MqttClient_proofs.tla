------------------------- MODULE MqttClient_proofs -------------------------
(***************************************************************************)
(* Theorems about the MQTT client, for every number of subscriptions, of   *)
(* message identifiers and of messages, and every sequence of failures and *)
(* losses of the connection.                                               *)
(*                                                                         *)
(* Messages are numbered in the order in which publish() accepts them.     *)
(* The argument is about who has which numbers: what the broker received   *)
(* or a lost connection took is an initial piece of 1..accepted, and what  *)
(* is written and what is queued continue it, in this order.               *)
(***************************************************************************)
EXTENDS MqttClient, FiniteSetTheorems, TLAPS

USE SubscriptionsAssumption, MaxMsgIdsAssumption, MaxPublishesAssumption

(* The commands the program gives: a message, or the number of a topic of  *)
(* m_topicsToSubscribe.                                                    *)
Wellformed == [kind: {"publish"}, what: Nat] \cup [kind: {"subscribe"}, what: Topics]
CommandsInv ==
    /\ queued \in Seq(Wellformed) /\ wire \in Seq(Wellformed)
    /\ callback = "connected" => nextTopic \in Topics

(* Nothing is connected before the main thread calls connect(), and a      *)
(* callback that is at work knows the state of the connection.             *)
ConnectionInv ==
    /\ main # "connectCalled" => link = "down" /\ callback = "idle"
    /\ callback = "reconnect" => link = "down"
    /\ callback = "connected" => link = "up"

(* The messages of which it is known what became of them.                  *)
Settled == Len(delivered) + Cardinality(dropped)
InOrder(commands) ==
    \A i, j \in DOMAIN commands :
        (i < j /\ commands[i].kind = "publish" /\ commands[j].kind = "publish")
            => commands[i].what < commands[j].what
MessagesInv ==
    /\ IsFiniteSet(dropped)
    /\ Range(delivered) \cup dropped = 1..Settled
    /\ Range(delivered) \cap dropped = {}
    /\ DeliveredInOrder
    /\ InOrder(wire) /\ InOrder(queued)
    /\ \E written \in Settled..accepted :
          /\ PublishesOf(wire) = Settled + 1 .. written
          /\ PublishesOf(queued) = written + 1 .. accepted

IInv == TypeOK /\ CommandsInv /\ ConnectionInv /\ RetryChainAlive /\ MessagesInv

-----------------------------------------------------------------------------
(* Queues of commands.                                                     *)
LEMMA Push ==
    ASSUME NEW S, NEW s \in Seq(S), NEW x \in S
    PROVE  Append(s, x) \in Seq(S)
  OBVIOUS

(* The sender of the library takes the oldest command; the others stay.    *)
LEMMA Pop ==
    ASSUME NEW S, NEW s \in Seq(S), s # << >>
    PROVE  Head(s) \in S /\ Tail(s) \in Seq(S)
  OBVIOUS

(* What the broker or the sender reads at a place of a queue is a command. *)
LEMMA ElementOf ==
    ASSUME NEW S, NEW s \in Seq(S), NEW i \in DOMAIN s
    PROVE  s[i] \in S
  OBVIOUS

(* A command taken out of the middle of a queue leaves a queue of commands.*)
LEMMA Removed ==
    ASSUME NEW S, NEW s \in Seq(S), NEW i \in DOMAIN s
    PROVE  RemoveAt(s, i) \in Seq(S)
<1>1. SubSeq(s, 1, i - 1) \in Seq(S) /\ SubSeq(s, i + 1, Len(s)) \in Seq(S)
  OBVIOUS
<1> QED BY <1>1 DEF RemoveAt

(* The commands that publish() and subscribe() queue are commands.         *)
LEMMA WellformedIsCommand == Wellformed \subseteq Command
  BY DEF Wellformed, Command, Topics

(* Every step keeps the variables and the commands of their kinds.         *)
LEMMA TypeStep ==
    ASSUME TypeOK, CommandsInv, [Next]_vars
    PROVE  TypeOK' /\ CommandsInv'
<1> USE DEF library, session, history
<1>1. CASE UNCHANGED vars
  BY <1>1 DEF TypeOK, CommandsInv, vars
<1>2. CASE MainThread
  BY <1>2 DEF TypeOK, CommandsInv, MainThread, InitCallback, Connect, ConnectThrows
<1>3. CASE Established
  BY <1>3 DEF TypeOK, CommandsInv, Established, FirstTopic, Topics
<1>4. CASE OnFailure \/ Reconnect \/ ReconnectThrows
  BY <1>4 DEF TypeOK, CommandsInv, OnFailure, Reconnect, ReconnectThrows,
              AfterFailure, AfterConnect
<1>5. CASE Subscribe
  <2> DEFINE c == [kind |-> "subscribe", what |-> nextTopic]
  <2>1. nextTopic \in Topics
    BY <1>5 DEF CommandsInv, Subscribe
  <2>2. c \in Wellformed /\ c \in Command
    BY <2>1, WellformedIsCommand DEF Wellformed
  <2>3. queued' = Append(queued, c)
    BY <1>5 DEF Subscribe
  <2> HIDE DEF c
  <2>4. queued' \in Seq(Wellformed) /\ queued' \in Seq(Command)
    BY <2>2, <2>3, Push DEF TypeOK, CommandsInv
  <2>5. nextTopic' \in 1..(Subscriptions + 1) /\ (callback' = "connected" => nextTopic' \in Topics)
    BY <1>5, <2>1 DEF Subscribe, IsLastTopic, Topics
  <2> QED BY <1>5, <2>4, <2>5 DEF TypeOK, CommandsInv, Subscribe
<1>6. CASE SubscribeThrows \/ PublishThrows
  <2>1. UNCHANGED <<main, link, callback, nextTopic, library, session, history>>
    BY <1>6 DEF SubscribeThrows, PublishThrows
  <2>2. running' \in BOOLEAN
    BY <1>6 DEF SubscribeThrows, PublishThrows
  <2> QED BY <2>1, <2>2 DEF TypeOK, CommandsInv
<1>7. CASE ConnectionLost
  <2>1. PublishesOf(wire) \subseteq Nat
    <3>1. wire \in Seq(Command)
      BY DEF TypeOK
    <3>2. \A i \in DOMAIN wire : wire[i] \in Command
      BY <3>1, ElementOf
    <3>3. \A i \in DOMAIN wire : wire[i].what \in Nat
      BY <3>2 DEF Command
    <3> QED BY <3>3 DEF PublishesOf
  <2>2. /\ wire' = << >> /\ unacked' = << >> /\ UNCHANGED queued
        /\ dropped' = dropped \cup PublishesOf(wire)
        /\ link' = "down" /\ callback' = "reconnect" /\ granted' = {} /\ refused' = {}
        /\ UNCHANGED <<main, nextTopic, accepted, delivered, gaveUp, running>>
    BY <1>7 DEF ConnectionLost
  <2>3. /\ wire' \in Seq(Command) /\ wire' \in Seq(Wellformed)
        /\ unacked' \in Seq(Command)
    BY <2>2
  <2>4. dropped' \subseteq Nat
    BY <2>1, <2>2 DEF TypeOK
  <2> QED BY <2>2, <2>3, <2>4 DEF TypeOK, CommandsInv
<1>8. CASE Publish
  <2> DEFINE c == [kind |-> "publish", what |-> accepted + 1]
  <2>1. c \in Wellformed /\ c \in Command
    BY DEF Wellformed, Command, TypeOK
  <2>2. queued' = queued \o <<c>>
    BY <1>8 DEF Publish, Handed, Message
  <2> HIDE DEF c
  <2>3. queued' \in Seq(Wellformed) /\ queued' \in Seq(Command)
    BY <2>1, <2>2 DEF TypeOK, CommandsInv
  <2> QED BY <1>8, <2>3 DEF TypeOK, CommandsInv, Publish
<1>9. CASE Write
  <2>1. queued # << >> /\ wire' = Append(wire, Head(queued)) /\ queued' = Tail(queued)
    BY <1>9 DEF Write
  <2>2. Head(queued) \in Wellformed /\ queued' \in Seq(Wellformed) /\ queued' \in Seq(Command)
    BY <2>1, Pop DEF TypeOK, CommandsInv
  <2>3. wire' \in Seq(Wellformed) /\ wire' \in Seq(Command)
    BY <2>1, <2>2, Push, WellformedIsCommand DEF TypeOK, CommandsInv
  <2> QED BY <1>9, <2>2, <2>3 DEF TypeOK, CommandsInv, Write
<1>10. ASSUME NEW grants \in BOOLEAN, Processes(grants)
       PROVE  TypeOK' /\ CommandsInv'
  <2>1. wire # << >> /\ wire' = Tail(wire) /\ unacked' = Append(unacked, Head(wire))
    BY <1>10 DEF Processes
  <2>2. Head(wire) \in Wellformed /\ wire' \in Seq(Wellformed) /\ wire' \in Seq(Command)
    BY <2>1, Pop DEF TypeOK, CommandsInv
  <2>3. unacked' \in Seq(Command)
    BY <2>1, <2>2, Push, WellformedIsCommand DEF TypeOK
  <2>4. delivered' \in Seq(Nat) /\ granted' \subseteq Topics /\ refused' \subseteq Topics
    <3>1. CASE Head(wire).kind = "publish"
      <4>1. Head(wire).what \in Nat
        BY <2>2, <3>1 DEF Wellformed, Topics
      <4>2. delivered' = Append(delivered, Head(wire).what) /\ UNCHANGED session
        BY <1>10, <3>1 DEF Processes
      <4> QED BY <4>1, <4>2, Push DEF TypeOK
    <3>2. CASE Head(wire).kind # "publish"
      <4>1. Head(wire).what \in Topics
        BY <2>2, <3>2 DEF Wellformed
      <4>2. /\ granted' = granted \/ granted' = granted \cup {Head(wire).what}
            /\ refused' = refused \/ refused' = refused \cup {Head(wire).what}
            /\ delivered' = delivered
        BY <1>10, <3>2 DEF Processes
      <4> QED BY <4>1, <4>2 DEF TypeOK
    <3> QED BY <3>1, <3>2
  <2>5. UNCHANGED <<main, link, callback, nextTopic, queued, accepted, dropped,
                    gaveUp, running>>
    BY <1>10 DEF Processes
  <2> QED BY <2>2, <2>3, <2>4, <2>5 DEF TypeOK, CommandsInv
<1>11. CASE Acknowledged
  <2>1. PICK i \in DOMAIN unacked : unacked' = RemoveAt(unacked, i)
    BY <1>11 DEF Acknowledged
  <2>2. unacked' \in Seq(Command)
    BY <2>1, Removed DEF TypeOK
  <2>3. UNCHANGED <<main, link, callback, nextTopic, queued, wire, session, history, running>>
    BY <1>11 DEF Acknowledged
  <2> QED BY <2>2, <2>3 DEF TypeOK, CommandsInv
<1> QED
  BY <1>1, <1>2, <1>3, <1>4, <1>5, <1>6, <1>7, <1>8, <1>9, <1>10, <1>11
  DEF Next, Callback, Broker

-----------------------------------------------------------------------------
(* The connection and the callback thread agree after every step.          *)
LEMMA ConnectionStep ==
    ASSUME TypeOK, ConnectionInv, RetryChainAlive, [Next]_vars
    PROVE  ConnectionInv' /\ RetryChainAlive'
<1> USE DEF ConnectionInv, RetryChainAlive
<1>1. CASE UNCHANGED vars
  BY <1>1 DEF vars, history
<1>2. CASE MainThread
  BY <1>2 DEF MainThread, InitCallback, Connect, ConnectThrows, history
<1>3. CASE Established \/ OnFailure
  BY <1>3 DEF Established, OnFailure, AfterFailure, history
<1>4. CASE Reconnect \/ ReconnectThrows
  BY <1>4 DEF Reconnect, ReconnectThrows, AfterConnect, history
<1>5. CASE Subscribe \/ SubscribeThrows
  BY <1>5 DEF Subscribe, SubscribeThrows, history
<1>6. CASE ConnectionLost
  BY <1>6 DEF ConnectionLost
<1>7. CASE Publish \/ PublishThrows \/ Write
  BY <1>7 DEF Publish, PublishThrows, Write, history
<1>8. ASSUME NEW grants \in BOOLEAN, Processes(grants)
      PROVE  ConnectionInv' /\ RetryChainAlive'
  BY <1>8 DEF Processes
<1>9. CASE Acknowledged
  BY <1>9 DEF Acknowledged, history
<1> QED
  BY <1>1, <1>2, <1>3, <1>4, <1>5, <1>6, <1>7, <1>8, <1>9 DEF Next, Callback, Broker

-----------------------------------------------------------------------------
(* The numbers of the messages in a queue, when a command is pushed on it. *)
LEMMA NumbersOfPush ==
    ASSUME NEW s \in Seq(Command), NEW c \in Command
    PROVE  PublishesOf(Append(s, c)) =
              PublishesOf(s) \cup (IF c.kind = "publish" THEN {c.what} ELSE {})
<1>1. DOMAIN Append(s, c) = DOMAIN s \cup {Len(s) + 1}
  OBVIOUS
<1>2. \A i \in DOMAIN s : Append(s, c)[i] = s[i]
  OBVIOUS
<1>3. Append(s, c)[Len(s) + 1] = c
  OBVIOUS
<1> QED BY <1>1, <1>2, <1>3 DEF PublishesOf

(* The same when the oldest command is popped from it.                     *)
LEMMA NumbersOfPop ==
    ASSUME NEW s \in Seq(Command), s # << >>
    PROVE  PublishesOf(s) =
              PublishesOf(Tail(s)) \cup
                 (IF Head(s).kind = "publish" THEN {Head(s).what} ELSE {})
<1>1. DOMAIN Tail(s) = 1..(Len(s) - 1) /\ DOMAIN s = 1..Len(s) /\ Len(s) >= 1
  OBVIOUS
<1>2. \A i \in DOMAIN Tail(s) : Tail(s)[i] = s[i + 1] /\ i + 1 \in DOMAIN s
  BY <1>1
<1>3. Head(s) = s[1] /\ 1 \in DOMAIN s
  BY <1>1
<1>4. \A i \in DOMAIN s : i # 1 => i - 1 \in DOMAIN Tail(s) /\ Tail(s)[i - 1] = s[i]
  BY <1>1, <1>2
<1>5. ASSUME NEW n \in PublishesOf(s)
      PROVE  n \in PublishesOf(Tail(s)) \/ (Head(s).kind = "publish" /\ n = Head(s).what)
  <2>1. PICK i \in DOMAIN s : s[i].kind = "publish" /\ n = s[i].what
    BY DEF PublishesOf
  <2>2. CASE i = 1
    BY <1>3, <2>1, <2>2
  <2>3. CASE i # 1
    BY <1>4, <2>1, <2>3 DEF PublishesOf
  <2> QED BY <2>2, <2>3
<1>6. PublishesOf(Tail(s)) \subseteq PublishesOf(s)
  BY <1>2 DEF PublishesOf
<1>7. Head(s).kind = "publish" => Head(s).what \in PublishesOf(s)
  BY <1>3 DEF PublishesOf
<1> QED BY <1>5, <1>6, <1>7

(* A queue stays in order when the new message is the latest.              *)
LEMMA InOrderPush ==
    ASSUME NEW s \in Seq(Command), NEW c \in Command, InOrder(s),
           c.kind = "publish" => \A n \in PublishesOf(s) : n < c.what
    PROVE  InOrder(Append(s, c))
<1> SUFFICES ASSUME NEW i \in DOMAIN Append(s, c), NEW j \in DOMAIN Append(s, c), i < j,
                    Append(s, c)[i].kind = "publish", Append(s, c)[j].kind = "publish"
             PROVE  Append(s, c)[i].what < Append(s, c)[j].what
  BY DEF InOrder
<1>1. i \in DOMAIN s /\ Append(s, c)[i] = s[i]
  OBVIOUS
<1>2. CASE j \in DOMAIN s
  <2>1. Append(s, c)[j] = s[j]
    BY <1>2
  <2> QED BY <1>1, <1>2, <2>1 DEF InOrder
<1>3. CASE j \notin DOMAIN s
  <2>1. Append(s, c)[j] = c
    BY <1>3
  <2>2. s[i].what \in PublishesOf(s)
    BY <1>1 DEF PublishesOf
  <2> QED BY <1>1, <2>1, <2>2
<1> QED BY <1>2, <1>3

(* A queue in order that holds the messages a..b has a, and no other, at   *)
(* its head when that is a message.                                        *)
LEMMA OldestFirst ==
    ASSUME NEW s \in Seq(Command), s # << >>, InOrder(s),
           NEW a \in Nat, NEW b \in Nat, PublishesOf(s) = a..b
    PROVE  /\ InOrder(Tail(s))
           /\ Head(s).kind = "publish" =>
                 /\ Head(s).what = a /\ a <= b
                 /\ PublishesOf(Tail(s)) = a + 1 .. b
           /\ Head(s).kind # "publish" => PublishesOf(Tail(s)) = a..b
<1>1. DOMAIN Tail(s) = 1..(Len(s) - 1) /\ DOMAIN s = 1..Len(s) /\ Len(s) >= 1
  OBVIOUS
<1>2. \A i \in DOMAIN Tail(s) :
         Tail(s)[i] = s[i + 1] /\ i + 1 \in DOMAIN s /\ i \in Nat /\ 1 < i + 1
  BY <1>1
<1>3. Head(s) = s[1] /\ 1 \in DOMAIN s
  BY <1>1
<1>4. InOrder(Tail(s))
  <2> SUFFICES ASSUME NEW i \in DOMAIN Tail(s), NEW j \in DOMAIN Tail(s), i < j,
                      Tail(s)[i].kind = "publish", Tail(s)[j].kind = "publish"
               PROVE  Tail(s)[i].what < Tail(s)[j].what
    BY DEF InOrder
  <2>1. i + 1 < j + 1
    BY <1>1
  <2> QED BY <1>2, <2>1 DEF InOrder
<1>5. ASSUME Head(s).kind = "publish"
      PROVE  /\ Head(s).what = a /\ a <= b
             /\ PublishesOf(Tail(s)) = a + 1 .. b
  <2>1. PublishesOf(Tail(s)) \cup {Head(s).what} = a..b
    BY <1>5, NumbersOfPop
  <2>2. ASSUME NEW n \in PublishesOf(Tail(s))
        PROVE  Head(s).what < n
    <3>1. PICK i \in DOMAIN Tail(s) : Tail(s)[i].kind = "publish" /\ n = Tail(s)[i].what
      BY DEF PublishesOf
    <3> QED BY <1>2, <1>3, <1>5, <3>1 DEF InOrder
  <2> DEFINE h == Head(s).what
             rest == PublishesOf(Tail(s))
  <2> HIDE DEF h, rest
  <2>3. rest \cup {h} = a..b /\ \A n \in rest : h < n
    BY <2>1, <2>2 DEF h, rest
  <2>4. h \in a..b /\ a <= b /\ a \in a..b
    BY <2>3
  <2>5. h = a
    <3>1. a \in rest \/ a = h
      BY <2>3, <2>4
    <3>2. a \in rest => h < a
      BY <2>3
    <3> QED BY <2>4, <3>1, <3>2
  <2>6. rest = a + 1 .. b
    <3>1. \A n \in rest : n \in a + 1 .. b
      BY <2>3, <2>5
    <3>2. \A n \in a + 1 .. b : n \in a..b /\ n # h
      BY <2>5
    <3> QED BY <2>3, <3>1, <3>2
  <2> QED BY <2>4, <2>5, <2>6 DEF h, rest
<1>6. Head(s).kind # "publish" => PublishesOf(Tail(s)) = a..b
  BY NumbersOfPop
<1> QED BY <1>4, <1>5, <1>6

(* What has been received when one more message has.                       *)
LEMMA Received ==
    ASSUME NEW S, NEW s \in Seq(S), NEW x \in S
    PROVE  Range(Append(s, x)) = Range(s) \cup {x}
<1>1. DOMAIN Append(s, x) = DOMAIN s \cup {Len(s) + 1}
  OBVIOUS
<1>2. \A i \in DOMAIN s : Append(s, x)[i] = s[i]
  OBVIOUS
<1>3. Append(s, x)[Len(s) + 1] = x
  OBVIOUS
<1> QED BY <1>1, <1>2, <1>3 DEF Range

(* The numbers are natural ones.                                           *)
LEMMA SettledIsNat ==
    ASSUME TypeOK, MessagesInv
    PROVE  Settled \in Nat /\ Cardinality(dropped) \in Nat /\ Len(delivered) \in Nat
<1>1. Cardinality(dropped) \in Nat
  BY FS_CardinalityType DEF MessagesInv
<1>2. Len(delivered) \in Nat
  BY DEF TypeOK
<1> QED BY <1>1, <1>2 DEF Settled

(* A publish command that the library writes, or the broker processes, is  *)
(* the one with the next number.                                           *)
LEMMA MessagesStep ==
    ASSUME TypeOK, MessagesInv, [Next]_vars
    PROVE  MessagesInv'
<1>1. ASSUME UNCHANGED <<queued, wire, accepted, delivered, dropped>>
      PROVE  MessagesInv'
  BY <1>1 DEF MessagesInv, Settled, DeliveredInOrder
<1>2. CASE \/ UNCHANGED vars
           \/ MainThread
           \/ Established \/ OnFailure \/ Reconnect \/ ReconnectThrows \/ SubscribeThrows
           \/ PublishThrows \/ Acknowledged
  <2>1. UNCHANGED <<queued, wire, accepted, delivered, dropped>>
    BY <1>2 DEF vars, MainThread, InitCallback, Connect, ConnectThrows, Established,
                OnFailure, Reconnect, ReconnectThrows, SubscribeThrows, PublishThrows,
                Acknowledged, library, history
  <2> QED BY <1>1, <2>1
<1>3. PICK written \in Settled..accepted :
         /\ PublishesOf(wire) = Settled + 1 .. written
         /\ PublishesOf(queued) = written + 1 .. accepted
  BY DEF MessagesInv
<1>4. /\ Settled \in Nat /\ Cardinality(dropped) \in Nat /\ Len(delivered) \in Nat
      /\ accepted \in Nat /\ written \in Nat /\ Settled <= written /\ written <= accepted
  BY <1>3, SettledIsNat DEF TypeOK
<1>5. queued \in Seq(Command) /\ wire \in Seq(Command) /\ delivered \in Seq(Nat)
  BY DEF TypeOK
<1>6. CASE Subscribe
  <2>0. PICK c : c = [kind |-> "subscribe", what |-> nextTopic]
    OBVIOUS
  <2>1. c \in Command /\ c.kind # "publish"
    BY <2>0 DEF TypeOK, Command
  <2>2. queued' = Append(queued, c) /\ UNCHANGED <<wire, accepted, delivered, dropped>>
    BY <1>6, <2>0 DEF Subscribe, history
  <2>3. PublishesOf(queued') = PublishesOf(queued)
    BY <1>5, <2>1, <2>2, NumbersOfPush
  <2>4. InOrder(queued')
    BY <1>5, <2>1, <2>2, InOrderPush DEF MessagesInv
  <2> QED BY <1>3, <2>2, <2>3, <2>4 DEF MessagesInv, Settled, DeliveredInOrder
<1>7. CASE Publish
  <2>0. PICK c : c = [kind |-> "publish", what |-> accepted + 1]
    OBVIOUS
  <2>1. c \in Command /\ c.kind = "publish" /\ c.what = accepted + 1
    BY <1>4, <2>0 DEF Command
  <2>2. /\ queued' = queued \o <<c>> /\ accepted' = accepted + 1
        /\ UNCHANGED <<wire, delivered, dropped>>
    BY <1>7, <2>0 DEF Publish, Handed, Message
  <2>3. queued' = Append(queued, c)
    BY <1>5, <2>1, <2>2
  <2>4. PublishesOf(queued') = written + 1 .. accepted'
    <3>1. PublishesOf(queued') = (written + 1 .. accepted) \cup {accepted + 1}
      BY <1>3, <1>5, <2>1, <2>3, NumbersOfPush
    <3>2. (written + 1 .. accepted) \cup {accepted + 1} = written + 1 .. accepted + 1
      BY <1>4
    <3> QED BY <2>2, <3>1, <3>2
  <2>5. InOrder(queued')
    <3>1. \A n \in PublishesOf(queued) : n < c.what
      BY <1>3, <1>4, <2>1
    <3> QED BY <1>5, <2>1, <2>3, <3>1, InOrderPush DEF MessagesInv
  <2>6. written \in Settled..accepted'
    BY <1>4, <2>2
  <2> QED BY <1>3, <2>2, <2>4, <2>5, <2>6 DEF MessagesInv, Settled, DeliveredInOrder
<1>8. CASE Write
  <2>1. /\ queued # << >> /\ wire' = Append(wire, Head(queued)) /\ queued' = Tail(queued)
        /\ UNCHANGED <<accepted, delivered, dropped>>
    BY <1>8 DEF Write, history
  <2>2. Head(queued) \in Command
    BY <1>5, <2>1, Pop
  <2>3. /\ InOrder(queued')
        /\ Head(queued).kind = "publish" =>
              /\ Head(queued).what = written + 1 /\ written + 1 <= accepted
              /\ PublishesOf(queued') = written + 1 + 1 .. accepted
        /\ Head(queued).kind # "publish" => PublishesOf(queued') = written + 1 .. accepted
    BY <1>3, <1>4, <1>5, <2>1, OldestFirst DEF MessagesInv
  <2>4. InOrder(wire')
    <3>1. Head(queued).kind = "publish" =>
             \A n \in PublishesOf(wire) : n < Head(queued).what
      BY <1>3, <1>4, <2>3
    <3> QED BY <1>5, <2>1, <2>2, <3>1, InOrderPush DEF MessagesInv
  <2>5. \E w \in Settled..accepted :
           /\ PublishesOf(wire') = Settled + 1 .. w
           /\ PublishesOf(queued') = w + 1 .. accepted
    <3>1. CASE Head(queued).kind = "publish"
      <4>1. PublishesOf(wire') = (Settled + 1 .. written) \cup {written + 1}
        BY <1>3, <1>5, <2>1, <2>2, <2>3, <3>1, NumbersOfPush
      <4>2. (Settled + 1 .. written) \cup {written + 1} = Settled + 1 .. written + 1
        BY <1>4
      <4>3. written + 1 \in Settled..accepted
        BY <1>4, <2>3, <3>1
      <4> QED BY <2>3, <3>1, <4>1, <4>2, <4>3
    <3>2. CASE Head(queued).kind # "publish"
      <4>1. PublishesOf(wire') = PublishesOf(wire)
        BY <1>5, <2>1, <2>2, <3>2, NumbersOfPush
      <4> QED BY <1>3, <2>3, <3>2, <4>1
    <3> QED BY <3>1, <3>2
  <2>6. Settled' = Settled
    BY <2>1 DEF Settled
  <2> QED BY <2>1, <2>3, <2>4, <2>5, <2>6 DEF MessagesInv, DeliveredInOrder
<1>9. CASE ConnectionLost
  <2>1. /\ wire' = << >> /\ dropped' = dropped \cup (Settled + 1 .. written)
        /\ UNCHANGED <<queued, accepted, delivered>>
    BY <1>3, <1>9 DEF ConnectionLost
  <2>2. /\ IsFiniteSet(dropped) /\ dropped \subseteq 1..Settled
        /\ Range(delivered) \subseteq 1..Settled
    BY DEF MessagesInv
  <2>3. /\ IsFiniteSet(Settled + 1 .. written)
        /\ Cardinality(Settled + 1 .. written) = written - Settled
    <3>1. Settled + 1 \in Int /\ written \in Int
      BY <1>4
    <3>2. /\ IsFiniteSet(Settled + 1 .. written)
          /\ Cardinality(Settled + 1 .. written)
                = IF Settled + 1 > written THEN 0 ELSE written - (Settled + 1) + 1
      BY <3>1, FS_Interval
    <3> QED BY <1>4, <3>2
  <2>4. dropped \cap (Settled + 1 .. written) = {}
    BY <1>4, <2>2
  <2>5. IsFiniteSet(dropped') /\ Cardinality(dropped') = Cardinality(dropped) + (written - Settled)
    <3>1. /\ IsFiniteSet(dropped')
          /\ Cardinality(dropped') = Cardinality(dropped) + Cardinality(Settled + 1 .. written)
                - Cardinality(dropped \cap (Settled + 1 .. written))
      BY <2>1, <2>2, <2>3, FS_Union
    <3>2. Cardinality(dropped \cap (Settled + 1 .. written)) = 0
      BY <2>4, FS_EmptySet
    <3> QED BY <1>4, <2>3, <3>1, <3>2
  <2>6. Settled' = written
    BY <1>4, <2>1, <2>5 DEF Settled
  <2>7. Range(delivered) \cup dropped' = 1..written
    <3>1. 1..Settled \cup (Settled + 1 .. written) = 1..written
      BY <1>4
    <3> QED BY <2>1, <3>1 DEF MessagesInv
  <2>8. Range(delivered) \cap dropped' = {}
    <3>1. Range(delivered) \cap (Settled + 1 .. written) = {}
      BY <1>4, <2>2
    <3> QED BY <2>1, <3>1 DEF MessagesInv
  <2>9. InOrder(wire') /\ PublishesOf(wire') = {}
    BY <2>1 DEF InOrder, PublishesOf
  <2>10. written + 1 .. written = {} /\ written \in written..accepted
    BY <1>4
  <2> QED BY <1>3, <2>1, <2>5, <2>6, <2>7, <2>8, <2>9, <2>10 DEF MessagesInv, DeliveredInOrder
<1>10. ASSUME NEW grants \in BOOLEAN, Processes(grants)
       PROVE  MessagesInv'
  <2>1. wire # << >> /\ wire' = Tail(wire) /\ UNCHANGED <<queued, accepted, dropped>>
    BY <1>10 DEF Processes
  <2>2. /\ InOrder(wire')
        /\ Head(wire).kind = "publish" =>
              /\ Head(wire).what = Settled + 1 /\ Settled + 1 <= written
              /\ PublishesOf(wire') = Settled + 1 + 1 .. written
        /\ Head(wire).kind # "publish" => PublishesOf(wire') = Settled + 1 .. written
    BY <1>3, <1>4, <1>5, <2>1, OldestFirst DEF MessagesInv
  <2>3. CASE Head(wire).kind = "publish"
    <3>1. delivered' = Append(delivered, Settled + 1)
      BY <1>10, <2>2, <2>3 DEF Processes
    <3>2. Range(delivered') = Range(delivered) \cup {Settled + 1}
      BY <1>4, <1>5, <3>1, Received
    <3>3. Settled' = Settled + 1
      BY <1>4, <1>5, <2>1, <3>1 DEF Settled
    <3>4. Range(delivered') \cup dropped' = 1..Settled'
      BY <1>4, <2>1, <3>2, <3>3 DEF MessagesInv
    <3>5. Range(delivered') \cap dropped' = {}
      BY <1>4, <2>1, <3>2 DEF MessagesInv
    <3>6. DeliveredInOrder'
      <4>1. \A i \in DOMAIN delivered : delivered[i] \in 1..Settled
        BY DEF MessagesInv, Range
      <4>2. DOMAIN delivered' = 1..(Len(delivered) + 1) /\ DOMAIN delivered = 1..Len(delivered)
        BY <1>4, <1>5, <3>1
      <4>3. /\ \A i \in DOMAIN delivered : delivered'[i] = delivered[i]
            /\ delivered'[Len(delivered) + 1] = Settled + 1
        BY <1>4, <1>5, <3>1
      <4>4. ASSUME NEW i \in DOMAIN delivered', NEW j \in DOMAIN delivered', i < j
            PROVE  delivered'[i] < delivered'[j]
        <5>1. i \in DOMAIN delivered
          BY <1>4, <4>2, <4>4
        <5>2. CASE j \in DOMAIN delivered
          BY <4>3, <4>4, <5>1, <5>2 DEF MessagesInv, DeliveredInOrder
        <5>3. CASE j \notin DOMAIN delivered
          <6>1. j = Len(delivered) + 1
            BY <1>4, <4>2, <5>3
          <6> QED BY <1>4, <4>1, <4>3, <5>1, <6>1
        <5> QED BY <5>2, <5>3
      <4> QED BY <4>4 DEF DeliveredInOrder
    <3>7. /\ written \in Settled'..accepted'
          /\ PublishesOf(wire') = Settled' + 1 .. written
          /\ PublishesOf(queued') = written + 1 .. accepted'
      BY <1>3, <1>4, <2>1, <2>2, <2>3, <3>3
    <3> QED BY <2>1, <2>2, <3>4, <3>5, <3>6, <3>7 DEF MessagesInv
  <2>4. CASE Head(wire).kind # "publish"
    <3>1. UNCHANGED delivered
      BY <1>10, <2>4 DEF Processes
    <3> QED BY <1>3, <2>1, <2>2, <2>4, <3>1 DEF MessagesInv, Settled, DeliveredInOrder
  <2> QED BY <2>3, <2>4
<1> QED
  BY <1>2, <1>6, <1>7, <1>8, <1>9, <1>10 DEF Next, Callback, Broker

(* At the start nothing is under way, and every step of the client keeps   *)
(* the numbers where they should be.                                       *)
LEMMA ClientInit ==
    ASSUME Init
    PROVE  IInv
<1>1. TypeOK /\ CommandsInv
  <2>1. /\ queued \in Seq(Command) /\ wire \in Seq(Command) /\ unacked \in Seq(Command)
        /\ queued \in Seq(Wellformed) /\ wire \in Seq(Wellformed) /\ delivered \in Seq(Nat)
    BY DEF Init
  <2>2. nextTopic \in 1..(Subscriptions + 1) /\ accepted \in Nat
    BY DEF Init
  <2> QED BY <2>1, <2>2 DEF Init, TypeOK, CommandsInv
<1>2. ConnectionInv /\ RetryChainAlive
  BY DEF Init, ConnectionInv, RetryChainAlive
<1>3. MessagesInv
  <2>1. IsFiniteSet(dropped) /\ Cardinality(dropped) = 0 /\ Range(delivered) = {} /\ Settled = 0
    BY FS_EmptySet DEF Init, Range, Settled
  <2>2. PublishesOf(wire) = {} /\ PublishesOf(queued) = {} /\ InOrder(wire) /\ InOrder(queued)
    BY DEF Init, PublishesOf, InOrder
  <2>3. 0 \in 0..0 /\ 0 + 1 .. 0 = {} /\ 1..0 = {}
    OBVIOUS
  <2> QED BY <2>1, <2>2, <2>3 DEF Init, MessagesInv, DeliveredInOrder
<1> QED BY <1>1, <1>2, <1>3 DEF IInv

(* Every callback, call and step of the library keeps the whole invariant. *)
LEMMA ClientStep ==
    ASSUME IInv, [Next]_vars
    PROVE  IInv'
  BY TypeStep, ConnectionStep, MessagesStep DEF IInv

(* An exception on a thread that is not the client's ends the process and  *)
(* leaves the client as it is.                                             *)
LEMMA ProcessStops ==
    ASSUME IInv, running' \in BOOLEAN, running' => running,
           UNCHANGED <<main, link, callback, nextTopic, library, session, history>>
    PROVE  IInv'
<1> USE DEF IInv, library, session, history
<1>1. TypeOK' /\ CommandsInv'
  BY DEF TypeOK, CommandsInv
<1>2. ConnectionInv' /\ RetryChainAlive'
  BY DEF ConnectionInv, RetryChainAlive
<1>3. MessagesInv'
  BY DEF MessagesInv, Settled, DeliveredInOrder
<1> QED BY <1>1, <1>2, <1>3

(* The numbers under way continue those that are settled, in every         *)
(* reachable state.                                                        *)
THEOREM ClientInvariant == Safety => []IInv
<1>1. Init => IInv
  BY ClientInit
<1>2. IInv /\ [Next]_vars => IInv'
  BY ClientStep
<1> QED BY <1>1, <1>2, PTL DEF Safety

(* Every variable of the client has values of its kind.                    *)
THEOREM ClientTypeCorrect == Safety => []TypeOK
<1>1. IInv => TypeOK
  BY DEF IInv
<1> QED BY <1>1, ClientInvariant, PTL

(* Whoever calls connect() finds no connection and no attempt, and there   *)
(* is only one: the library never refuses a second chain of attempts.      *)
THEOREM OneChainOfAttempts == Safety => []OneAttemptAtATime
<1>1. IInv => OneAttemptAtATime
  BY DEF IInv, ConnectionInv, OneAttemptAtATime
<1> QED BY <1>1, ClientInvariant, PTL

(* Unless a call of connect() has thrown, a connection that is missing has *)
(* a callback at work on it.                                               *)
THEOREM SomebodyReconnects == Safety => []RetryChainAlive
<1>1. IInv => RetryChainAlive
  BY DEF IInv
<1> QED BY <1>1, ClientInvariant, PTL

(* The broker receives no message twice and none after a later one,        *)
(* whatever connections are lost in between.                               *)
THEOREM BrokerReceivesInOrder == Safety => []DeliveredInOrder
<1>1. IInv => DeliveredInOrder
  BY DEF IInv, MessagesInv
<1> QED BY <1>1, ClientInvariant, PTL

(* The settled, written and queued messages are all that were accepted.    *)
LEMMA NumbersAreAll ==
    ASSUME IInv
    PROVE  NoneForgotten
<1>1. PICK written \in Settled..accepted :
         /\ PublishesOf(wire) = Settled + 1 .. written
         /\ PublishesOf(queued) = written + 1 .. accepted
  BY DEF IInv, MessagesInv
<1>2. /\ Settled \in Nat /\ accepted \in Nat /\ written \in Nat
      /\ Settled <= written /\ written <= accepted
  BY <1>1, SettledIsNat DEF IInv, TypeOK
<1>3. PublishesOf(wire) \cup PublishesOf(queued) = Settled + 1 .. accepted
  BY <1>1, <1>2
<1>4. /\ 1..Settled \cup (Settled + 1 .. accepted) = 1..accepted
      /\ 1..Settled \cap (Settled + 1 .. accepted) = {}
  BY <1>2
<1> QED BY <1>3, <1>4 DEF IInv, MessagesInv, NoneForgotten

(* Every accepted message has been received, was lost with a connection,   *)
(* or is under way, and only one of these.                                 *)
THEOREM EveryMessageAccounted == Safety => []NoneForgotten
<1>1. IInv => NoneForgotten
  BY NumbersAreAll
<1> QED BY <1>1, ClientInvariant, PTL

-----------------------------------------------------------------------------
(* The oldest message under way is the one after those that are settled.   *)
LEMMA OldestUnderWay == Promised!Oldest = Settled + 1
<1>1. Promised!Cardinality(dropped) = Cardinality(dropped)
  BY DEF Promised!Cardinality, Cardinality
<1> QED BY <1>1 DEF Promised!Oldest, Settled

(* What a lost connection takes with it is what was written, and that is   *)
(* nothing, or the oldest of the messages under way.                       *)
LEMMA LostAreOldest ==
    ASSUME IInv, ConnectionLost
    PROVE  \E written \in Settled..accepted :
              /\ dropped' = dropped \cup (Settled + 1 .. written)
              /\ UNCHANGED <<accepted, delivered, running>>
<1>1. PICK written \in Settled..accepted : PublishesOf(wire) = Settled + 1 .. written
  BY DEF IInv, MessagesInv
<1> QED BY <1>1 DEF ConnectionLost

(* The broker receives the oldest message under way, or answers something  *)
(* else.                                                                   *)
LEMMA ReceivedIsOldest ==
    ASSUME IInv, NEW grants \in BOOLEAN, Processes(grants)
    PROVE  /\ UNCHANGED <<accepted, dropped, running>>
           /\ \/ UNCHANGED delivered
              \/ Settled + 1 <= accepted /\ delivered' = Append(delivered, Settled + 1)
<1>1. PICK written \in Settled..accepted : PublishesOf(wire) = Settled + 1 .. written
  BY DEF IInv, MessagesInv
<1>2. Settled \in Nat /\ accepted \in Nat /\ written \in Nat
  BY <1>1, SettledIsNat DEF IInv, TypeOK
<1>3. wire \in Seq(Command) /\ wire # << >> /\ InOrder(wire)
  BY DEF IInv, TypeOK, MessagesInv, Processes
<1>4. Head(wire).kind = "publish" => Head(wire).what = Settled + 1 /\ Settled + 1 <= written
  BY <1>1, <1>2, <1>3, OldestFirst
<1>5. UNCHANGED <<accepted, dropped, running>>
  BY DEF Processes
<1>6. CASE Head(wire).kind = "publish"
  <2>1. delivered' = Append(delivered, Settled + 1)
    BY <1>4, <1>6 DEF Processes
  <2>2. Settled + 1 <= accepted
    BY <1>1, <1>2, <1>4, <1>6
  <2> QED BY <1>5, <2>1, <2>2
<1>7. CASE Head(wire).kind # "publish"
  <2>1. UNCHANGED delivered
    BY <1>7 DEF Processes
  <2> QED BY <1>5, <2>1
<1> QED BY <1>6, <1>7

(* The client, with its queues, its connections and its callbacks hidden,  *)
(* is the channel of module Channel: messages reach the broker once and in *)
(* order, and only the oldest under way are lost with a connection.        *)
THEOREM ClientImplementsChannel == Safety => ImplementsChannel
<1>1. Init => Promised!Init
  BY DEF Init, Promised!Init
<1>2. IInv /\ [Next]_vars => [Promised!Next]_(Promised!vars)
  <2> SUFFICES ASSUME IInv, [Next]_vars PROVE [Promised!Next]_(Promised!vars)
    OBVIOUS
  <2> USE DEF Promised!Next, Promised!vars
  <2>1. CASE Publish
    <3>1. running /\ Promised!Accept
      BY <2>1 DEF Publish, Promised!Accept
    <3> QED BY <3>1
  <2>2. CASE ConnectionLost
    <3>1. PICK written \in Settled..accepted :
             /\ dropped' = dropped \cup (Settled + 1 .. written)
             /\ UNCHANGED <<accepted, delivered, running>>
      BY <2>2, LostAreOldest
    <3>2. running /\ Settled \in Nat /\ accepted \in Nat /\ Promised!Oldest = Settled + 1
      BY <2>2, SettledIsNat, OldestUnderWay DEF ConnectionLost, IInv, TypeOK
    <3>3. CASE written = Settled
      <4>1. Settled + 1 .. written = {}
        BY <3>2, <3>3
      <4> QED BY <3>1, <4>1
    <3>4. CASE written # Settled
      <4>1. written \in Promised!Oldest..accepted
        BY <3>1, <3>2, <3>4
      <4> QED BY <3>1, <3>2, <4>1 DEF Promised!Lose
    <3> QED BY <3>3, <3>4
  <2>3. ASSUME NEW grants \in BOOLEAN, Processes(grants)
        PROVE  [Promised!Next]_(Promised!vars)
    <3>1. running
      BY <2>3 DEF Processes
    <3>2. /\ UNCHANGED <<accepted, dropped, running>>
          /\ \/ UNCHANGED delivered
             \/ Settled + 1 <= accepted /\ delivered' = Append(delivered, Settled + 1)
      BY <2>3, ReceivedIsOldest
    <3> QED BY <3>1, <3>2, OldestUnderWay DEF Promised!Deliver
  <2>4. CASE SubscribeThrows \/ PublishThrows
    <3>1. running /\ Promised!Fail
      BY <2>4 DEF SubscribeThrows, PublishThrows, Promised!Fail, history
    <3> QED BY <3>1
  <2>5. CASE \/ UNCHANGED vars
             \/ MainThread
             \/ Established \/ OnFailure \/ Reconnect \/ ReconnectThrows \/ Subscribe
             \/ Write \/ Acknowledged
    BY <2>5 DEF vars, MainThread, InitCallback, Connect, ConnectThrows, Established,
                OnFailure, Reconnect, ReconnectThrows, Subscribe, Write,
                Acknowledged, history
  <2> QED
    BY <2>1, <2>2, <2>3, <2>4, <2>5 DEF Next, Callback, Broker
<1> QED BY <1>1, <1>2, ClientInvariant, PTL DEF Safety, ImplementsChannel, Promised!Spec
=============================================================================
