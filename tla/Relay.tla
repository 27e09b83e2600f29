------------------------------- MODULE Relay -------------------------------
(***************************************************************************)
(* What a TrafficWarden promises, without its queues and threads: every    *)
(* message that arrives is carried once along every route of its topic,    *)
(* transformed by that route's chain, and the routes of a lane are served  *)
(* in the order of arrival.  The service may fail, and then stops for good.*)
(***************************************************************************)
EXTENDS Routing

CONSTANT MaxMessages    \* bound on the messages that arrive

VARIABLES
    arrived,    \* the messages, in order of arrival
    published,  \* the deliveries made, in order
    running     \* FALSE once the process has terminated
vars == <<arrived, published, running>>

Token(n, k) == [origin |-> n, from |-> arrived[n].topic, route |-> k]

IsPublished(n, k) ==
    \E i \in DOMAIN published :
        published[i].origin = n /\ published[i].route = k

(* Every delivery of the same lane that is due earlier has been made.      *)
IsNext(n, k) ==
    /\ ~IsPublished(n, k)
    /\ \A m \in 1..n : \A j \in DOMAIN RoutesOf(arrived[m].topic) :
          (Precedes(Token(m, j), Token(n, k)) /\ SameLane(Token(m, j), Token(n, k)))
             => IsPublished(m, j)

Init ==
    /\ arrived = << >>
    /\ published = << >>
    /\ running = TRUE

Arrive ==
    /\ running
    /\ Len(arrived) < MaxMessages
    /\ \E t \in Topic, p \in Payload :
          arrived' = Append(arrived, [topic |-> t, payload |-> p])
    /\ UNCHANGED <<published, running>>

Deliver(n, k) ==
    /\ running
    /\ IsNext(n, k)
    /\ \E out \in ChainOutputs(RoutesOf(arrived[n].topic)[k],
                               arrived[n].topic, arrived[n].payload) :
          published' = Append(published,
              [origin |-> n, from |-> arrived[n].topic, route |-> k,
               topic |-> out.topic, payload |-> out.payload])
    /\ UNCHANGED <<arrived, running>>

DeliverSome ==
    \E n \in DOMAIN arrived : \E k \in DOMAIN RoutesOf(arrived[n].topic) :
        Deliver(n, k)

Fail ==
    /\ running
    /\ running' = FALSE
    /\ UNCHANGED <<arrived, published>>

Next == Arrive \/ DeliverSome \/ Fail

Safety == Init /\ [][Next]_vars
Spec == Safety /\ WF_vars(DeliverSome)
=============================================================================
