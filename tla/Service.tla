------------------------------ MODULE Service ------------------------------
(***************************************************************************)
(* What the whole program promises to those who publish and to those who   *)
(* subscribe at the broker, without its queues, its threads, its client    *)
(* and its connections: along every route of its topic a message that      *)
(* arrives is carried once, transformed by the chain of that route, and    *)
(* received by the broker when everything before it in its lane has been   *)
(* received or is lost.  A lost connection may take deliveries with it:    *)
(* those, of each lane, that would have been received next.                *)
(***************************************************************************)
EXTENDS Routing

CONSTANT MaxMessages    \* bound on the messages that arrive

VARIABLES
    arrived,    \* the messages, in order of arrival
    received,   \* the deliveries the broker has received, in order
    lost,       \* the tokens of the deliveries that are lost
    running     \* FALSE once the process has terminated
vars == <<arrived, received, lost, running>>

Token(n, k) == [origin |-> n, from |-> arrived[n].topic, route |-> k]
TokenOf(x) == [origin |-> x.origin, from |-> x.from, route |-> x.route]

(* The deliveries that are due, and those of which it is known what became *)
(* of them.                                                                *)
Due ==
    UNION {{Token(n, k) : k \in DOMAIN RoutesOf(arrived[n].topic)} :
              n \in DOMAIN arrived}
Settled == {TokenOf(received[i]) : i \in DOMAIN received} \cup lost

(* Whatever is due earlier in the lane of x is among others.               *)
IsBehindOnly(x, others) ==
    \A y \in Due : (Precedes(y, x) /\ SameLane(y, x)) => y \in others

OutputsOf(x) ==
    ChainOutputs(RoutesOf(x.from)[x.route], x.from, arrived[x.origin].payload)

Init ==
    /\ arrived = << >>
    /\ received = << >>
    /\ lost = {}
    /\ running = TRUE

Arrive ==
    /\ Len(arrived) < MaxMessages
    /\ \E t \in Topic, p \in Payload :
          arrived' = Append(arrived, [topic |-> t, payload |-> p])
    /\ UNCHANGED <<received, lost, running>>

Deliver ==
    /\ \E x \in Due \ Settled :
          /\ IsBehindOnly(x, Settled)
          /\ \E out \in OutputsOf(x) :
                received' = Append(received,
                    [origin |-> x.origin, from |-> x.from, route |-> x.route,
                     topic |-> out.topic, payload |-> out.payload])
    /\ UNCHANGED <<arrived, lost, running>>

(* Nothing is lost that was not ready to be received.                      *)
Lose ==
    /\ \E some \in SUBSET (Due \ Settled) :
          /\ \A x \in some : OutputsOf(x) # {} /\ IsBehindOnly(x, Settled \cup some)
          /\ lost' = lost \cup some
    /\ UNCHANGED <<arrived, received, running>>

Fail == running' = FALSE /\ UNCHANGED <<arrived, received, lost>>

Next == running /\ (Arrive \/ Deliver \/ Lose \/ Fail)
Spec == Init /\ [][Next]_vars
=============================================================================
