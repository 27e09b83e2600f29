------------------------------ MODULE Feedback ------------------------------
(***************************************************************************)
(* The threads of TrafficWarden with a broker that returns to the program  *)
(* what it publishes on one of its own input topics, so that one route's   *)
(* output is the next one's input.  The connection lasts.                  *)
(***************************************************************************)
EXTENDS Routing, Functions

CONSTANTS
    Visits,         \* how often a message on a topic arrives, itself and what
                    \* becomes of it: finite when no route leads back
    MaxOutside,     \* bound on the messages that others publish
    MaxMessages     \* bound on all that arrive, larger than Visits allows

VisitsOf(t) == IF t \in DOMAIN Routes THEN Visits[t] ELSE 0

(* The visits due to what leaves along route k of t: its one output.       *)
VisitsAlong(t, p, k) ==
    LET outputs == ChainOutputs(Routes[t][k], t, p)
    IN  IF outputs = {} THEN 0 ELSE VisitsOf((CHOOSE out \in outputs : TRUE).topic)
ASSUME VisitsAssumption ==
    /\ Visits \in [DOMAIN Routes -> Nat]
    /\ \A t \in DOMAIN Routes, p \in Payload :
          Visits[t] > SumFunction([k \in DOMAIN Routes[t] |-> VisitsAlong(t, p, k)])
ASSUME BoundsAssumption == MaxOutside \in Nat /\ MaxMessages \in Nat

VARIABLES
    incomingQueue, transformQueue, outgoingQueue,
    ingesting, transforming, publishing, running, arrived, published,
    outside,        \* history: the topics of the messages that others published
    returned        \* how many of published the broker has dealt with

Pipeline == INSTANCE TrafficWarden

pipelineVars == <<incomingQueue, transformQueue, outgoingQueue, ingesting,
                  transforming, publishing, running, arrived, published>>
vars == <<pipelineVars, outside, returned>>

Init == Pipeline!Init /\ outside = << >> /\ returned = 0

-----------------------------------------------------------------------------
(* message_arrived: a message that somebody else has published.            *)
MessageArrived ==
    /\ Len(outside) < MaxOutside
    /\ \E t \in DOMAIN Routes, p \in Payload :
          /\ Pipeline!MessageArrived(t, p)
          /\ outside' = Append(outside, t)
    /\ UNCHANGED returned

(* message_arrived, or nothing: the next of the program's own messages.    *)
BrokerReturns ==
    /\ running
    /\ returned < Len(published)
    /\ LET message == published[returned + 1]
       IN  IF message.topic \in DOMAIN Routes
           THEN Pipeline!MessageArrived(message.topic, message.payload)
           ELSE UNCHANGED pipelineVars
    /\ returned' = returned + 1
    /\ UNCHANGED outside

(* (X_Fault is X with a fault in it that a property must reveal.)          *)
Ingest == Pipeline!Ingest /\ UNCHANGED <<outside, returned>>
Transform == Pipeline!Transform /\ UNCHANGED <<outside, returned>>
Publish_LeavesLast ==
    /\ (Len(outgoingQueue) > 1 /\ Pipeline!PublishPop) \/ Pipeline!PublishAccepted
    /\ UNCHANGED <<outside, returned>>
Publish ==
    /\ Pipeline!PublishPop \/ Pipeline!PublishAccepted
    /\ UNCHANGED <<outside, returned>>

Next == MessageArrived \/ BrokerReturns \/ Ingest \/ Transform \/ Publish
Fairness ==
    WF_vars(BrokerReturns) /\ WF_vars(Ingest) /\ WF_vars(Transform) /\ WF_vars(Publish)
Safety == Init /\ [][Next]_vars
Spec == Safety /\ Fairness

-----------------------------------------------------------------------------
(* One message causes no more arrivals than its routes make of it: what    *)
(* comes back is not multiplied, and the queues hold no more than that.    *)
ArrivalsAreBounded ==
    Len(arrived) <= SumFunction([i \in DOMAIN outside |-> Visits[outside[i]]])

(* When nobody else publishes any more, the program comes to rest: nothing *)
(* circulates, unless an exception has terminated the process.             *)
AtRest ==
    /\ incomingQueue = << >> /\ transformQueue = << >> /\ outgoingQueue = << >>
    /\ ingesting = << >> /\ transforming = << >> /\ publishing = << >>
    /\ returned = Len(published)
ComesToRest == <>[](AtRest \/ ~running)
=============================================================================
