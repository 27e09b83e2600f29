------------------------------ MODULE Channel ------------------------------
(***************************************************************************)
(* What the MQTT client promises of the messages that publish() accepts,   *)
(* without its library, its connections and its callbacks: each reaches    *)
(* the broker once, in the order of acceptance, unless it is among the     *)
(* oldest ones under way when a connection is lost.                        *)
(***************************************************************************)
EXTENDS Naturals, Sequences, FiniteSets

VARIABLES
    accepted,   \* how many messages have been accepted
    delivered,  \* the messages the broker has received, in order
    dropped,    \* the messages a lost connection took with it
    running     \* FALSE once the process has terminated
vars == <<accepted, delivered, dropped, running>>

Init == accepted = 0 /\ delivered = << >> /\ dropped = {} /\ running = TRUE

(* The oldest message of which it is not known what became of it.          *)
Oldest == Len(delivered) + Cardinality(dropped) + 1

Accept == accepted' = accepted + 1 /\ UNCHANGED <<delivered, dropped, running>>
Deliver ==
    /\ Oldest <= accepted
    /\ delivered' = Append(delivered, Oldest)
    /\ UNCHANGED <<accepted, dropped, running>>
Lose ==
    /\ \E last \in Oldest..accepted : dropped' = dropped \cup Oldest..last
    /\ UNCHANGED <<accepted, delivered, running>>
Fail == running' = FALSE /\ UNCHANGED <<accepted, delivered, dropped>>

Next == running /\ (Accept \/ Deliver \/ Lose \/ Fail)
Spec == Init /\ [][Next]_vars
=============================================================================
