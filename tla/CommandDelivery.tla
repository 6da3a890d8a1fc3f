-------------------------- MODULE CommandDelivery --------------------------
(***************************************************************************)
(* What the fleet server promises about the commands it is asked to        *)
(* deliver: a command is accepted once, waits, and leaves the waiting room *)
(* for good, either answered to one device or dropped.                     *)
(***************************************************************************)
EXTENDS Sequences

CONSTANTS Devices, Requests

VARIABLES
    accepted,  \* requests made so far
    waiting,   \* requests that may still be answered
    answers    \* what each device was answered, in order

Init == accepted = {} /\ waiting = {} /\ answers = [d \in Devices |-> <<>>]

Accept(q) ==
    /\ q \notin accepted
    /\ accepted' = accepted \cup {q}
    /\ waiting' = waiting \cup {q}
    /\ UNCHANGED answers

\* Answering q may drop others: those that carry the same command_id.
Answer(d, q, dropped) ==
    /\ q \in waiting
    /\ answers' = [answers EXCEPT ![d] = Append(@, q)]
    /\ waiting' = waiting \ (dropped \cup {q})
    /\ UNCHANGED accepted

\* A device is removed, or a crash loses what the database refused.
Drop(dropped) ==
    /\ waiting' = waiting \ dropped
    /\ UNCHANGED <<accepted, answers>>

Next ==
    \/ \E q \in Requests : Accept(q)
    \/ \E dropped \in SUBSET waiting :
          \/ Drop(dropped)
          \/ \E d \in Devices, q \in waiting : Answer(d, q, dropped)

Spec == Init /\ [][Next]_<<accepted, waiting, answers>>
=============================================================================
