----------------------------- MODULE BoundedFifo -----------------------------
(***************************************************************************)
(* What the class concurrent_array promises to its threads: a bounded,     *)
(* first-in first-out hand-over of objects.  Every thread has one hand; a  *)
(* producer picks up a fresh object, puts it at the tail of the queue, and *)
(* a consumer takes the object at the head and lets go of it once used.    *)
(***************************************************************************)
EXTENDS Integers, Sequences

CONSTANTS Producers, Consumers, Products, Capacity, NULL

VARIABLES queue, hand

fifoVars == <<queue, hand>>

Init ==
    /\ queue = <<>>
    /\ hand = [th \in Producers \cup Consumers |-> NULL]

PickUp(p) ==
    /\ hand[p] = NULL
    /\ \E v \in Products : hand' = [hand EXCEPT ![p] = v]
    /\ UNCHANGED queue

Put(p) ==
    /\ hand[p] # NULL
    /\ Len(queue) < Capacity
    /\ queue' = Append(queue, hand[p])
    /\ hand' = [hand EXCEPT ![p] = NULL]

Take(c) ==
    /\ hand[c] = NULL
    /\ queue # <<>>
    /\ hand' = [hand EXCEPT ![c] = Head(queue)]
    /\ queue' = Tail(queue)

LetGo(c) ==
    /\ hand[c] # NULL
    /\ hand' = [hand EXCEPT ![c] = NULL]
    /\ UNCHANGED queue

Next ==
    \/ \E p \in Producers : PickUp(p) \/ Put(p)
    \/ \E c \in Consumers : Take(c) \/ LetGo(c)

Spec == Init /\ [][Next]_fifoVars
==============================================================================
