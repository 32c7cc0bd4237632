------------------------------ MODULE Delivery ------------------------------
(***************************************************************************)
(* What the reception promises packet_handler, without saying how: the     *)
(* packets that were received wait in one queue, in the order of the track.*)
(* The oldest is handled once, or lost if enough newer ones wait.          *)
(***************************************************************************)
EXTENDS Naturals, Sequences

CONSTANTS
    Packets,    \* data of the packets that can be received
    Newest      \* so many of the newest packets cannot be lost

VARIABLES queue, handled

vars == <<queue, handled>>

Init == queue = <<>> /\ handled = <<>>

Receive(data) ==
    /\ UNCHANGED handled
    /\ queue' = Append(queue, data)

Lose ==
    /\ UNCHANGED handled
    /\ Len(queue) > Newest
    /\ queue' = Tail(queue)

Handle ==
    /\ queue # <<>>
    /\ handled' = Head(queue)
    /\ queue' = Tail(queue)

Next ==
    \/ \E data \in Packets : Receive(data)
    \/ Lose
    \/ Handle

Spec == Init /\ [][Next]_vars

=============================================================================
