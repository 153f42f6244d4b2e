------------------------------- MODULE TxQueue -------------------------------
(***************************************************************************)
(* What low_level_output and the TX ring owe the stack: the packets it     *)
(* passes leave one buffer after the other, each packet whole, once, and   *)
(* in the order in which they were passed; a packet that does not fit      *)
(* waits or is refused whole; and an accepted packet is given back when no *)
(* buffer of it is left to send.                                           *)
(***************************************************************************)
EXTENDS Integers, Sequences

CONSTANTS
    Packets,
    Room  \* how many buffers the queue takes

VARIABLES
    queue,    \* the buffers to be sent, each as the packet it belongs to
    passed,   \* the packet in the hands of low_level_output, if there is one
    accepted  \* the packets whose buffers may still be read

queueVars == <<queue, passed, accepted>>

Init == queue = <<>> /\ passed = {} /\ accepted = {}

Pass(q) ==
    /\ passed = {} /\ q \notin accepted
    /\ passed' = {q}
    /\ UNCHANGED <<queue, accepted>>

\* A packet of n buffers goes behind all that are to be sent, or is refused.
Accept(q, n) ==
    /\ passed = {q} /\ Len(queue) + n <= Room
    /\ queue' = queue \o [k \in 1 .. n |-> q]
    /\ passed' = {} /\ accepted' = accepted \cup {q}

Refuse ==
    /\ passed # {} /\ passed' = {}
    /\ UNCHANGED <<queue, accepted>>

SendFirst ==
    /\ queue # <<>>
    /\ queue' = Tail(queue)
    /\ UNCHANGED <<passed, accepted>>

GiveBack(Sent) ==
    /\ Sent \subseteq accepted /\ \A k \in 1 .. Len(queue) : queue[k] \notin Sent
    /\ accepted' = accepted \ Sent
    /\ UNCHANGED <<queue, passed>>

Next ==
    \/ SendFirst \/ Refuse
    \/ \E q \in Packets : Pass(q) \/ \E n \in 1 .. Room : Accept(q, n)
    \/ \E Sent \in SUBSET Packets : GiveBack(Sent)

Spec == Init /\ [][Next]_queueVars
=============================================================================
