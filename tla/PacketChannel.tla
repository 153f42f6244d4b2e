---------------------------- MODULE PacketChannel ----------------------------
(***************************************************************************)
(* What readPacket and deliverMessage owe the application: the packets of  *)
(* the broker are handled whole, each once and in their order, a PUBLISH   *)
(* reaches the handler that is installed at that moment, and only the      *)
(* SUBACK installs one.  Once the channel is broken nothing is promised,   *)
(* until the next connection.                                              *)
(***************************************************************************)
EXTENDS Integers

CONSTANT Packets  \* how many packets the broker sends on one connection

VARIABLES
    next,     \* the first packet not handled yet
    handler,  \* the subscription has its handler
    fate,     \* what became of each packet
    broken    \* the boundary between two packets is lost

channelVars == <<next, handler, fate, broken>>

Fresh ==
    /\ next = 0 /\ handler = FALSE /\ broken = FALSE
    /\ fate = [k \in 0 .. Packets - 1 |-> "unread"]

Init == Fresh

Settle(f) == fate' = [fate EXCEPT ![next] = f] /\ next' = next + 1

\* The session may end right after a packet, and its handlers with it.
HandlePublish ==
    /\ ~broken /\ ~broken' /\ next < Packets
    /\ Settle(IF handler THEN "delivered" ELSE "dropped")
    /\ handler' \in {handler, FALSE}

HandleSuback ==
    /\ ~broken /\ ~broken' /\ next < Packets
    /\ Settle("read")
    /\ handler' \in BOOLEAN

LoseSession == ~broken /\ handler' = FALSE /\ UNCHANGED <<next, fate, broken>>

Break == broken'

Reconnect == Fresh'

Next == HandlePublish \/ HandleSuback \/ LoseSession \/ Break \/ Reconnect

Spec == Init /\ [][Next]_channelVars
=============================================================================
