------------------------------- MODULE RxQueue -------------------------------
(***************************************************************************)
(* What the RX ring and ethernetif_input owe the stack: every buffer has   *)
(* one owner; a frame that was received is handed on once, one at a time   *)
(* and in the order in which the frames came; and a buffer is filled again *)
(* only after whoever had its last frame has freed it.                     *)
(***************************************************************************)
EXTENDS Sequences

CONSTANT Buffers

VARIABLES
    queue,  \* the buffers with a frame not read yet, oldest first
    at      \* buffer -> "pool", "posted" for the DMA, "filled", "input", "stack"

queueVars == <<queue, at>>

Init == queue = <<>> /\ at = [b \in Buffers |-> "pool"]

Move(b, from, to) == at[b] \in from /\ at' = [at EXCEPT ![b] = to]

Post(b) == Move(b, {"pool"}, "posted") /\ queue' = queue

Arrive(b) == Move(b, {"posted"}, "filled") /\ queue' = Append(queue, b)

\* ethernetif_input has one frame at a time.
ReadFirst ==
    /\ queue # <<>> /\ \A b \in Buffers : at[b] # "input"
    /\ Move(Head(queue), {"filled"}, "input")
    /\ queue' = Tail(queue)

\* The stack takes the frame, or it is dropped.
HandOver(b) == (Move(b, {"input"}, "stack") \/ Move(b, {"input"}, "pool")) /\ queue' = queue

Free(b) == Move(b, {"stack"}, "pool") /\ queue' = queue

Next == ReadFirst \/ \E b \in Buffers : Post(b) \/ Arrive(b) \/ HandOver(b) \/ Free(b)

Spec == Init /\ [][Next]_queueVars
=============================================================================
