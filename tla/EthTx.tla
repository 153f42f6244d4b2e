-------------------------------- MODULE EthTx --------------------------------
(***************************************************************************)
(* Transmission: low_level_output of ethernetif.c on the TX ring of        *)
(* stm32f7xx_hal_eth.c.  One task at a time is in low_level_output, the    *)
(* holder of lwIP's core lock; the DMA sends the descriptors, and          *)
(* ethernet_link_thread stops and starts the MAC under them.  The stack    *)
(* keeps a TCP segment until it is acknowledged and sends it again only    *)
(* while the driver has no reference to it (tcp_output_segment_busy);      *)
(* other packets it frees after the call.  A chain of more pbufs than      *)
(* descriptors changes nothing (ERR_IF).                                   *)
(***************************************************************************)
EXTENDS Integers, FiniteSets

CONSTANTS
    Ring,     \* ETH_TX_DESC_CNT: 4
    Packets,  \* pbufs
    MaxInUse, \* bound on BuffersInUse in the executions followed
    None      \* no packet

ASSUME TxAssumption ==
    /\ Ring \in Nat /\ Ring > 0 /\ MaxInUse \in Nat /\ MaxInUse >= Ring
    /\ None \notin Packets

VARIABLES
    own,      \* descriptor -> the OWN bit: "dma" or "cpu"
    buf,      \* descriptor -> DESC2: the packet its buffer belongs to
    pkt,      \* descriptor -> PacketAddress, set at the last descriptor of a packet
    cur, inUse, rel,  \* CurTxDesc, BuffersInUse, releaseIndex
    dma,      \* the descriptor the DMA sends next, kept while it is stopped
    busy,     \* ErrorCode has HAL_ETH_ERROR_BUSY
    link,     \* ethernet_link_thread, between the calls of a pass
    pc,       \* low_level_output: "idle" (not in it), "transmit" or "wait"
    p, chain, \* its packet and the number of pbufs in it
    stack,    \* the packets the stack holds
    held      \* the packets the driver has a reference to (pbuf_ref)

ring == <<own, buf, pkt, dma>>
index == <<cur, inUse, rel>>
sender == <<pc, p, chain>>
vars == <<ring, index, busy, link, sender, stack, held>>

Descriptors == 0 .. Ring - 1

\* Mutant: the index runs past the end of the ring.
WrapLate(k) == IF k <= Ring THEN k ELSE k - Ring

Wrap(k) == IF k < Ring THEN k ELSE k - Ring  \* INCR_TX_DESC_INDEX

TypeOK ==
    /\ own \in [Descriptors -> {"dma", "cpu"}]
    /\ buf \in [Descriptors -> Packets \cup {None}]
    /\ pkt \in [Descriptors -> Packets \cup {None}]
    /\ cur \in Descriptors /\ rel \in Descriptors /\ dma \in Descriptors
    /\ inUse \in 0 .. MaxInUse
    /\ busy \in BOOLEAN
    /\ link \in {"down", "starting", "started", "up", "stopped"}
    /\ pc \in {"idle", "transmit", "wait"}
    /\ p \in Packets \cup {None} /\ chain \in 0 .. Ring
    /\ stack \in SUBSET Packets /\ held \in SUBSET Packets

Init ==
    /\ own = [i \in Descriptors |-> "cpu"]
    /\ buf = [i \in Descriptors |-> None] /\ pkt = [i \in Descriptors |-> None]
    /\ cur = 0 /\ inUse = 0 /\ rel = 0 /\ dma = 0
    /\ busy = FALSE /\ link = "down" /\ pc = "idle" /\ p = None /\ chain = 0
    /\ stack = {} /\ held = {}

Started == link \in {"started", "up"}   \* gState is HAL_ETH_STATE_STARTED
Running == link = "starting" \/ Started \* the DMA transmits
NetifUp == link \in {"up", "stopped"}

-----------------------------------------------------------------------------
(***************************************************************************)
(* The DMA, the interrupt and the link thread                              *)
(***************************************************************************)
DmaSends ==
    /\ Running /\ own[dma] = "dma"
    /\ own' = [own EXCEPT ![dma] = "cpu"]
    /\ dma' = Wrap(dma + 1)
    /\ UNCHANGED <<buf, pkt, index, busy, link, sender, stack, held>>

LinkMoves(from, to) ==
    /\ link = from /\ link' = to
    /\ UNCHANGED <<ring, index, busy, sender, stack, held>>

ethernet_link_thread ==
    \/ LinkMoves("down", "starting") \/ LinkMoves("starting", "started")
    \/ LinkMoves("started", "up") \/ LinkMoves("up", "stopped")
    \/ LinkMoves("stopped", "down")

-----------------------------------------------------------------------------
(***************************************************************************)
(* The stack and low_level_output                                          *)
(***************************************************************************)
low_level_output(q, n) ==
    /\ pc = "idle" /\ NetifUp /\ q \notin held /\ inUse + n <= MaxInUse
    /\ stack' = stack \cup {q} /\ held' = held \cup {q}
    /\ pc' = "transmit" /\ p' = q /\ chain' = n
    /\ UNCHANGED <<ring, index, busy, link>>

StackFrees(q) ==
    /\ q \in stack /\ (pc # "idle" => p # q)
    /\ stack' = stack \ {q}
    /\ UNCHANGED <<ring, index, busy, link, sender, held>>

\* The descriptors of the packet to be sent: ETH_Prepare_Tx_Descriptors takes a
\* descriptor that the DMA does not own and at which no packet ends.
Chain == {Wrap(cur + j) : j \in 0 .. chain - 1}

\* Mutants: PacketAddress, or the OWN bit, is not looked at.
FreeOfDma(i) == own[i] = "cpu"
FreeOfPackets(i) == pkt[i] = None

Free(i) == own[i] = "cpu" /\ pkt[i] = None

TransmitDone ==
    /\ pc = "transmit" /\ Started /\ \A i \in Chain : Free(i)
    /\ own' = [i \in Descriptors |-> IF i \in Chain THEN "dma" ELSE own[i]]
    /\ buf' = [i \in Descriptors |-> IF i \in Chain THEN p ELSE buf[i]]
    /\ pkt' = [pkt EXCEPT ![Wrap(cur + chain - 1)] = p]
    /\ cur' = Wrap(cur + chain) /\ inUse' = inUse + chain
    /\ pc' = "idle"
    /\ UNCHANGED <<rel, dma, busy, link, p, chain, stack, held>>

\* Nothing stays of a chain that does not fit.
TransmitBusy ==
    /\ pc = "transmit" /\ Started /\ \E i \in Chain : ~Free(i)
    /\ busy' = TRUE /\ pc' = "wait"
    /\ UNCHANGED <<ring, index, link, p, chain, stack, held>>

\* The MAC is stopped: HAL_ERROR, and ErrorCode is what an earlier call has left.
TransmitError ==
    /\ pc = "transmit" /\ ~Started
    /\ IF busy THEN pc' = "wait" /\ held' = held
       ELSE pc' = "idle" /\ held' = held \ {p}
    /\ UNCHANGED <<ring, index, busy, link, p, chain, stack>>

\* The descriptors HAL_ETH_ReleaseTxPacket comes to, as offsets from releaseIndex:
\* it stops at the first packet that the DMA still has, and goes no further than
\* BuffersInUse.  A second turn of the ring would find nothing more.
Passed(k) == pkt[Wrap(rel + k)] = None \/ own[Wrap(rel + k)] = "cpu"

\* Mutant: only as many descriptors as there are packets are looked at.
ReachedShort == {j \in 0 .. Ring - 1 : j < Cardinality(held) /\ \A k \in 0 .. j : Passed(k)}

Reached == {j \in 0 .. Ring - 1 : j < inUse /\ \A k \in 0 .. j : Passed(k)}
Released == {j \in Reached : pkt[Wrap(rel + j)] # None}
ReleasedAt == {Wrap(rel + j) : j \in Released}

HAL_ETH_ReleaseTxPacket ==
    /\ pkt' = [i \in Descriptors |-> IF i \in ReleasedAt THEN None ELSE pkt[i]]
    /\ held' = held \ {pkt[i] : i \in ReleasedAt}
    /\ IF Released = {} THEN UNCHANGED <<inUse, rel>>
       ELSE LET last == CHOOSE j \in Released : \A k \in Released : k <= j
            IN  inUse' = inUse - last - 1 /\ rel' = Wrap(rel + last + 1)

\* osSemaphoreWait ends with a token of the transmit interrupt or, when none comes,
\* after ETHIF_TX_TIMEOUT; what was sent by then is released.
WaitForRoom ==
    /\ pc = "wait"
    /\ pc' = "transmit"
    /\ HAL_ETH_ReleaseTxPacket
    /\ UNCHANGED <<own, buf, dma, cur, busy, link, p, chain, stack>>

-----------------------------------------------------------------------------
Sender == TransmitDone \/ TransmitBusy \/ TransmitError \/ WaitForRoom

Next ==
    \/ DmaSends \/ ethernet_link_thread \/ Sender
    \/ \E q \in Packets : StackFrees(q) \/ \E n \in 1 .. Ring : low_level_output(q, n)

Spec == Init /\ [][Next]_vars

\* The DMA sends what it owns, and the task in low_level_output runs; its wait has a
\* time-out.  Nothing makes the stack send or the link stay.
Fairness == WF_vars(DmaSends) /\ WF_vars(Sender)

FairSpec == Spec /\ Fairness

-----------------------------------------------------------------------------
(***************************************************************************)
(* Properties                                                              *)
(***************************************************************************)
\* The driver has one reference to a packet at a time: it is being passed to the
\* HAL, or it is at one descriptor, where HAL_ETH_ReleaseTxPacket will find it.
ReferencesFound ==
    /\ \A i \in Descriptors : pkt[i] # None =>
          /\ pkt[i] \in held /\ (pc # "idle" => pkt[i] # p)
          /\ \E j \in 0 .. Ring - 1 : j < inUse /\ i = Wrap(rel + j)
    /\ \A i, j \in Descriptors : i # j /\ pkt[i] # None => pkt[i] # pkt[j]
    /\ \A q \in held : (pc # "idle" /\ q = p) \/ \E i \in Descriptors : pkt[i] = q

\* The DMA reads from no packet that was freed.
NoEarlyFree == \A i \in Descriptors : own[i] = "dma" => buf[i] \in held

\* The DMA and the driver agree on the next descriptor: what the DMA owns begins
\* where it reads and ends where the next packet goes, so no packet is overtaken.
SentInOrder ==
    \E n \in 0 .. Ring :
        /\ \A j \in 0 .. Ring - 1 : own[Wrap(dma + j)] = "dma" <=> j < n
        /\ cur = Wrap(dma + n)

\* The buffers from where the DMA reads to CurTxDesc.
Owing == IF own[dma] = "cpu" THEN 0 ELSE IF cur > dma THEN cur - dma ELSE cur - dma + Ring

ToSend == [k \in 1 .. Owing |-> buf[Wrap(dma + (k - 1))]]
InHand == IF pc = "idle" THEN {} ELSE {p}

Queue == INSTANCE TxQueue WITH
    Room <- Ring, queue <- ToSend, passed <- InHand, accepted <- held \ InHand

\* The ring is a queue: whatever the MAC and the release do, each packet that fits is
\* sent whole, once and in its turn, and is given back when all of it has been sent.
ImplementsTxQueue == Queue!Spec

\* When the MAC has sent all it was given, one release empties the ring, though
\* BuffersInUse and releaseIndex may be whole turns apart from the packets.
RoomIsMade ==
    [][WaitForRoom /\ (\A i \in Descriptors : own[i] = "cpu") =>
           \A i \in Descriptors : pkt'[i] = None]_vars

\* Once the MAC stays started, low_level_output comes back, however full the ring
\* was and whatever the counters of the release were.
SenderComesBack == <>[]Started => []<>(pc = "idle")

\* tcp_out.c:1641-1644 takes a segment the driver has a reference to for one whose
\* transmission is deferred, by a driver "struggling to flush its buffered writes":
\* while the MAC stays started, a packet the stack keeps is free to be sent again.
ResendPossible ==
    \A q \in Packets :
        (Started /\ q \in stack \cap held) ~> (q \notin stack \cap held \/ ~Started)
=============================================================================
