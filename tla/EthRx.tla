-------------------------------- MODULE EthRx --------------------------------
(***************************************************************************)
(* Reception: ethernetif.c on the RX ring of stm32f7xx_hal_eth.c.  The DMA *)
(* fills descriptors, the interrupt releases RxPktSemaphore, the task      *)
(* ethernetif_input reads the frames and gives the descriptors new buffers *)
(* from RX_POOL, the stack's tasks free the buffers (pbuf_free_custom),    *)
(* and ethernet_link_thread stops and starts the MAC.  ethernetif_input    *)
(* has the highest priority: other tasks run only while it waits.  Every   *)
(* frame fits one descriptor (ETH_RX_BUF_SIZE is above the largest frame), *)
(* so it has both FS and LS; the fatal bus error is left out.              *)
(***************************************************************************)
EXTENDS Integers, FiniteSets

CONSTANTS
    Ring,     \* ETH_RX_DESC_CNT: 4
    Buffers,  \* the members of RX_POOL: ETH_RX_BUFFER_CNT, 12, of them
    Freers,   \* how many tasks may be inside pbuf_free_custom at once
    None      \* no buffer

ASSUME RxAssumption ==
    /\ Ring \in Nat /\ Ring > 0 /\ Freers \in Nat
    /\ None \notin Buffers
    /\ IsFiniteSet(Buffers) /\ Cardinality(Buffers) >= Ring

VARIABLES
    own,        \* descriptor -> the OWN bit: "dma" or "cpu"
    content,    \* descriptor -> "none", a "frame" not read yet, one that was "read"
    backup,     \* descriptor -> BackupAddr0
    addr,       \* descriptor -> DESC2, the buffer the DMA writes to
    quiet,      \* descriptor -> DIC, no interrupt for this frame
    rxDescIdx, buildIdx, buildCnt,  \* RxDescIdx, RxBuildDescIdx, RxBuildDescCnt
    dma,        \* the descriptor the DMA uses next, kept while it is stopped
    where,      \* buffer -> "pool", "ring", "input" (ethernetif_input), "stack"
    rxAllocStatus,
    sem,        \* RxPktSemaphore
    pending,    \* a receive interrupt is to come
    gState,
    ethIf,      \* ethernetif_input: "wait", "input", "refill" or "deliver"
    p,          \* the packet low_level_input has read
    link,       \* ethernet_link_thread, in HAL_ETH_Start_IT or HAL_ETH_Stop_IT
    checks,     \* tasks between LWIP_MEMPOOL_FREE and the test of RxAllocStatus
    untidy,     \* ghost: a start found unread frames, or descriptors with no buffer
    missed      \* ghost: the two races of a start have happened (see below)

ring == <<own, content, backup, addr, quiet>>
index == <<rxDescIdx, buildIdx, buildCnt>>
ghosts == <<untidy, missed>>
vars == <<ring, index, dma, where, rxAllocStatus, sem, pending, gState, ethIf, p, link,
          checks, ghosts>>

Descriptors == 0 .. Ring - 1
\* Mutant: the index runs past the end of the ring.
SuccPastEnd(i) == IF i = Ring THEN 0 ELSE i + 1

Succ(i) == IF i = Ring - 1 THEN 0 ELSE i + 1  \* INCR_RX_DESC_INDEX

TypeOK ==
    /\ own \in [Descriptors -> {"dma", "cpu"}]
    /\ content \in [Descriptors -> {"none", "frame", "read"}]
    /\ backup \in [Descriptors -> Buffers \cup {None}]
    /\ addr \in [Descriptors -> Buffers \cup {None}]
    /\ quiet \in [Descriptors -> BOOLEAN]
    /\ rxDescIdx \in Descriptors /\ buildIdx \in Descriptors /\ buildCnt \in 0 .. Ring
    /\ dma \in Descriptors
    /\ where \in [Buffers -> {"pool", "ring", "input", "stack"}]
    /\ rxAllocStatus \in {"RX_ALLOC_OK", "RX_ALLOC_ERROR"}
    /\ sem \in 0 .. 1 /\ pending \in BOOLEAN
    /\ gState \in {"READY", "BUSY", "STARTED"}
    /\ ethIf \in {"wait", "input", "refill", "deliver"} /\ p \in Buffers \cup {None}
    /\ link \in {"idle", "refill", "failed", "receiving", "enabled", "stopped"}
    /\ checks \in 0 .. Freers
    /\ untidy \in BOOLEAN /\ missed \in BOOLEAN

\* After HAL_ETH_Init and low_level_init.
Init ==
    /\ own = [i \in Descriptors |-> "dma"] /\ content = [i \in Descriptors |-> "none"]
    /\ backup = [i \in Descriptors |-> None] /\ addr = [i \in Descriptors |-> None]
    /\ quiet = [i \in Descriptors |-> FALSE]
    /\ rxDescIdx = 0 /\ buildIdx = 0 /\ buildCnt = 0 /\ dma = 0
    /\ where = [b \in Buffers |-> "pool"]
    /\ rxAllocStatus = "RX_ALLOC_OK" /\ sem = 0 /\ pending = FALSE
    /\ gState = "READY" /\ ethIf = "wait" /\ p = None /\ link = "idle" /\ checks = 0
    /\ untidy = FALSE /\ missed = FALSE

\* The MAC and the DMA receive; the DMA interrupts are enabled.
Receiving == gState = "STARTED" \/ link \in {"receiving", "enabled"}
Enabled == gState = "STARTED" \/ link = "enabled"

Unread(i) == content[i] = "frame"

\* ethernetif_input leaves the processor to the other tasks.
OthersRun == ethIf = "wait" /\ sem = 0

-----------------------------------------------------------------------------
(***************************************************************************)
(* The DMA and the interrupt                                               *)
(***************************************************************************)
FrameArrives ==
    /\ Receiving /\ own[dma] = "dma"
    /\ own' = [own EXCEPT ![dma] = "cpu"]
    /\ content' = [content EXCEPT ![dma] = "frame"]
    /\ pending' = (pending \/ ~quiet[dma])
    /\ dma' = Succ(dma)
    /\ UNCHANGED <<backup, addr, quiet, index, where, rxAllocStatus, sem, gState, ethIf, p,
                   link, checks, ghosts>>

\* No descriptor is free: the frame is lost, and RBUS is an interrupt too.
BufferUnavailable ==
    /\ Receiving /\ own[dma] = "cpu"
    /\ pending' = TRUE
    /\ UNCHANGED <<ring, index, dma, where, rxAllocStatus, sem, gState, ethIf, p, link,
                   checks, ghosts>>

\* HAL_ETH_RxCpltCallback, or HAL_ETH_ErrorCallback on RBUS.
HAL_ETH_IRQHandler ==
    /\ pending /\ Enabled
    /\ pending' = FALSE /\ sem' = 1
    /\ UNCHANGED <<ring, index, dma, where, rxAllocStatus, gState, ethIf, p, link, checks,
                   ghosts>>

-----------------------------------------------------------------------------
(***************************************************************************)
(* ETH_UpdateDescriptor, one descriptor at a time                          *)
(***************************************************************************)
Pool == {b \in Buffers : where[b] = "pool"}

\* HAL_ETH_RxAllocateCallback finds the pool empty.
AllocFails == buildCnt > 0 /\ backup[buildIdx] = None /\ Pool = {}

\* Mutant: the descriptor gets a buffer also when it has one.
BuildAlways ==
    /\ buildCnt > 0
    /\ \E b \in Pool :
          /\ backup' = [backup EXCEPT ![buildIdx] = b]
          /\ addr' = [addr EXCEPT ![buildIdx] = b]
          /\ where' = [where EXCEPT ![b] = "ring"]
    /\ own' = [own EXCEPT ![buildIdx] = "dma"]
    /\ content' = [content EXCEPT ![buildIdx] = "none"]
    /\ quiet' = [quiet EXCEPT ![buildIdx] = FALSE]
    /\ buildIdx' = Succ(buildIdx) /\ buildCnt' = buildCnt - 1

\* The descriptor gets a buffer, if it has none, and goes to the DMA.
BuildDescriptor ==
    /\ buildCnt > 0
    /\ IF backup[buildIdx] # None THEN UNCHANGED <<backup, addr, where>>
       ELSE \E b \in Pool :
              /\ backup' = [backup EXCEPT ![buildIdx] = b]
              /\ addr' = [addr EXCEPT ![buildIdx] = b]
              /\ where' = [where EXCEPT ![b] = "ring"]
    /\ own' = [own EXCEPT ![buildIdx] = "dma"]
    /\ content' = [content EXCEPT ![buildIdx] = "none"]
    /\ quiet' = [quiet EXCEPT ![buildIdx] = FALSE]
    /\ buildIdx' = Succ(buildIdx) /\ buildCnt' = buildCnt - 1

-----------------------------------------------------------------------------
(***************************************************************************)
(* ethernetif_input                                                        *)
(***************************************************************************)
WaitForFrame ==
    /\ ethIf = "wait" /\ sem = 1
    /\ sem' = 0 /\ ethIf' = "input"
    /\ UNCHANGED <<ring, index, dma, where, rxAllocStatus, pending, gState, p, link, checks,
                   ghosts>>

\* low_level_input does not read: the loop over the packets ends.  A token that
\* comes before HAL_ETH_Start_IT has set gState is used up here.
NotRead ==
    /\ ethIf = "input" /\ (rxAllocStatus = "RX_ALLOC_ERROR" \/ gState # "STARTED")
    /\ ethIf' = "wait"
    /\ missed' = (missed \/ (rxAllocStatus = "RX_ALLOC_OK" /\ Receiving))
    /\ UNCHANGED <<ring, index, dma, where, rxAllocStatus, sem, pending, gState, p, link,
                   checks, untidy>>

\* Mutant: the descriptors that wait for a buffer are read as well.
ReadableAlways == own[rxDescIdx] = "cpu"

\* What the loop of HAL_ETH_ReadData reads: one descriptor at most.
Readable == own[rxDescIdx] = "cpu" /\ buildCnt < Ring

HAL_ETH_ReadData ==
    /\ ethIf = "input" /\ rxAllocStatus = "RX_ALLOC_OK" /\ gState = "STARTED"
    /\ IF Readable
       THEN /\ p' = addr[rxDescIdx]
            /\ where' = [where EXCEPT ![addr[rxDescIdx]] = "input"]
            /\ backup' = [backup EXCEPT ![rxDescIdx] = None]
            /\ content' = [content EXCEPT ![rxDescIdx] = "read"]
            /\ buildCnt' = buildCnt + 1 /\ rxDescIdx' = Succ(rxDescIdx)
       ELSE UNCHANGED <<p, where, backup, content, buildCnt, rxDescIdx>>
    /\ ethIf' = "refill"
    /\ UNCHANGED <<own, addr, quiet, buildIdx, dma, rxAllocStatus, sem, pending, gState,
                   link, checks, ghosts>>

\* Mutant: the status is not set.
RefillSilent ==
    /\ ethIf = "refill"
    /\ IF buildCnt = 0 \/ AllocFails
       THEN /\ ethIf' = IF p = None THEN "wait" ELSE "deliver"
            /\ UNCHANGED <<ring, index, where, rxAllocStatus>>
       ELSE BuildDescriptor /\ UNCHANGED <<rxDescIdx, rxAllocStatus, ethIf>>
    /\ UNCHANGED <<dma, sem, pending, gState, p, link, checks, ghosts>>

Refill ==
    /\ ethIf = "refill"
    /\ IF buildCnt = 0 \/ AllocFails
       THEN /\ ethIf' = IF p = None THEN "wait" ELSE "deliver"
            /\ rxAllocStatus' = IF AllocFails THEN "RX_ALLOC_ERROR" ELSE rxAllocStatus
            /\ UNCHANGED <<ring, index, where>>
       ELSE BuildDescriptor /\ UNCHANGED <<rxDescIdx, rxAllocStatus, ethIf>>
    /\ UNCHANGED <<dma, sem, pending, gState, p, link, checks, ghosts>>

\* Mutant: ethernetif_input is not woken.
SignalNobody == rxAllocStatus' = "RX_ALLOC_OK" /\ sem' = sem

\* pbuf_free_custom, once the buffer is in the pool.
Signal ==
    IF rxAllocStatus = "RX_ALLOC_ERROR"
    THEN rxAllocStatus' = "RX_ALLOC_OK" /\ sem' = 1
    ELSE UNCHANGED <<rxAllocStatus, sem>>

\* netif->input is tcpip_input; it fails when the mailbox is full, and the packet
\* is freed.
Deliver ==
    /\ ethIf = "deliver"
    /\ ethIf' = "input" /\ p' = None
    /\ \/ /\ where' = [where EXCEPT ![p] = "stack"]
          /\ UNCHANGED <<rxAllocStatus, sem>>
       \/ where' = [where EXCEPT ![p] = "pool"] /\ Signal
    /\ UNCHANGED <<ring, index, dma, pending, gState, link, checks, ghosts>>

-----------------------------------------------------------------------------
(***************************************************************************)
(* The stack's tasks: pbuf_free_custom                                     *)
(***************************************************************************)
FreeBuffer(b) ==
    /\ OthersRun /\ where[b] = "stack" /\ checks < Freers
    /\ where' = [where EXCEPT ![b] = "pool"] /\ checks' = checks + 1
    /\ UNCHANGED <<ring, index, dma, rxAllocStatus, sem, pending, gState, ethIf, p, link, ghosts>>

CheckStatus ==
    /\ OthersRun /\ checks > 0
    /\ checks' = checks - 1 /\ Signal
    /\ UNCHANGED <<ring, index, dma, where, pending, gState, ethIf, p, link, ghosts>>

-----------------------------------------------------------------------------
(***************************************************************************)
(* ethernet_link_thread: HAL_ETH_Start_IT and HAL_ETH_Stop_IT              *)
(***************************************************************************)
StartBegins ==
    /\ OthersRun /\ link = "idle" /\ gState = "READY"
    /\ gState' = "BUSY" /\ link' = "refill" /\ buildCnt' = Ring
    /\ untidy' = (untidy \/ buildCnt > 0 \/ \E i \in Descriptors : Unread(i))
    /\ UNCHANGED <<ring, rxDescIdx, buildIdx, dma, where, rxAllocStatus, sem, pending, ethIf,
                   p, checks, missed>>

StartBuilds ==
    /\ OthersRun /\ link = "refill"
    /\ IF buildCnt > 0 /\ ~AllocFails
       THEN BuildDescriptor /\ link' = link
       ELSE /\ link' = IF AllocFails THEN "failed" ELSE "receiving"
            /\ UNCHANGED <<ring, buildIdx, buildCnt, where>>
    /\ UNCHANGED <<rxDescIdx, dma, rxAllocStatus, sem, pending, gState, ethIf, p, checks,
                   ghosts>>

\* A task of a higher priority may have freed buffers after the pool was found
\* empty and before the status says so.
StartReportsError ==
    /\ OthersRun /\ link = "failed"
    /\ rxAllocStatus' = "RX_ALLOC_ERROR" /\ link' = "receiving"
    /\ missed' = (missed \/ Pool # {})
    /\ UNCHANGED <<ring, index, dma, where, sem, pending, gState, ethIf, p, checks, untidy>>

StartEnables ==
    /\ OthersRun /\ link = "receiving"
    /\ link' = "enabled"
    /\ UNCHANGED <<ring, index, dma, where, rxAllocStatus, sem, pending, gState, ethIf, p,
                   checks, ghosts>>

StartEnds ==
    /\ OthersRun /\ link = "enabled"
    /\ link' = "idle" /\ gState' = "STARTED"
    /\ UNCHANGED <<ring, index, dma, where, rxAllocStatus, sem, pending, ethIf, p, checks, ghosts>>

StopBegins ==
    /\ OthersRun /\ link = "idle" /\ gState = "STARTED"
    /\ gState' = "BUSY" /\ link' = "stopped"
    /\ UNCHANGED <<ring, index, dma, where, rxAllocStatus, sem, pending, ethIf, p, checks, ghosts>>

StopEnds ==
    /\ OthersRun /\ link = "stopped"
    /\ quiet' = [i \in Descriptors |-> TRUE]
    /\ gState' = "READY" /\ link' = "idle"
    /\ UNCHANGED <<own, content, backup, addr, index, dma, where, rxAllocStatus, sem, pending,
                   ethIf, p, checks, ghosts>>

-----------------------------------------------------------------------------
Hardware == FrameArrives \/ BufferUnavailable \/ HAL_ETH_IRQHandler

EthIf == WaitForFrame \/ NotRead \/ HAL_ETH_ReadData \/ Refill \/ Deliver

Stack == CheckStatus \/ \E b \in Buffers : FreeBuffer(b)

EthLink ==
    \/ StartBegins \/ StartBuilds \/ StartReportsError \/ StartEnables \/ StartEnds
    \/ StopBegins \/ StopEnds

Next == Hardware \/ EthIf \/ Stack \/ EthLink

Spec == Init /\ [][Next]_vars

\* The interrupt comes when it is enabled, ethernetif_input is the task of the highest
\* priority, and the tasks that hold a packet free it in the end: strong fairness, as
\* frames and ethernetif_input keep interrupting them.  Frames need not come, the link
\* thread waits for the PHY, and frames do not come so fast that ethernetif_input never
\* waits.
Fairness ==
    /\ []<>OthersRun
    /\ WF_vars(HAL_ETH_IRQHandler) /\ WF_vars(EthIf)
    /\ SF_vars(CheckStatus) /\ \A b \in Buffers : SF_vars(FreeBuffer(b))

FairSpec == Spec /\ Fairness

-----------------------------------------------------------------------------
(***************************************************************************)
(* Properties                                                              *)
(***************************************************************************)
\* Unless a start was untidy, a buffer is never in two places: what the DMA may
\* write to belongs to one descriptor, and to nobody who reads a packet or could
\* allocate it; a frame is handed to the stack once.
BuffersApart ==
    ~untidy =>
        /\ \A i \in Descriptors : backup[i] # None => where[backup[i]] = "ring"
        /\ \A i, j \in Descriptors : i # j /\ backup[i] # None => backup[i] # backup[j]
        /\ \A i \in Descriptors :
              Receiving /\ (own[i] = "dma" \/ Unread(i)) =>
                  addr[i] # None /\ addr[i] = backup[i]

\* No buffer is lost: it is in the pool, at a descriptor, or with a holder.
NoBufferLeaks ==
    \A b \in Buffers : where[b] = "ring" => \E i \in Descriptors : backup[i] = b

Wrap(k) == IF k < Ring THEN k ELSE k - Ring

\* Unless a start was untidy, the frames to read begin at RxDescIdx and the DMA
\* goes on behind them: they are read in the order in which they came, and none is
\* overtaken or left for another turn of the ring.
FramesInOrder ==
    ~untidy =>
        \E n \in 0 .. Ring :
            /\ \A j \in 0 .. Ring - 1 : Unread(Wrap(rxDescIdx + j)) <=> j < n
            /\ dma = Wrap(rxDescIdx + n)

\* The frames from RxDescIdx to where the DMA writes, oldest first.
Arrived ==
    IF ~Unread(rxDescIdx) THEN 0
    ELSE IF dma > rxDescIdx THEN dma - rxDescIdx ELSE dma - rxDescIdx + Ring

ToRead == [k \in 1 .. Arrived |-> addr[Wrap(rxDescIdx + (k - 1))]]

Filled(b) == \E i \in Descriptors : Unread(i) /\ backup[i] = b

Place(b) ==
    IF where[b] # "ring" THEN where[b] ELSE IF Filled(b) THEN "filled" ELSE "posted"

Owners == [b \in Buffers |-> Place(b)]

Queue == INSTANCE RxQueue WITH queue <- ToRead, at <- Owners

\* Unless a start was untidy, the ring is a queue: each frame that came is handed to
\* the stack once, in its turn, and its buffer has one owner on its whole way.
ImplementsRxQueue == Queue!Init /\ [][~untidy' => [Queue!Next]_Queue!queueVars]_vars

\* ethernetif_input does not sleep on a frame it could read, unless the pool was
\* empty and somebody still holds a buffer whose end will wake it.
NoFrameForgotten ==
    gState = "STARTED" /\ OthersRun /\ ~pending /\ Unread(rxDescIdx) /\ ~missed =>
        /\ rxAllocStatus = "RX_ALLOC_ERROR"
        /\ checks > 0 \/ \E b \in Buffers : where[b] = "stack"

\* Unless a start was untidy or its races have happened, a frame at RxDescIdx is read
\* while the MAC runs: an empty pool stops reception only until the stack has freed a
\* buffer.
FramesAreRead ==
    \A i \in Descriptors :
        (gState = "STARTED" /\ rxDescIdx = i /\ Unread(i)) ~>
            (rxDescIdx # i \/ gState # "STARTED" \/ untidy \/ missed)

\* stm32f7xx_hal_eth.c:1194-1196 says of ETH_UpdateDescriptor that it "gives back Rx
\* Desc of the last received Packet to the DMA, so ETH DMA will be able to use these
\* descriptors to receive next Packets": when it has nothing left to give back, no
\* descriptor that was read is still with the CPU.
ReadDescriptorsGoBack ==
    ethIf \in {"wait", "input"} /\ link # "refill" /\ buildCnt = 0 =>
        \A i \in Descriptors : content[i] # "read"
=============================================================================
