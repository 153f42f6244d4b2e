------------------------------ MODULE EthRxProofs ------------------------------
(***************************************************************************)
(* Proofs about EthRx, for a ring and a pool of any size.  As long as no   *)
(* start was untidy, the ring has, from RxDescIdx on, n frames to read,    *)
(* the descriptors of the DMA, and the RxBuildDescCnt descriptors that     *)
(* wait for a buffer.                                                      *)
(***************************************************************************)
EXTENDS EthRx, FiniteSetTheorems, Sequences, TLAPS

\* How far the descriptor i lies behind the descriptor r.
Off(r, i) == IF i >= r THEN i - r ELSE i - r + Ring

\* The descriptors that were read and have no buffer yet.  A start counts all as
\* waiting, though the DMA owns them.
Waiting == IF link = "refill" THEN 0 ELSE buildCnt

\* The link thread and ethernetif_input keep out of each other's way.
ControlInv ==
    /\ gState = "BUSY" <=> link # "idle"
    /\ ethIf \in {"refill", "deliver"} => gState = "STARTED"
    /\ ethIf \in {"wait", "input"} => p = None
    /\ ethIf = "deliver" => p # None

\* A descriptor's buffer is where the DMA writes.
AddrInv == \A i \in Descriptors : backup[i] # None => addr[i] = backup[i]

\* The ring with n frames to read.
Layout(n) ==
    /\ n + Waiting <= Ring
    /\ link = "refill" => n = 0
    /\ rxDescIdx = Wrap(buildIdx + buildCnt)
    /\ dma = Wrap(rxDescIdx + n)
    /\ \A i \in Descriptors : Unread(i) <=> Off(rxDescIdx, i) < n
    /\ \A i \in Descriptors :
          own[i] = "cpu" <=> Off(rxDescIdx, i) < n \/ Off(rxDescIdx, i) >= Ring - Waiting

LayoutInv == \E n \in 0 .. Ring : Layout(n)

\* A buffer at a descriptor is at no other and with nobody.
ApartInv ==
    /\ \A i \in Descriptors : backup[i] # None => where[backup[i]] = "ring"
    /\ \A i, j \in Descriptors : i # j /\ backup[i] # None => backup[i] # backup[j]
    /\ p # None => where[p] = "input"

\* Every descriptor that the DMA has, or has filled, has a buffer.
Backed == \A i \in Descriptors : own[i] = "dma" \/ Unread(i) => backup[i] # None

\* Before and during the first start the pool has all other buffers.
Fresh ==
    /\ sem = 0 /\ ethIf = "wait" /\ checks = 0 /\ ~pending
    /\ \A b \in Buffers : where[b] \in {"pool", "ring"}
    /\ \/ gState = "READY" /\ buildCnt = 0 /\ \A i \in Descriptors : ~Unread(i)
       \/ /\ link = "refill"
          /\ \A i \in Descriptors : Off(rxDescIdx, i) < Ring - buildCnt => backup[i] # None

BackInv == Backed \/ Fresh

Tidy == LayoutInv /\ ApartInv /\ BackInv /\ link # "failed"

TidyInv == ~untidy => Tidy

IInv == TypeOK /\ ControlInv /\ AddrInv /\ NoBufferLeaks /\ TidyInv

-----------------------------------------------------------------------------
(***************************************************************************)
(* What holds after an untidy start as well: who will wake ethernetif_input *)
(***************************************************************************)
\* The descriptors that ETH_UpdateDescriptor has still to go through.
ToBuild(i) == Off(buildIdx, i) < buildCnt

\* The DMA has an address wherever it may write.
WrittenInv ==
    /\ \A i \in Descriptors : Unread(i) => own[i] = "cpu"
    /\ \A i \in Descriptors : own[i] = "cpu" => addr[i] # None
    /\ untidy => \A i \in Descriptors : addr[i] # None

\* Frames without an interrupt, and frames from before a start, are at descriptors
\* that are built again before the next wait.
BuildInv ==
    /\ \A i \in Descriptors : quiet[i] /\ gState # "READY" => ToBuild(i)
    /\ \A i \in Descriptors : Unread(i) /\ link = "refill" => ToBuild(i)
    /\ link = "failed" => buildCnt > 0 /\ backup[buildIdx] = None
    /\ ethIf = "refill" => rxAllocStatus = "RX_ALLOC_OK"

\* A frame at RxDescIdx has an interrupt or a token on its way, or ethernetif_input
\* comes to it before it waits.
TokenInv ==
    Receiving /\ ~missed /\ rxAllocStatus = "RX_ALLOC_OK" =>
        /\ buildCnt > 0 => sem = 1 \/ ethIf # "wait"
        /\ Unread(rxDescIdx) =>
              \/ pending \/ sem = 1 \/ ethIf \in {"input", "deliver"}
              \/ ethIf = "refill" /\ (p # None \/ ToBuild(rxDescIdx))

\* When the pool was empty, somebody has a buffer and will come to the status.
HolderInv ==
    /\ \A b \in Buffers : where[b] = "input" => p = b
    /\ rxAllocStatus = "RX_ALLOC_ERROR" /\ ~missed =>
          ethIf = "deliver" \/ checks > 0 \/ \E b \in Buffers : where[b] = "stack"

WakeInv == WrittenInv /\ BuildInv /\ TokenInv /\ HolderInv

-----------------------------------------------------------------------------
(***************************************************************************)
(* Places of the ring                                                      *)
(***************************************************************************)
LEMMA OffFacts ==
    ASSUME NEW r \in Descriptors, NEW i \in Descriptors
    PROVE  /\ Off(r, i) \in Descriptors /\ i = Wrap(r + Off(r, i)) /\ Off(r, r) = 0
           /\ Succ(r) \in Descriptors /\ Succ(r) = Wrap(r + 1)
           /\ Off(Succ(r), i) = IF i = r THEN Ring - 1 ELSE Off(r, i) - 1
           /\ Off(r, i) = 0 => i = r
BY RxAssumption DEF Off, Descriptors, Wrap, Succ

\* A place of the ring, from the start of the frames on.
LEMMA WrapFacts ==
    ASSUME NEW r \in Descriptors, NEW k \in 0 .. Ring
    PROVE  /\ Wrap(r + k) \in Descriptors
           /\ k < Ring => Off(r, Wrap(r + k)) = k
           /\ k = Ring => Wrap(r + k) = r
BY RxAssumption DEF Off, Descriptors, Wrap

\* The next place.
LEMMA NextPlace ==
    ASSUME NEW r \in Descriptors, NEW k \in 0 .. Ring - 1
    PROVE  Succ(Wrap(r + k)) = Wrap(r + (k + 1))
BY RxAssumption DEF Descriptors, Wrap, Succ

\* The numbers behind the types.
LEMMA Numbers ==
    ASSUME TypeOK
    PROVE  /\ Ring \in Nat /\ Ring > 0
           /\ rxDescIdx \in Descriptors /\ buildIdx \in Descriptors /\ dma \in Descriptors
           /\ buildCnt \in 0 .. Ring /\ Waiting \in 0 .. Ring
           /\ \A i \in Descriptors : i \in Nat /\ i < Ring
BY RxAssumption DEF TypeOK, Waiting, Descriptors

-----------------------------------------------------------------------------
(***************************************************************************)
(* Types                                                                   *)
(***************************************************************************)
RingTypes ==
    /\ own \in [Descriptors -> {"dma", "cpu"}]
    /\ content \in [Descriptors -> {"none", "frame", "read"}]
    /\ backup \in [Descriptors -> Buffers \cup {None}]
    /\ addr \in [Descriptors -> Buffers \cup {None}]
    /\ quiet \in [Descriptors -> BOOLEAN]

PoolTypes ==
    /\ where \in [Buffers -> {"pool", "ring", "input", "stack"}]
    /\ rxAllocStatus \in {"RX_ALLOC_OK", "RX_ALLOC_ERROR"}
    /\ p \in Buffers \cup {None}

IndexTypes ==
    /\ rxDescIdx \in Descriptors /\ buildIdx \in Descriptors /\ buildCnt \in 0 .. Ring
    /\ dma \in Descriptors

PlaceTypes ==
    /\ sem \in 0 .. 1 /\ checks \in 0 .. Freers
    /\ pending \in BOOLEAN /\ untidy \in BOOLEAN /\ missed \in BOOLEAN
    /\ gState \in {"READY", "BUSY", "STARTED"}
    /\ ethIf \in {"wait", "input", "refill", "deliver"}
    /\ link \in {"idle", "refill", "failed", "receiving", "enabled", "stopped"}

LEMMA TypeParts == TypeOK <=> RingTypes /\ PoolTypes /\ IndexTypes /\ PlaceTypes
BY DEF TypeOK, RingTypes, PoolTypes, IndexTypes, PlaceTypes

\* ETH_UpdateDescriptor gives one descriptor a buffer.
LEMMA BuildTypes ==
    ASSUME TypeOK, BuildDescriptor
    PROVE  /\ own' \in [Descriptors -> {"dma", "cpu"}]
           /\ content' \in [Descriptors -> {"none", "frame", "read"}]
           /\ backup' \in [Descriptors -> Buffers \cup {None}]
           /\ addr' \in [Descriptors -> Buffers \cup {None}]
           /\ quiet' \in [Descriptors -> BOOLEAN]
           /\ where' \in [Buffers -> {"pool", "ring", "input", "stack"}]
           /\ buildIdx' \in Descriptors /\ buildCnt' \in 0 .. Ring
<1>1. buildIdx \in Descriptors /\ buildCnt \in 0 .. Ring /\ buildCnt > 0 /\ Ring \in Nat
  BY Numbers DEF BuildDescriptor
<1>2. Succ(buildIdx) \in Descriptors
  BY <1>1, OffFacts
<1>3. buildIdx' \in Descriptors /\ buildCnt' \in 0 .. Ring
  BY <1>1, <1>2 DEF BuildDescriptor
<1>4. /\ own' \in [Descriptors -> {"dma", "cpu"}]
      /\ content' \in [Descriptors -> {"none", "frame", "read"}]
      /\ quiet' \in [Descriptors -> BOOLEAN]
  BY DEF BuildDescriptor, TypeOK
<1>5. /\ backup' \in [Descriptors -> Buffers \cup {None}]
      /\ addr' \in [Descriptors -> Buffers \cup {None}]
      /\ where' \in [Buffers -> {"pool", "ring", "input", "stack"}]
  BY DEF BuildDescriptor, TypeOK, Pool
<1> QED
  BY <1>3, <1>4, <1>5

LEMMA TypeStep ==
    ASSUME TypeOK, [Next]_vars
    PROVE  TypeOK'
<1>a. RingTypes' /\ PoolTypes' /\ IndexTypes' /\ PlaceTypes' => TypeOK'
  BY DEF TypeOK, RingTypes, PoolTypes, IndexTypes, PlaceTypes
<1>b. RingTypes /\ PoolTypes /\ IndexTypes /\ PlaceTypes
  BY TypeParts
<1> SUFFICES RingTypes' /\ PoolTypes' /\ IndexTypes' /\ PlaceTypes'
  BY <1>a
<1>0. /\ Ring \in Nat /\ Ring > 0 /\ Freers \in Nat
      /\ rxDescIdx \in Descriptors /\ dma \in Descriptors
      /\ Succ(rxDescIdx) \in Descriptors /\ Succ(dma) \in Descriptors
  BY Numbers, OffFacts, RxAssumption
<1>1. CASE FrameArrives
  <2>1. RingTypes'
    BY <1>b, <1>1 DEF FrameArrives, RingTypes
  <2>2. PoolTypes' /\ IndexTypes'
    BY <1>b, <1>0, <1>1 DEF FrameArrives, PoolTypes, IndexTypes, index
  <2>3. pending' \in BOOLEAN
    BY <1>b, <1>1, Zenon DEF FrameArrives
  <2>4. PlaceTypes'
    BY <1>b, <1>1, <2>3 DEF FrameArrives, PlaceTypes, ghosts
  <2> QED
    BY <2>1, <2>2, <2>4
<1>2. CASE BufferUnavailable
  BY <1>b, <1>2 DEF BufferUnavailable, RingTypes, PoolTypes, IndexTypes, PlaceTypes, ring, index,
     ghosts
<1>2a. CASE HAL_ETH_IRQHandler
  <2>1. pending' \in BOOLEAN
    BY <1>2a, Zenon DEF HAL_ETH_IRQHandler
  <2>2. sem' \in 0 .. 1 /\ UNCHANGED <<ring, index, dma, where, rxAllocStatus, gState, ethIf, p, link,
                                      checks, ghosts>>
    BY <1>2a DEF HAL_ETH_IRQHandler
  <2> QED
    BY <1>b, <2>1, <2>2 DEF RingTypes, PoolTypes, IndexTypes, PlaceTypes, ring, index, ghosts
<1>2b. CASE WaitForFrame
  BY <1>b, <1>2b DEF WaitForFrame, RingTypes, PoolTypes, IndexTypes, PlaceTypes, ring, index,
     ghosts
<1>3. CASE NotRead
  <2>1. missed' \in BOOLEAN
    BY <1>3, Zenon DEF NotRead
  <2> QED
    BY <1>b, <1>3, <2>1 DEF NotRead, RingTypes, PoolTypes, IndexTypes, PlaceTypes, ring, index
<1>4. CASE HAL_ETH_ReadData
  <2>1. RingTypes'
    BY <1>b, <1>4 DEF HAL_ETH_ReadData, RingTypes
  <2>2. PoolTypes'
    BY <1>b, <1>0, <1>4 DEF HAL_ETH_ReadData, PoolTypes, RingTypes
  <2>3. IndexTypes'
    BY <1>b, <1>0, <1>4 DEF HAL_ETH_ReadData, IndexTypes, Readable
  <2>4. PlaceTypes'
    BY <1>b, <1>4 DEF HAL_ETH_ReadData, PlaceTypes, ghosts
  <2> QED
    BY <2>1, <2>2, <2>3, <2>4
<1>5. CASE Refill
  <2>1. RingTypes'
    BY <1>b, <1>5, BuildTypes DEF Refill, RingTypes, ring
  <2>2. PoolTypes'
    BY <1>b, <1>5, BuildTypes DEF Refill, PoolTypes
  <2>3. IndexTypes'
    BY <1>b, <1>5, BuildTypes DEF Refill, IndexTypes, index
  <2>4. PlaceTypes'
    BY <1>b, <1>5 DEF Refill, PlaceTypes, ghosts
  <2> QED
    BY <2>1, <2>2, <2>3, <2>4
<1>6. CASE Deliver
  BY <1>b, <1>0, <1>6 DEF Deliver, Signal, RingTypes, PoolTypes, IndexTypes, PlaceTypes, ring, index, ghosts
<1>7. CASE CheckStatus \/ \E b \in Buffers : FreeBuffer(b)
  BY <1>b, <1>0, <1>7 DEF CheckStatus, FreeBuffer, Signal, RingTypes, PoolTypes, IndexTypes, PlaceTypes,
     ring, index, ghosts
<1>8. CASE StartBegins
  <2>1. untidy' \in BOOLEAN
    BY <1>8, Zenon DEF StartBegins
  <2> QED
    BY <1>b, <1>0, <1>8, <2>1 DEF StartBegins, RingTypes, PoolTypes, IndexTypes, PlaceTypes, ring
<1>9. CASE StartBuilds
  <2>1. RingTypes'
    BY <1>b, <1>9, BuildTypes DEF StartBuilds, RingTypes, ring
  <2>2. PoolTypes' /\ IndexTypes'
    BY <1>b, <1>9, BuildTypes DEF StartBuilds, PoolTypes, IndexTypes
  <2>3. PlaceTypes'
    BY <1>b, <1>9 DEF StartBuilds, PlaceTypes, ghosts
  <2> QED
    BY <2>1, <2>2, <2>3
<1>10. CASE StartReportsError
  <2>1. missed' \in BOOLEAN
    BY <1>10, Zenon DEF StartReportsError
  <2> QED
    BY <1>b, <1>10, <2>1 DEF StartReportsError, RingTypes, PoolTypes, IndexTypes, PlaceTypes, ring, index
<1>11. CASE StartEnables \/ StartEnds \/ StopBegins
  BY <1>b, <1>11 DEF StartEnables, StartEnds, StopBegins, RingTypes, PoolTypes, IndexTypes, PlaceTypes,
     ring, index, ghosts
<1>12. CASE StopEnds
  BY <1>b, <1>12 DEF StopEnds, RingTypes, PoolTypes, IndexTypes, PlaceTypes, index, ghosts
<1>13. CASE UNCHANGED vars
  BY <1>b, <1>13 DEF vars, ring, index, ghosts, RingTypes, PoolTypes, IndexTypes, PlaceTypes
<1> QED
  BY <1>1, <1>2, <1>2a, <1>2b, <1>3, <1>4, <1>5, <1>6, <1>7, <1>8, <1>9, <1>10, <1>11, <1>12, <1>13
     DEF Next, Hardware, EthIf, Stack, EthLink

LEMMA InitTypes == Init => TypeOK
<1> SUFFICES ASSUME Init PROVE TypeOK
  OBVIOUS
<1>1. 0 \in Descriptors /\ 0 \in 0 .. Ring /\ 0 \in 0 .. Freers /\ 0 \in 0 .. 1
  BY RxAssumption DEF Descriptors
<1>2. RingTypes /\ PoolTypes
  BY DEF Init, RingTypes, PoolTypes
<1>3. IndexTypes /\ PlaceTypes
  BY <1>1 DEF Init, IndexTypes, PlaceTypes
<1> QED
  BY <1>2, <1>3, TypeParts

\* Every variable of EthRx keeps its type.
THEOREM EthRxTypes == Spec => []TypeOK
<1>1. Init => TypeOK
  BY InitTypes
<1>2. TypeOK /\ [Next]_vars => TypeOK'
  BY TypeStep
<1> QED
  BY <1>1, <1>2, PTL DEF Spec

-----------------------------------------------------------------------------
(***************************************************************************)
(* No buffer is lost                                                       *)
(***************************************************************************)
LEMMA BuildKeeps ==
    ASSUME TypeOK, AddrInv, NoBufferLeaks, BuildDescriptor
    PROVE  AddrInv' /\ NoBufferLeaks'
<1>1. CASE backup[buildIdx] # None
  BY <1>1 DEF BuildDescriptor, AddrInv, NoBufferLeaks
<1>2. CASE backup[buildIdx] = None
  <2>1. PICK b \in Pool : /\ backup' = [backup EXCEPT ![buildIdx] = b]
                          /\ addr' = [addr EXCEPT ![buildIdx] = b]
                          /\ where' = [where EXCEPT ![b] = "ring"]
    BY <1>2 DEF BuildDescriptor
  <2>2. b \in Buffers /\ buildIdx \in Descriptors
    BY Numbers DEF Pool
  <2>3. /\ backup \in [Descriptors -> Buffers \cup {None}]
        /\ addr \in [Descriptors -> Buffers \cup {None}]
        /\ where \in [Buffers -> {"pool", "ring", "input", "stack"}]
    BY DEF TypeOK
  <2>4. AddrInv'
    BY <2>1, <2>2, <2>3 DEF AddrInv
  <2>5. ASSUME NEW c \in Buffers, where'[c] = "ring"
        PROVE  \E i \in Descriptors : backup'[i] = c
    <3>1. CASE c = b
      BY <3>1, <2>1, <2>2, <2>3
    <3>2. CASE c # b
      <4>1. where[c] = "ring"
        BY <3>2, <2>1, <2>2, <2>3, <2>5
      <4>2. PICK i \in Descriptors : backup[i] = c
        BY <4>1 DEF NoBufferLeaks
      <4>3. i # buildIdx
        BY <4>2, <1>2, RxAssumption
      <4> QED
        BY <4>2, <4>3, <2>1, <2>3
    <3> QED
      BY <3>1, <3>2
  <2> QED
    BY <2>4, <2>5 DEF NoBufferLeaks
<1> QED
  BY <1>1, <1>2

LEMMA LeakStep ==
    ASSUME TypeOK, AddrInv, NoBufferLeaks, [Next]_vars
    PROVE  AddrInv' /\ NoBufferLeaks'
<1>0. /\ backup \in [Descriptors -> Buffers \cup {None}]
      /\ addr \in [Descriptors -> Buffers \cup {None}]
      /\ where \in [Buffers -> {"pool", "ring", "input", "stack"}]
      /\ rxDescIdx \in Descriptors
  BY DEF TypeOK
<1>1. CASE UNCHANGED <<backup, addr, where>>
  BY <1>1 DEF AddrInv, NoBufferLeaks
<1>2. CASE BuildDescriptor
  BY <1>2, BuildKeeps
<1>3. CASE UNCHANGED <<backup, addr>> /\ \E b \in Buffers : \E w \in {"pool", "stack"} :
             where' = [where EXCEPT ![b] = w]
  BY <1>0, <1>3 DEF AddrInv, NoBufferLeaks
<1>4. CASE /\ backup' = [backup EXCEPT ![rxDescIdx] = None] /\ addr' = addr
           /\ where' = [where EXCEPT ![addr[rxDescIdx]] = "input"]
  <2>1. AddrInv'
    BY <1>0, <1>4 DEF AddrInv
  <2>2. ASSUME NEW c \in Buffers, where'[c] = "ring"
        PROVE  \E i \in Descriptors : backup'[i] = c
    <3>1. where[c] = "ring" /\ c # addr[rxDescIdx]
      BY <1>0, <1>4, <2>2
    <3>2. PICK i \in Descriptors : backup[i] = c
      BY <3>1 DEF NoBufferLeaks
    <3>3. i # rxDescIdx
      BY <3>1, <3>2, RxAssumption DEF AddrInv
    <3> QED
      BY <3>2, <3>3, <1>0, <1>4
  <2> QED
    BY <2>1, <2>2 DEF NoBufferLeaks
<1>5. CASE Deliver
  <2>1. p \in Buffers \cup {None}
    BY DEF TypeOK
  <2>2. CASE p \in Buffers
    BY <1>3, <1>5, <2>2 DEF Deliver, ring
  <2>3. CASE p = None
    BY <1>0, <1>5, <2>3, RxAssumption DEF Deliver, ring, AddrInv, NoBufferLeaks
  <2> QED
    BY <2>1, <2>2, <2>3
<1>6. CASE HAL_ETH_ReadData
  BY <1>1, <1>4, <1>6 DEF HAL_ETH_ReadData
<1>7. CASE \E b \in Buffers : FreeBuffer(b)
  BY <1>3, <1>7 DEF FreeBuffer, ring
<1>8. CASE Refill
  BY <1>1, <1>2, <1>8 DEF Refill, ring
<1>9. CASE StartBuilds
  BY <1>1, <1>2, <1>9 DEF StartBuilds, ring
<1>10. CASE FrameArrives
  BY <1>1, <1>10 DEF FrameArrives
<1>11. CASE StopEnds
  BY <1>1, <1>11 DEF StopEnds
<1>12. CASE \/ BufferUnavailable \/ HAL_ETH_IRQHandler \/ WaitForFrame \/ NotRead \/ CheckStatus
            \/ StartBegins \/ StartReportsError \/ StartEnables \/ StartEnds \/ StopBegins
  BY <1>1, <1>12 DEF BufferUnavailable, HAL_ETH_IRQHandler, WaitForFrame, NotRead, CheckStatus,
     StartBegins, StartReportsError, StartEnables, StartEnds, StopBegins, ring
<1>13. CASE UNCHANGED vars
  BY <1>1, <1>13 DEF vars, ring
<1> QED
  BY <1>5, <1>6, <1>7, <1>8, <1>9, <1>10, <1>11, <1>12, <1>13 DEF Next, Hardware, EthIf, Stack, EthLink

LEMMA InitLeaks == Init => AddrInv /\ NoBufferLeaks
BY RxAssumption DEF Init, AddrInv, NoBufferLeaks

\* No step of the driver loses a buffer: one that is neither in the pool nor with a
\* holder is at a descriptor, also after an untidy start.
THEOREM NoBufferIsLost == Spec => []NoBufferLeaks
<1>1. Init => TypeOK /\ AddrInv /\ NoBufferLeaks
  BY InitTypes, InitLeaks
<1>2. TypeOK /\ AddrInv /\ NoBufferLeaks /\ [Next]_vars => (TypeOK /\ AddrInv /\ NoBufferLeaks)'
  BY TypeStep, LeakStep
<1> QED
  BY <1>1, <1>2, PTL DEF Spec

-----------------------------------------------------------------------------
(***************************************************************************)
(* Who runs when                                                           *)
(***************************************************************************)
LEMMA ControlStep ==
    ASSUME TypeOK, ControlInv, [Next]_vars
    PROVE  ControlInv'
<1>0. PlaceTypes
  BY TypeParts
<1>1. CASE FrameArrives \/ BufferUnavailable
  BY <1>1 DEF FrameArrives, BufferUnavailable, ControlInv
<1>2. CASE HAL_ETH_IRQHandler
  BY <1>2 DEF HAL_ETH_IRQHandler, ControlInv
<1>3. CASE WaitForFrame \/ NotRead
  BY <1>3 DEF WaitForFrame, NotRead, ControlInv
<1>4. CASE HAL_ETH_ReadData
  BY <1>4 DEF HAL_ETH_ReadData, ControlInv
<1>5. CASE Refill
  BY <1>5 DEF Refill, ControlInv
<1>6. CASE Deliver
  BY <1>6 DEF Deliver, ControlInv
<1>7. CASE CheckStatus \/ \E b \in Buffers : FreeBuffer(b)
  BY <1>7 DEF CheckStatus, FreeBuffer, ControlInv
<1>8. CASE StartBegins \/ StartBuilds \/ StartReportsError
  BY <1>8 DEF StartBegins, StartBuilds, StartReportsError, ControlInv, OthersRun
<1>9. CASE StartEnables \/ StartEnds
  BY <1>9 DEF StartEnables, StartEnds, ControlInv, OthersRun
<1>10. CASE StopBegins \/ StopEnds
  BY <1>10 DEF StopBegins, StopEnds, ControlInv, OthersRun
<1>11. CASE UNCHANGED vars
  BY <1>11 DEF vars, ControlInv
<1> QED
  BY <1>1, <1>2, <1>3, <1>4, <1>5, <1>6, <1>7, <1>8, <1>9, <1>10, <1>11
     DEF Next, Hardware, EthIf, Stack, EthLink

-----------------------------------------------------------------------------
(***************************************************************************)
(* The layout of the ring                                                  *)
(***************************************************************************)
\* RxBuildDescIdx lies RxBuildDescCnt descriptors before RxDescIdx.
LEMMA BuildPlace ==
    ASSUME TypeOK, rxDescIdx = Wrap(buildIdx + buildCnt), buildCnt > 0
    PROVE  /\ Off(rxDescIdx, buildIdx) = Ring - buildCnt
           /\ rxDescIdx = Wrap(Succ(buildIdx) + (buildCnt - 1))
BY Numbers DEF Off, Wrap, Succ, Descriptors

LEMMA FrameKeepsLayout ==
    ASSUME TypeOK, ControlInv, NEW n \in 0 .. Ring, Layout(n), FrameArrives
    PROVE  n + 1 \in 0 .. Ring /\ Layout(n + 1)'
<1>1. n \in 0 .. Ring /\ Layout(n)
  OBVIOUS
<1>2. link # "refill"
  BY DEF FrameArrives, Receiving, ControlInv
<1>3. /\ Ring \in Nat /\ Waiting \in 0 .. Ring /\ Waiting' = Waiting
      /\ rxDescIdx \in Descriptors /\ dma \in Descriptors
      /\ UNCHANGED <<rxDescIdx, buildIdx, buildCnt, link>>
  BY Numbers DEF FrameArrives, index, Waiting
<1>4. n < Ring
  <2>1. CASE n = Ring
    <3>1. dma = rxDescIdx /\ Off(rxDescIdx, dma) = 0
      BY <2>1, <1>1, <1>3, WrapFacts, OffFacts DEF Layout
    <3> QED
      BY <3>1, <2>1, <1>1, <1>3, RxAssumption DEF Layout, FrameArrives
  <2> QED
    BY <2>1, <1>3
<1>5. Off(rxDescIdx, dma) = n
  BY <1>1, <1>3, <1>4, WrapFacts DEF Layout
<1>6. n + 1 + Waiting <= Ring
  BY <1>1, <1>3, <1>5 DEF Layout, FrameArrives
<1>7. dma' = Wrap(rxDescIdx + (n + 1))
  <2>1. n \in 0 .. Ring - 1 /\ dma = Wrap(rxDescIdx + n) /\ dma' = Succ(dma)
    BY <1>1, <1>3, <1>4 DEF Layout, FrameArrives
  <2> QED
    BY <2>1, <1>3, NextPlace
<1>8. ASSUME NEW i \in Descriptors
      PROVE  Off(rxDescIdx, i) \in Nat /\ (Off(rxDescIdx, i) = n => i = dma)
  <2>1. Off(rxDescIdx, i) \in Descriptors /\ i = Wrap(rxDescIdx + Off(rxDescIdx, i))
    BY <1>3, OffFacts
  <2> QED
    BY <2>1, <1>1 DEF Layout, Descriptors
<1>9. ASSUME NEW i \in Descriptors
      PROVE  /\ Unread(i)' <=> Off(rxDescIdx, i) < n + 1
             /\ own'[i] = "cpu" <=> Off(rxDescIdx, i) < n + 1 \/ Off(rxDescIdx, i) >= Ring - Waiting
  <2>1. CASE i = dma
    BY <2>1, <1>3, <1>5 DEF FrameArrives, Unread, TypeOK
  <2>2. CASE i # dma
    <3>1. Off(rxDescIdx, i) < n + 1 <=> Off(rxDescIdx, i) < n
      BY <2>2, <1>8
    <3>2. content'[i] = content[i] /\ own'[i] = own[i]
      BY <2>2 DEF FrameArrives, TypeOK
    <3> QED
      BY <3>1, <3>2, <1>1 DEF Layout, Unread
  <2> QED
    BY <2>1, <2>2
<1>10. Layout(n + 1)'
  BY <1>1, <1>2, <1>3, <1>6, <1>7, <1>9 DEF Layout
<1> QED
  BY <1>3, <1>4, <1>10

LEMMA ReadKeepsLayout ==
    ASSUME TypeOK, ControlInv, NEW n \in 0 .. Ring, Layout(n), HAL_ETH_ReadData, Readable
    PROVE  n - 1 \in 0 .. Ring /\ Layout(n - 1)' /\ Unread(rxDescIdx)
<1>1. n \in 0 .. Ring /\ Layout(n)
  OBVIOUS
<1>2. /\ link # "refill" /\ link' = link /\ Waiting = buildCnt /\ Waiting' = buildCnt + 1
      /\ dma' = dma /\ buildIdx' = buildIdx /\ rxDescIdx' = Succ(rxDescIdx)
      /\ buildCnt' = buildCnt + 1 /\ own' = own
      /\ content' = [content EXCEPT ![rxDescIdx] = "read"]
      /\ own[rxDescIdx] = "cpu" /\ buildCnt < Ring
  BY DEF HAL_ETH_ReadData, Readable, ControlInv, Waiting
<1>3. /\ Ring \in Nat /\ buildCnt \in 0 .. Ring /\ rxDescIdx \in Descriptors
      /\ buildIdx \in Descriptors /\ n \in 0 .. Ring /\ Off(rxDescIdx, rxDescIdx) = 0
      /\ content \in [Descriptors -> {"none", "frame", "read"}]
  BY Numbers, OffFacts DEF TypeOK
<1>4. n > 0
  BY <1>1, <1>2, <1>3 DEF Layout
<1>5. Unread(rxDescIdx)
  BY <1>1, <1>3, <1>4 DEF Layout
<1>6. rxDescIdx' = Wrap(buildIdx' + buildCnt')
  <2>1. rxDescIdx = Wrap(buildIdx + buildCnt) /\ buildCnt \in 0 .. Ring - 1
    BY <1>1, <1>2, <1>3 DEF Layout
  <2> QED
    BY <2>1, <1>2, <1>3, NextPlace
<1>7. dma' = Wrap(rxDescIdx' + (n - 1))
  <2>1. dma = Wrap(rxDescIdx + n)
    BY <1>1 DEF Layout
  <2> QED
    BY <2>1, <1>2, <1>3, <1>4 DEF Wrap, Succ, Descriptors
<1>8. ASSUME NEW i \in Descriptors
      PROVE  /\ Unread(i)' <=> Off(rxDescIdx', i) < n - 1
             /\ own'[i] = "cpu" <=> Off(rxDescIdx', i) < n - 1 \/ Off(rxDescIdx', i) >= Ring - Waiting'
  <2>1. /\ Off(rxDescIdx', i) = IF i = rxDescIdx THEN Ring - 1 ELSE Off(rxDescIdx, i) - 1
        /\ Off(rxDescIdx, i) \in Int
    <3>1. Off(Succ(rxDescIdx), i) = IF i = rxDescIdx THEN Ring - 1 ELSE Off(rxDescIdx, i) - 1
      BY <1>3, OffFacts
    <3>2. Off(rxDescIdx, i) \in Descriptors
      BY <1>3, OffFacts
    <3> QED
      BY <1>2, <3>1, <3>2 DEF Descriptors
  <2>2. CASE i = rxDescIdx
    BY <2>1, <2>2, <1>2, <1>3 DEF Unread
  <2>3. CASE i # rxDescIdx
    <3>1. content'[i] = content[i]
      BY <2>3, <1>2, <1>3
    <3>2. Unread(i)' <=> Unread(i)
      BY <3>1 DEF Unread
    <3>3. /\ Unread(i) <=> Off(rxDescIdx, i) < n
          /\ own[i] = "cpu" <=> Off(rxDescIdx, i) < n \/ Off(rxDescIdx, i) >= Ring - Waiting
      BY <1>1 DEF Layout
    <3>4. Off(rxDescIdx', i) = Off(rxDescIdx, i) - 1
      BY <2>1, <2>3
    <3> QED
      BY <2>1, <3>2, <3>3, <3>4, <1>2, <1>3
  <2> QED
    BY <2>2, <2>3
<1>9. n - 1 + Waiting' <= Ring /\ n - 1 \in 0 .. Ring
  BY <1>1, <1>2, <1>3, <1>4 DEF Layout
<1>10. Layout(n - 1)'
  BY <1>2, <1>6, <1>7, <1>8, <1>9 DEF Layout
<1> QED
  BY <1>5, <1>9, <1>10

\* ETH_UpdateDescriptor, called by ethernetif_input or by a start.
LEMMA BuildKeepsLayout ==
    ASSUME TypeOK, NEW n \in 0 .. Ring, Layout(n), BuildDescriptor,
           UNCHANGED <<rxDescIdx, dma, link>>
    PROVE  Layout(n)' /\ ~Unread(buildIdx) /\ (link = "refill" => ~\E i \in Descriptors : own[i] = "cpu")
<1>1. n \in 0 .. Ring /\ Layout(n)
  OBVIOUS
<1>2. /\ buildCnt > 0 /\ buildIdx' = Succ(buildIdx) /\ buildCnt' = buildCnt - 1
      /\ own' = [own EXCEPT ![buildIdx] = "dma"]
      /\ content' = [content EXCEPT ![buildIdx] = "none"]
  BY DEF BuildDescriptor
<1>3. /\ Ring \in Nat /\ buildCnt \in 0 .. Ring /\ rxDescIdx \in Descriptors
      /\ buildIdx \in Descriptors /\ n \in 0 .. Ring
      /\ content \in [Descriptors -> {"none", "frame", "read"}]
      /\ own \in [Descriptors -> {"dma", "cpu"}]
  BY Numbers DEF TypeOK
<1>4. /\ Off(rxDescIdx, buildIdx) = Ring - buildCnt
      /\ rxDescIdx = Wrap(Succ(buildIdx) + (buildCnt - 1))
  BY <1>1, <1>2, BuildPlace DEF Layout
<1>5. /\ n + Waiting <= Ring /\ (link = "refill" => n = 0 /\ Waiting = 0)
      /\ link # "refill" => Waiting = buildCnt
  BY <1>1 DEF Layout, Waiting
<1>6. /\ link = "refill" => Waiting' = Waiting
      /\ link # "refill" => Waiting' = Waiting - 1
  BY <1>2, <1>5 DEF Waiting
<1>7. ASSUME NEW i \in Descriptors
      PROVE  /\ Off(rxDescIdx, i) \in 0 .. Ring - 1
             /\ i # buildIdx => Off(rxDescIdx, i) # Ring - buildCnt
             /\ Unread(i) <=> Off(rxDescIdx, i) < n
             /\ own[i] = "cpu" <=> Off(rxDescIdx, i) < n \/ Off(rxDescIdx, i) >= Ring - Waiting
  <2>1. Off(rxDescIdx, i) \in Descriptors /\ i = Wrap(rxDescIdx + Off(rxDescIdx, i))
    BY <1>3, OffFacts
  <2>2. buildIdx = Wrap(rxDescIdx + Off(rxDescIdx, buildIdx))
    BY <1>3, OffFacts
  <2>3. i # buildIdx => Off(rxDescIdx, i) # Ring - buildCnt
    BY <2>1, <2>2, <1>4
  <2> QED
    BY <2>1, <2>3, <1>1 DEF Layout, Descriptors
<1>8. ASSUME NEW i \in Descriptors
      PROVE  /\ Unread(i)' <=> Off(rxDescIdx, i) < n
             /\ own'[i] = "cpu" <=> Off(rxDescIdx, i) < n \/ Off(rxDescIdx, i) >= Ring - Waiting'
  <2>1. CASE i = buildIdx
    <3>1. ~Unread(i)' /\ own'[i] = "dma"
      BY <2>1, <1>2, <1>3 DEF Unread
    <3>2. CASE link = "refill"
      BY <3>1, <3>2, <1>3, <1>5, <1>6, <1>7
    <3>3. CASE link # "refill"
      BY <2>1, <3>1, <3>3, <1>2, <1>3, <1>4, <1>5, <1>6
    <3> QED
      BY <3>2, <3>3
  <2>2. CASE i # buildIdx
    <3>1. content'[i] = content[i] /\ own'[i] = own[i]
      BY <2>2, <1>2, <1>3
    <3>2. Unread(i)' <=> Unread(i)
      BY <3>1 DEF Unread
    <3>3. Off(rxDescIdx, i) >= Ring - Waiting' <=> Off(rxDescIdx, i) >= Ring - Waiting
      BY <2>2, <1>2, <1>3, <1>5, <1>6, <1>7
    <3> QED
      BY <3>1, <3>2, <3>3, <1>7
  <2> QED
    BY <2>1, <2>2
<1>9. Layout(n)'
  <2>1. n + Waiting' <= Ring
    BY <1>2, <1>3, <1>5, <1>6
  <2> QED
    BY <2>1, <1>1, <1>2, <1>4, <1>5, <1>8 DEF Layout
<1>10. ~Unread(buildIdx)
  BY <1>2, <1>3, <1>4, <1>5, <1>7
<1>11. link = "refill" => ~\E i \in Descriptors : own[i] = "cpu"
  BY <1>3, <1>5, <1>7
<1> QED
  BY <1>9, <1>10, <1>11

-----------------------------------------------------------------------------
(***************************************************************************)
(* Buffers                                                                 *)
(***************************************************************************)
\* A pool that nobody holds a buffer of has one for every descriptor.
LEMMA PoolSuffices ==
    ASSUME TypeOK, NoBufferLeaks, \A b \in Buffers : where[b] \in {"pool", "ring"},
           NEW i \in Descriptors, backup[i] = None
    PROVE  Pool # {}
<1> SUFFICES ASSUME Pool = {} PROVE FALSE
  OBVIOUS
<1>1. \A b \in Buffers : \E d \in Descriptors \ {i} : backup[d] = b
  BY RxAssumption DEF Pool, NoBufferLeaks
<1> DEFINE f == [b \in Buffers |-> CHOOSE d \in Descriptors \ {i} : backup[d] = b]
<1>2. \A b \in Buffers : f[b] \in Descriptors \ {i} /\ backup[f[b]] = b
  BY <1>1
<1>3. f \in [Buffers -> Descriptors \ {i}]
  BY <1>2
<1>4. \A b, c \in Buffers : f[b] = f[c] => b = c
  BY <1>2
<1> HIDE DEF f
<1>5. f \in Injection(Buffers, Descriptors \ {i})
  BY <1>3, <1>4 DEF Injection, IsInjective
<1>6. IsFiniteSet(Descriptors) /\ Cardinality(Descriptors) = Ring
  <2>1. 0 \in Int /\ Ring - 1 \in Int /\ ~(0 > Ring - 1) /\ Ring - 1 - 0 + 1 = Ring
    BY RxAssumption
  <2>2. IsFiniteSet(0 .. Ring - 1) /\ Cardinality(0 .. Ring - 1) = Ring - 1 - 0 + 1
    BY <2>1, FS_Interval
  <2> QED
    BY <2>1, <2>2 DEF Descriptors
<1>7. IsFiniteSet(Descriptors \ {i}) /\ Cardinality(Descriptors \ {i}) = Ring - 1
  BY <1>6, FS_RemoveElement
<1>8. Cardinality(Buffers) <= Ring - 1
  BY <1>5, <1>7, FS_Injection
<1>9. Cardinality(Buffers) \in Nat
  BY RxAssumption, FS_CardinalityType
<1> QED
  BY <1>8, <1>9, RxAssumption

LEMMA BuildKeepsApart ==
    ASSUME TypeOK, ApartInv, BuildDescriptor, p' = p
    PROVE  /\ ApartInv' /\ backup'[buildIdx] # None
           /\ \A i \in Descriptors : i # buildIdx => backup'[i] = backup[i] /\ own'[i] = own[i]
           /\ \A b \in Buffers : where'[b] = where[b] \/ where'[b] = "ring"
<1>0. /\ backup \in [Descriptors -> Buffers \cup {None}]
      /\ where \in [Buffers -> {"pool", "ring", "input", "stack"}]
      /\ own \in [Descriptors -> {"dma", "cpu"}]
      /\ buildIdx \in Descriptors /\ p \in Buffers \cup {None}
      /\ own' = [own EXCEPT ![buildIdx] = "dma"]
  BY DEF TypeOK, BuildDescriptor
<1>1. CASE backup[buildIdx] # None
  <2>1. backup' = backup /\ where' = where
    BY <1>1 DEF BuildDescriptor
  <2> QED
    BY <1>0, <1>1, <2>1 DEF ApartInv
<1>2. CASE backup[buildIdx] = None
  <2>1. PICK b \in Pool : /\ backup' = [backup EXCEPT ![buildIdx] = b]
                          /\ where' = [where EXCEPT ![b] = "ring"]
    BY <1>2 DEF BuildDescriptor
  <2>2. b \in Buffers /\ where[b] = "pool" /\ b # None
    BY RxAssumption DEF Pool
  <2>3. \A i \in Descriptors : backup[i] # b
    BY <2>2 DEF ApartInv
  <2>4. \A i \in Descriptors : backup'[i] = IF i = buildIdx THEN b ELSE backup[i]
    BY <1>0, <2>1
  <2>5. \A c \in Buffers : where'[c] = IF c = b THEN "ring" ELSE where[c]
    BY <1>0, <2>1
  <2>6. \A i \in Descriptors : backup'[i] # None => where'[backup'[i]] = "ring"
    BY <1>0, <2>2, <2>3, <2>4, <2>5 DEF ApartInv
  <2>7. \A i, j \in Descriptors : i # j /\ backup'[i] # None => backup'[i] # backup'[j]
    BY <2>2, <2>3, <2>4 DEF ApartInv
  <2>8. p' # None => where'[p'] = "input"
    BY <1>0, <2>2, <2>5 DEF ApartInv
  <2> QED
    BY <1>0, <2>2, <2>4, <2>5, <2>6, <2>7, <2>8 DEF ApartInv
<1> QED
  BY <1>1, <1>2

\* What low_level_input has read is with nobody else.
LEMMA ReadKeepsApart ==
    ASSUME TypeOK, AddrInv, ApartInv, HAL_ETH_ReadData, Readable, backup[rxDescIdx] # None
    PROVE  ApartInv'
<1>1. /\ backup \in [Descriptors -> Buffers \cup {None}] /\ rxDescIdx \in Descriptors
      /\ where \in [Buffers -> {"pool", "ring", "input", "stack"}]
  BY DEF TypeOK
<1> DEFINE b == backup[rxDescIdx]
<1>2. b \in Buffers /\ addr[rxDescIdx] = b /\ b # None
  BY <1>1 DEF AddrInv
<1>3. /\ p' = b /\ where' = [where EXCEPT ![b] = "input"]
      /\ backup' = [backup EXCEPT ![rxDescIdx] = None]
  BY <1>2 DEF HAL_ETH_ReadData
<1>4. \A i \in Descriptors : /\ backup'[i] = IF i = rxDescIdx THEN None ELSE backup[i]
                             /\ i # rxDescIdx => backup[i] # b
  BY <1>1, <1>2, <1>3 DEF ApartInv
<1>5. \A c \in Buffers : where'[c] = IF c = b THEN "input" ELSE where[c]
  BY <1>1, <1>3
<1> HIDE DEF b
<1>6. \A i \in Descriptors : backup'[i] # None => where'[backup'[i]] = "ring"
  BY <1>1, <1>4, <1>5 DEF ApartInv
<1>7. \A i, j \in Descriptors : i # j /\ backup'[i] # None => backup'[i] # backup'[j]
  BY <1>4 DEF ApartInv
<1> QED
  BY <1>2, <1>3, <1>5, <1>6, <1>7 DEF ApartInv

\* A buffer that is not at a descriptor changes its holder.
LEMMA HandOver ==
    ASSUME TypeOK, ApartInv, backup' = backup, p' = None,
           \A c \in Buffers : where[c] = "ring" => where'[c] = "ring"
    PROVE  ApartInv'
BY DEF TypeOK, ApartInv

-----------------------------------------------------------------------------
(***************************************************************************)
(* The invariant as long as no start is untidy                             *)
(***************************************************************************)
\* Steps that do not touch the ring.
LEMMA RingUntouched ==
    ASSUME LayoutInv, UNCHANGED <<own, content, index, dma>>,
           link' = "refill" <=> link = "refill"
    PROVE  LayoutInv'
<1>1. PICK n \in 0 .. Ring : Layout(n)
  BY DEF LayoutInv
<1>2. Waiting' = Waiting
  BY DEF Waiting, index
<1>3. \A i \in Descriptors : Unread(i)' <=> Unread(i)
  BY DEF Unread
<1>4. Layout(n)'
  BY <1>1, <1>2, <1>3 DEF Layout, index
<1> QED
  BY <1>4 DEF LayoutInv

LEMMA BackedUntouched ==
    ASSUME Backed, UNCHANGED <<own, content, backup>>
    PROVE  Backed'
BY DEF Backed, Unread

\* The first start ends before anything else of the driver runs.
LEMMA NotFresh ==
    ASSUME TypeOK, ControlInv, Fresh
    PROVE  /\ ~Receiving /\ ~Enabled /\ sem = 0 /\ ethIf = "wait" /\ checks = 0 /\ ~pending
           /\ gState # "STARTED" /\ \A b \in Buffers : where[b] # "stack"
           /\ link \in {"idle", "refill"}
BY DEF Fresh, Receiving, Enabled, ControlInv, TypeOK

LEMMA HardwareTidy ==
    ASSUME TypeOK, ControlInv, Tidy, Hardware
    PROVE  Tidy'
<1>0. Backed
  BY NotFresh DEF Tidy, BackInv, Hardware, FrameArrives, BufferUnavailable, HAL_ETH_IRQHandler
<1>1. CASE FrameArrives
  <2>1. LayoutInv'
    BY <1>1, FrameKeepsLayout DEF Tidy, LayoutInv
  <2>2. backup' = backup /\ where' = where /\ p' = p /\ link' = link /\ own[dma] = "dma"
        /\ own' = [own EXCEPT ![dma] = "cpu"] /\ content' = [content EXCEPT ![dma] = "frame"]
    BY <1>1 DEF FrameArrives
  <2>3. ApartInv'
    BY <2>2 DEF Tidy, ApartInv
  <2>4. ASSUME NEW i \in Descriptors, own'[i] = "dma" \/ Unread(i)'
        PROVE  backup'[i] # None
    <3>0. /\ own \in [Descriptors -> {"dma", "cpu"}]
          /\ content \in [Descriptors -> {"none", "frame", "read"}]
      BY DEF TypeOK
    <3>1. i # dma => own'[i] = own[i] /\ content'[i] = content[i]
      BY <3>0, <2>2
    <3>2. own[i] = "dma" \/ Unread(i)
      BY <2>2, <2>4, <3>1 DEF Unread
    <3> QED
      BY <1>0, <2>2, <3>2 DEF Backed
  <2> QED
    BY <2>1, <2>2, <2>3, <2>4 DEF Tidy, BackInv, Backed
<1>2. CASE BufferUnavailable \/ HAL_ETH_IRQHandler
  <2>1. UNCHANGED <<ring, index, dma, where, p, link>>
    BY <1>2 DEF BufferUnavailable, HAL_ETH_IRQHandler
  <2>2. LayoutInv'
    BY <2>1, RingUntouched DEF Tidy, ring
  <2>3. Backed'
    BY <1>0, <2>1, BackedUntouched DEF ring
  <2> QED
    BY <2>1, <2>2, <2>3 DEF Tidy, BackInv, ApartInv, ring
<1> QED
  BY <1>1, <1>2 DEF Hardware

LEMMA RefillTidy ==
    ASSUME TypeOK, ControlInv, Tidy, Refill
    PROVE  Tidy'
<1>0. Backed /\ link = "idle"
  BY NotFresh DEF Tidy, BackInv, Refill, ControlInv, TypeOK
<1>1. dma' = dma /\ p' = p /\ link' = link /\ rxDescIdx' = rxDescIdx
  BY DEF Refill, index
<1>2. CASE BuildDescriptor
  <2>1. LayoutInv'
    BY <1>1, <1>2, BuildKeepsLayout DEF Tidy, LayoutInv
  <2>2. /\ ApartInv' /\ backup'[buildIdx] # None
        /\ \A i \in Descriptors : i # buildIdx => backup'[i] = backup[i] /\ own'[i] = own[i]
    BY <1>1, <1>2, BuildKeepsApart DEF Tidy
  <2>3. \A i \in Descriptors : i # buildIdx => content'[i] = content[i]
    BY <1>2 DEF BuildDescriptor, TypeOK
  <2>4. Backed'
    BY <1>0, <2>2, <2>3 DEF Backed, Unread
  <2> QED
    BY <1>1, <2>1, <2>2, <2>4 DEF Tidy, BackInv
<1>3. CASE UNCHANGED <<ring, index, where>>
  <2>1. LayoutInv'
    BY <1>1, <1>3, RingUntouched DEF Tidy, ring
  <2>2. Backed'
    BY <1>0, <1>3, BackedUntouched DEF ring
  <2> QED
    BY <1>1, <1>3, <2>1, <2>2 DEF Tidy, BackInv, ApartInv, ring
<1> QED
  BY <1>2, <1>3 DEF Refill

LEMMA EthIfTidy ==
    ASSUME TypeOK, ControlInv, AddrInv, Tidy, EthIf
    PROVE  Tidy'
<1>0. Backed
  BY NotFresh DEF Tidy, BackInv, EthIf, WaitForFrame, NotRead, HAL_ETH_ReadData, Refill, Deliver
<1>1. CASE Refill
  BY <1>1, RefillTidy
<1>2. CASE HAL_ETH_ReadData /\ Readable
  <2>1. LayoutInv' /\ Unread(rxDescIdx)
    BY <1>2, ReadKeepsLayout DEF Tidy, LayoutInv
  <2>2. rxDescIdx \in Descriptors /\ backup[rxDescIdx] # None
    BY <1>0, <2>1, Numbers DEF Backed
  <2>3. ApartInv'
    BY <1>2, <2>2, ReadKeepsApart DEF Tidy
  <2>4. /\ own' = own /\ link' = link /\ rxDescIdx \in Descriptors
        /\ content' = [content EXCEPT ![rxDescIdx] = "read"]
        /\ backup' = [backup EXCEPT ![rxDescIdx] = None]
        /\ own[rxDescIdx] = "cpu"
    BY <1>2, <2>2 DEF HAL_ETH_ReadData, Readable
  <2>5. /\ content \in [Descriptors -> {"none", "frame", "read"}]
        /\ backup \in [Descriptors -> Buffers \cup {None}]
    BY DEF TypeOK
  <2>6. Backed'
    BY <1>0, <2>4, <2>5 DEF Backed, Unread
  <2> QED
    BY <2>1, <2>3, <2>4, <2>6 DEF Tidy, BackInv
<1>3. CASE WaitForFrame \/ NotRead \/ (HAL_ETH_ReadData /\ ~Readable)
  <2>1. UNCHANGED <<own, content, backup, index, dma, where, p, link>>
    BY <1>3 DEF WaitForFrame, NotRead, HAL_ETH_ReadData, ring, index
  <2>2. LayoutInv'
    BY <2>1, RingUntouched DEF Tidy
  <2>3. Backed'
    BY <1>0, <2>1, BackedUntouched
  <2> QED
    BY <2>1, <2>2, <2>3 DEF Tidy, BackInv, ApartInv
<1>4. CASE Deliver
  <2>1. UNCHANGED <<own, content, backup, index, dma, link>> /\ p' = None
    BY <1>4 DEF Deliver, ring
  <2>2. LayoutInv'
    BY <2>1, RingUntouched DEF Tidy
  <2>3. Backed'
    BY <1>0, <2>1, BackedUntouched
  <2>4. p \in Buffers /\ where[p] = "input"
    BY <1>4 DEF Deliver, ControlInv, Tidy, ApartInv, TypeOK
  <2>5. PICK w \in {"stack", "pool"} : where' = [where EXCEPT ![p] = w]
    BY <1>4 DEF Deliver
  <2>6. ApartInv /\ \A c \in Buffers : where[c] = "ring" => where'[c] = "ring"
    BY <2>4, <2>5 DEF Tidy, TypeOK
  <2>7. ApartInv'
    BY <2>1, <2>6, HandOver
  <2> QED
    BY <2>1, <2>2, <2>3, <2>7 DEF Tidy, BackInv
<1> QED
  BY <1>1, <1>2, <1>3, <1>4 DEF EthIf

LEMMA StackTidy ==
    ASSUME TypeOK, ControlInv, Tidy, Stack
    PROVE  Tidy'
<1>0. Backed /\ (ethIf = "wait" => p = None)
  BY NotFresh DEF Tidy, BackInv, Stack, CheckStatus, FreeBuffer, ControlInv
<1>1. UNCHANGED <<own, content, backup, index, dma, p, link>>
  BY DEF Stack, CheckStatus, FreeBuffer, ring
<1>2. LayoutInv'
  BY <1>1, RingUntouched DEF Tidy
<1>3. Backed'
  BY <1>0, <1>1, BackedUntouched
<1>4. CASE CheckStatus
  <2>1. where' = where
    BY <1>4 DEF CheckStatus
  <2>2. ApartInv'
    BY <1>1, <2>1 DEF Tidy, ApartInv
  <2> QED
    BY <1>1, <1>2, <1>3, <2>2 DEF Tidy, BackInv
<1>5. ASSUME NEW b \in Buffers, FreeBuffer(b)
      PROVE  Tidy'
  <2>1. where[b] = "stack" /\ where' = [where EXCEPT ![b] = "pool"] /\ p' = None
    BY <1>0, <1>1, <1>5 DEF FreeBuffer, OthersRun
  <2>2. ApartInv /\ \A c \in Buffers : where[c] = "ring" => where'[c] = "ring"
    BY <2>1 DEF Tidy, TypeOK
  <2>3. ApartInv'
    BY <1>1, <2>1, <2>2, HandOver
  <2> QED
    BY <1>1, <1>2, <1>3, <2>3 DEF Tidy, BackInv
<1> QED
  BY <1>4, <1>5 DEF Stack

\* HAL_ETH_Start_IT on a ring with nothing to read and nothing to refill.
LEMMA StartBeginsTidy ==
    ASSUME TypeOK, ControlInv, Tidy, StartBegins, ~untidy'
    PROVE  Tidy'
<1>1. buildCnt = 0 /\ \A i \in Descriptors : ~Unread(i)
  <2>1. ~(buildCnt > 0) /\ ~(\E i \in Descriptors : Unread(i))
    <3>1. untidy' = (untidy \/ buildCnt > 0 \/ \E i \in Descriptors : Unread(i))
      BY DEF StartBegins
    <3> QED
      BY <3>1, Zenon
  <2> QED
    BY <2>1, Numbers
<1>2. PICK n \in 0 .. Ring : Layout(n)
  BY DEF Tidy, LayoutInv
<1>3. /\ Ring \in Nat /\ Ring > 0 /\ rxDescIdx \in Descriptors /\ buildIdx \in Descriptors
      /\ n \in 0 .. Ring /\ link = "idle" /\ gState = "READY"
      /\ link' = "refill" /\ gState' = "BUSY" /\ buildCnt' = Ring
      /\ UNCHANGED <<own, content, backup, rxDescIdx, buildIdx, dma, where, p, sem, ethIf, checks,
                     pending>>
  BY Numbers DEF StartBegins, ring
<1>4. n = 0
  BY <1>1, <1>2, <1>3, OffFacts DEF Layout
<1>5. Waiting = 0 /\ Waiting' = 0
  BY <1>1, <1>3 DEF Waiting
<1>6. rxDescIdx = Wrap(buildIdx + 0) /\ rxDescIdx = Wrap(buildIdx + Ring)
  <2>1. rxDescIdx = Wrap(buildIdx + 0)
    BY <1>1, <1>2 DEF Layout
  <2> QED
    BY <2>1, <1>3 DEF Wrap, Descriptors
<1>7. \A i \in Descriptors : Unread(i)' <=> Unread(i)
  BY <1>3 DEF Unread
<1>8. Layout(0)'
  BY <1>2, <1>3, <1>4, <1>5, <1>6, <1>7 DEF Layout
<1>9. BackInv'
  <2>1. CASE Backed
    BY <1>3, <2>1, BackedUntouched DEF BackInv
  <2>2. CASE Fresh
    <3>1. \A i \in Descriptors : ~(Off(rxDescIdx, i) < Ring - Ring)
      BY <1>3, OffFacts DEF Descriptors
    <3> QED
      BY <1>3, <2>2, <3>1 DEF BackInv, Fresh
  <2> QED
    BY <2>1, <2>2 DEF Tidy, BackInv
<1> QED
  BY <1>3, <1>8, <1>9 DEF Tidy, LayoutInv, ApartInv

LEMMA StartBuildsTidy ==
    ASSUME TypeOK, ControlInv, NoBufferLeaks, Tidy, StartBuilds
    PROVE  Tidy'
<1>1. /\ link = "refill" /\ UNCHANGED <<rxDescIdx, dma, sem, pending, gState, ethIf, p, checks>>
      /\ rxDescIdx \in Descriptors /\ buildIdx \in Descriptors /\ buildCnt \in 0 .. Ring
      /\ Ring \in Nat
  BY Numbers DEF StartBuilds
<1>2. PICK n \in 0 .. Ring : Layout(n)
  BY DEF Tidy, LayoutInv
<1>3. /\ n = 0 /\ \A i \in Descriptors : ~Unread(i) /\ own[i] = "dma"
  <2>1. n = 0 /\ Waiting = 0
    BY <1>1, <1>2 DEF Layout, Waiting
  <2>2. \A i \in Descriptors : Off(rxDescIdx, i) \in 0 .. Ring - 1
    BY <1>1, OffFacts DEF Descriptors
  <2> QED
    BY <1>1, <1>2, <2>1, <2>2 DEF Layout, TypeOK
<1>4. ~AllocFails
  <2>1. CASE Backed
    BY <1>1, <1>3, <2>1 DEF AllocFails, Backed
  <2>2. CASE Fresh
    BY <1>1, <2>2, PoolSuffices DEF AllocFails, Fresh
  <2> QED
    BY <2>1, <2>2 DEF Tidy, BackInv
<1>5. CASE buildCnt > 0
  <2>1. BuildDescriptor /\ link' = link
    BY <1>4, <1>5 DEF StartBuilds
  <2>2. LayoutInv'
    BY <1>1, <2>1, BuildKeepsLayout DEF Tidy, LayoutInv
  <2>3. /\ ApartInv' /\ backup'[buildIdx] # None
        /\ \A i \in Descriptors : i # buildIdx => backup'[i] = backup[i] /\ own'[i] = own[i]
        /\ \A b \in Buffers : where'[b] = where[b] \/ where'[b] = "ring"
    BY <1>1, <2>1, BuildKeepsApart DEF Tidy
  <2>4. CASE Backed
    <3>1. \A i \in Descriptors : backup'[i] # None
      BY <1>3, <2>3, <2>4 DEF Backed
    <3> QED
      BY <1>1, <2>1, <2>2, <2>3, <3>1 DEF Tidy, BackInv, Backed
  <2>5. CASE Fresh
    <3>1. buildCnt' = buildCnt - 1
      BY <2>1 DEF BuildDescriptor
    <3>2. ASSUME NEW i \in Descriptors, Off(rxDescIdx, i) < Ring - buildCnt'
          PROVE  backup'[i] # None
      <4>1. i = buildIdx \/ Off(rxDescIdx, i) # Off(rxDescIdx, buildIdx)
        <5>1. /\ i = Wrap(rxDescIdx + Off(rxDescIdx, i))
              /\ buildIdx = Wrap(rxDescIdx + Off(rxDescIdx, buildIdx))
          BY <1>1, OffFacts
        <5> QED
          BY <5>1
      <4>2. Off(rxDescIdx, buildIdx) = Ring - buildCnt
        BY <1>2, <1>5, BuildPlace DEF Layout
      <4>3. Off(rxDescIdx, i) \in Int
        BY <1>1, OffFacts DEF Descriptors
      <4>4. i # buildIdx => Off(rxDescIdx, i) < Ring - buildCnt
        BY <1>1, <3>1, <3>2, <4>1, <4>2, <4>3
      <4>5. \A d \in Descriptors : Off(rxDescIdx, d) < Ring - buildCnt => backup[d] # None
        BY <1>1, <2>5 DEF Fresh, ControlInv
      <4> QED
        BY <2>3, <4>4, <4>5
    <3>3. \A b \in Buffers : where'[b] \in {"pool", "ring"}
      BY <2>3, <2>5 DEF Fresh
    <3>4. Fresh'
      BY <1>1, <2>1, <2>5, <3>2, <3>3 DEF Fresh
    <3> QED
      BY <1>1, <2>1, <2>2, <2>3, <3>4 DEF Tidy, BackInv
  <2> QED
    BY <2>4, <2>5 DEF Tidy, BackInv
<1>6. CASE ~(buildCnt > 0)
  <2>1. link' = "receiving" /\ UNCHANGED <<own, content, backup, buildIdx, buildCnt, where>>
    BY <1>4, <1>6 DEF StartBuilds, ring
  <2>2. buildCnt = 0
    BY <1>1, <1>6
  <2>3. Waiting = 0 /\ Waiting' = 0
    BY <1>1, <2>1, <2>2 DEF Waiting
  <2>4. \A i \in Descriptors : Unread(i)' <=> Unread(i)
    BY <2>1 DEF Unread
  <2>5. Layout(n)'
    BY <1>1, <1>2, <2>1, <2>3, <2>4 DEF Layout
  <2>6. Backed
    <3>1. CASE Fresh
      <4>1. \A i \in Descriptors : Off(rxDescIdx, i) < Ring - buildCnt
        BY <1>1, <2>2, OffFacts DEF Descriptors
      <4> QED
        BY <1>1, <3>1, <4>1 DEF Fresh, ControlInv, Backed
    <3> QED
      BY <3>1 DEF Tidy, BackInv
  <2>7. Backed'
    BY <2>1, <2>6, BackedUntouched
  <2> QED
    BY <1>1, <2>1, <2>5, <2>7 DEF Tidy, LayoutInv, ApartInv, BackInv
<1> QED
  BY <1>5, <1>6

LEMMA EthLinkTidy ==
    ASSUME TypeOK, ControlInv, NoBufferLeaks, Tidy, EthLink, ~untidy'
    PROVE  Tidy'
<1>1. CASE StartBegins
  BY <1>1, StartBeginsTidy
<1>2. CASE StartBuilds
  BY <1>2, StartBuildsTidy
<1>3. CASE StartReportsError
  BY <1>3 DEF StartReportsError, Tidy
<1>4. CASE StartEnables \/ StartEnds \/ StopBegins \/ StopEnds
  <2>1. link \notin {"refill"} /\ link' \notin {"refill", "failed"}
    BY <1>4 DEF StartEnables, StartEnds, StopBegins, StopEnds
  <2>2. UNCHANGED <<own, content, backup, index, dma, where, p>>
    BY <1>4 DEF StartEnables, StartEnds, StopBegins, StopEnds, ring
  <2>3. Backed
    <3>1. ~Fresh
      BY <1>4, NotFresh DEF StartEnables, StartEnds, StopBegins, StopEnds
    <3> QED
      BY <3>1 DEF Tidy, BackInv
  <2>4. LayoutInv'
    BY <2>1, <2>2, RingUntouched DEF Tidy
  <2>5. Backed'
    BY <2>2, <2>3, BackedUntouched
  <2> QED
    BY <2>1, <2>2, <2>4, <2>5 DEF Tidy, BackInv, ApartInv
<1> QED
  BY <1>1, <1>2, <1>3, <1>4 DEF EthLink

LEMMA TidyStep ==
    ASSUME IInv, [Next]_vars
    PROVE  TidyInv'
<1> SUFFICES ASSUME ~untidy' PROVE Tidy'
  BY DEF TidyInv
<1>1. CASE Next
  <2>1. ~untidy
    BY <1>1, Zenon DEF Next, Hardware, EthIf, Stack, EthLink, FrameArrives, BufferUnavailable,
       HAL_ETH_IRQHandler, WaitForFrame, NotRead, HAL_ETH_ReadData, Refill, Deliver, CheckStatus,
       FreeBuffer, StartBegins, StartBuilds, StartReportsError, StartEnables, StartEnds,
       StopBegins, StopEnds, ghosts
  <2>2. TypeOK /\ ControlInv /\ AddrInv /\ NoBufferLeaks /\ Tidy
    BY <2>1 DEF IInv, TidyInv
  <2> QED
    BY <1>1, <2>2, HardwareTidy, EthIfTidy, StackTidy, EthLinkTidy DEF Next
<1>2. CASE UNCHANGED vars
  <2>1. UNCHANGED <<own, content, backup, index, dma, where, p, link, gState, sem, ethIf, checks, pending,
                    untidy>>
    BY <1>2 DEF vars, ring, ghosts
  <2>2. Tidy
    BY <2>1 DEF IInv, TidyInv
  <2>3. LayoutInv'
    BY <2>1, <2>2, RingUntouched DEF Tidy
  <2>4. BackInv'
    BY <2>1, <2>2 DEF Tidy, BackInv, Backed, Fresh, Unread, index
  <2> QED
    BY <2>1, <2>2, <2>3, <2>4 DEF Tidy, ApartInv
<1> QED
  BY <1>1, <1>2

LEMMA InitTidy == Init => ControlInv /\ TidyInv
<1> SUFFICES ASSUME Init PROVE ControlInv /\ TidyInv
  OBVIOUS
<1>1. ControlInv
  BY DEF Init, ControlInv
<1>2. /\ Ring \in Nat /\ Ring > 0 /\ 0 \in Descriptors /\ 0 \in 0 .. Ring
      /\ Waiting = 0 /\ rxDescIdx = 0 /\ buildIdx = 0 /\ buildCnt = 0 /\ dma = 0
  BY RxAssumption DEF Init, Waiting, Descriptors
<1>3. \A i \in Descriptors : Off(0, i) \in 0 .. Ring - 1 /\ own[i] = "dma" /\ ~Unread(i) /\ backup[i] = None
  BY <1>2, OffFacts DEF Init, Unread, Descriptors
<1>4. Layout(0)
  BY <1>2, <1>3 DEF Layout, Wrap
<1>5. ApartInv /\ Fresh /\ link # "failed"
  BY <1>3 DEF Init, ApartInv, Fresh
<1> QED
  BY <1>1, <1>2, <1>4, <1>5 DEF TidyInv, Tidy, LayoutInv, BackInv

LEMMA InitInv == Init => IInv
BY InitTypes, InitLeaks, InitTidy DEF IInv

LEMMA StepInv ==
    ASSUME IInv, [Next]_vars
    PROVE  IInv'
<1>1. TypeOK /\ ControlInv /\ AddrInv /\ NoBufferLeaks
  BY DEF IInv
<1>2. TypeOK'
  BY <1>1, TypeStep
<1>3. ControlInv'
  BY <1>1, ControlStep
<1>4. AddrInv' /\ NoBufferLeaks'
  BY <1>1, LeakStep
<1>5. TidyInv'
  BY TidyStep
<1> QED
  BY <1>2, <1>3, <1>4, <1>5 DEF IInv

-----------------------------------------------------------------------------
(***************************************************************************)
(* Somebody wakes ethernetif_input                                         *)
(***************************************************************************)
\* What a step of ETH_UpdateDescriptor leaves to build, and what it writes.
LEMMA BuildLeaves ==
    ASSUME TypeOK, BuildDescriptor, NEW i \in Descriptors
    PROVE  /\ ToBuild(i) => i = buildIdx \/ ToBuild(i)'
           /\ own'[i] = IF i = buildIdx THEN "dma" ELSE own[i]
           /\ content'[i] = IF i = buildIdx THEN "none" ELSE content[i]
           /\ quiet'[i] = IF i = buildIdx THEN FALSE ELSE quiet[i]
           /\ addr[i] # None => addr'[i] # None
<1>1. /\ buildIdx \in Descriptors /\ buildCnt \in 0 .. Ring /\ Off(buildIdx, i) \in Int
      /\ buildIdx' = Succ(buildIdx) /\ buildCnt' = buildCnt - 1
  BY Numbers, OffFacts DEF BuildDescriptor, Descriptors
<1>2. ToBuild(i) => i = buildIdx \/ ToBuild(i)'
  <2>1. i # buildIdx => Off(Succ(buildIdx), i) = Off(buildIdx, i) - 1
    BY <1>1, OffFacts
  <2>2. i # buildIdx => Off(buildIdx, i)' = Off(buildIdx, i) - 1
    BY <1>1, <2>1 DEF Off
  <2> QED
    BY <1>1, <2>2 DEF ToBuild
<1>3. /\ own'[i] = IF i = buildIdx THEN "dma" ELSE own[i]
      /\ content'[i] = IF i = buildIdx THEN "none" ELSE content[i]
      /\ quiet'[i] = IF i = buildIdx THEN FALSE ELSE quiet[i]
  BY DEF BuildDescriptor, TypeOK
<1>4. addr[i] # None => addr'[i] # None
  <2>1. \A b \in Pool : b # None
    BY RxAssumption DEF Pool
  <2> QED
    BY <2>1 DEF BuildDescriptor, TypeOK
<1> QED
  BY <1>2, <1>3, <1>4

\* A start that counts the whole ring leaves every descriptor to build.
LEMMA WholeRing ==
    ASSUME TypeOK, NEW i \in Descriptors
    PROVE  /\ buildCnt = Ring => ToBuild(i)
           /\ buildIdx' = buildIdx /\ buildCnt' = Ring => ToBuild(i)'
           /\ buildIdx' = buildIdx /\ buildCnt' = buildCnt + 1 => (ToBuild(i) => ToBuild(i)')
           /\ buildIdx' = buildIdx /\ buildCnt' = buildCnt => (ToBuild(i) <=> ToBuild(i)')
<1>1. Off(buildIdx, i) \in Int /\ Off(buildIdx, i) < Ring /\ buildCnt \in Int
  <2>1. Off(buildIdx, i) \in Descriptors /\ buildCnt \in 0 .. Ring /\ Ring \in Nat
    BY Numbers, OffFacts
  <2> QED
    BY <2>1 DEF Descriptors
<1>2. buildIdx' = buildIdx => Off(buildIdx, i)' = Off(buildIdx, i)
  BY DEF Off
<1> QED
  BY <1>1, <1>2 DEF ToBuild

LEMMA WrittenStep ==
    ASSUME IInv, WrittenInv, [Next]_vars
    PROVE  WrittenInv'
<1>0. /\ TypeOK /\ ControlInv /\ AddrInv
      /\ own \in [Descriptors -> {"dma", "cpu"}]
      /\ content \in [Descriptors -> {"none", "frame", "read"}]
      /\ rxDescIdx \in Descriptors /\ dma \in Descriptors
  BY DEF IInv, TypeOK
<1>1. CASE UNCHANGED <<own, content, addr, untidy>>
  BY <1>1 DEF WrittenInv, Unread
<1>2. CASE BuildDescriptor /\ untidy' = untidy
  BY <1>0, <1>2, BuildLeaves DEF WrittenInv, Unread
<1>3. CASE FrameArrives
  <2>1. own[dma] = "dma" /\ Receiving
    BY <1>3 DEF FrameArrives
  <2>2. /\ \A i \in Descriptors : own'[i] = IF i = dma THEN "cpu" ELSE own[i]
        /\ \A i \in Descriptors : content'[i] = IF i = dma THEN "frame" ELSE content[i]
        /\ addr' = addr /\ untidy' = untidy
    BY <1>0, <1>3 DEF FrameArrives, ghosts
  <2>3. addr[dma] # None
    <3>1. CASE untidy
      BY <1>0, <3>1 DEF WrittenInv
    <3>2. CASE ~untidy
      <4>1. Backed
        BY <1>0, <2>1, <3>2, NotFresh DEF IInv, TidyInv, Tidy, BackInv
      <4> QED
        BY <1>0, <2>1, <4>1 DEF Backed, AddrInv
    <3> QED
      BY <3>1, <3>2
  <2> QED
    BY <2>2, <2>3 DEF WrittenInv, Unread
<1>4. CASE HAL_ETH_ReadData
  <2>1. /\ own' = own /\ addr' = addr /\ untidy' = untidy
        /\ \A i \in Descriptors : content'[i] = content[i] \/ content'[i] = "read"
    BY <1>0, <1>4 DEF HAL_ETH_ReadData, ghosts
  <2> QED
    BY <2>1 DEF WrittenInv, Unread
<1>5. CASE StartBegins
  <2>1. UNCHANGED <<own, content, addr>>
    BY <1>5 DEF StartBegins, ring
  <2>2. CASE untidy' = untidy
    BY <1>1, <2>1, <2>2
  <2>3. CASE untidy' # untidy
    <3>1. untidy' = (untidy \/ buildCnt > 0 \/ \E i \in Descriptors : Unread(i))
      BY <1>5 DEF StartBegins
    <3>2. ~untidy /\ (buildCnt > 0 \/ \E i \in Descriptors : Unread(i))
      BY <2>3, <3>1, <1>0, Zenon DEF TypeOK
    <3>3. Backed
      <4>1. ~Fresh
        <5>1. link = "idle"
          BY <1>5 DEF StartBegins
        <5> QED
          BY <3>2, <5>1, <1>0, Numbers DEF Fresh
      <4> QED
        BY <3>2, <4>1 DEF IInv, TidyInv, Tidy, BackInv
    <3>4. \A i \in Descriptors : addr[i] # None
      BY <1>0, <3>3 DEF Backed, AddrInv, WrittenInv
    <3> QED
      BY <2>1, <3>4 DEF WrittenInv, Unread
  <2> QED
    BY <2>2, <2>3
<1>6. CASE Refill
  BY <1>1, <1>2, <1>6 DEF Refill, ring, ghosts
<1>7. CASE StartBuilds
  BY <1>1, <1>2, <1>7 DEF StartBuilds, ring, ghosts
<1>8. CASE Deliver \/ CheckStatus \/ \E b \in Buffers : FreeBuffer(b)
  BY <1>1, <1>8 DEF Deliver, CheckStatus, FreeBuffer, ring, ghosts
<1>9. CASE \/ BufferUnavailable \/ HAL_ETH_IRQHandler \/ WaitForFrame \/ NotRead
           \/ StartReportsError \/ StartEnables \/ StartEnds \/ StopBegins \/ StopEnds
  BY <1>1, <1>9 DEF BufferUnavailable, HAL_ETH_IRQHandler, WaitForFrame, NotRead,
     StartReportsError, StartEnables, StartEnds, StopBegins, StopEnds, ring, ghosts
<1>10. CASE UNCHANGED vars
  BY <1>1, <1>10 DEF vars, ring, ghosts
<1> QED
  BY <1>3, <1>4, <1>5, <1>6, <1>7, <1>8, <1>9, <1>10 DEF Next, Hardware, EthIf, Stack, EthLink

LEMMA BuildStep ==
    ASSUME IInv, WrittenInv, BuildInv, [Next]_vars
    PROVE  BuildInv'
<1>0. /\ TypeOK /\ ControlInv
      /\ content \in [Descriptors -> {"none", "frame", "read"}]
      /\ rxDescIdx \in Descriptors /\ dma \in Descriptors
  BY DEF IInv, TypeOK
<1>1. CASE FrameArrives
  <2>1. /\ link # "refill" /\ link # "failed" /\ link' = link /\ UNCHANGED <<quiet, index, gState, ethIf, rxAllocStatus>>
    BY <1>0, <1>1 DEF FrameArrives, Receiving, ControlInv
  <2> QED
    BY <1>0, <2>1, WholeRing DEF BuildInv, index
<1>2. CASE HAL_ETH_ReadData
  <2>1. /\ link' = link /\ link = "idle" /\ gState' = gState /\ quiet' = quiet /\ buildIdx' = buildIdx
        /\ buildCnt' = buildCnt + 1 \/ buildCnt' = buildCnt
        /\ rxAllocStatus' = rxAllocStatus /\ rxAllocStatus = "RX_ALLOC_OK"
    BY <1>0, <1>2 DEF HAL_ETH_ReadData, ControlInv
  <2> QED
    BY <1>0, <2>1, WholeRing DEF BuildInv
<1>3. CASE Refill
  <2>1. link' = link /\ link = "idle" /\ gState' = gState /\ rxAllocStatus = "RX_ALLOC_OK"
    BY <1>0, <1>3 DEF Refill, ControlInv, BuildInv
  <2>2. CASE BuildDescriptor /\ UNCHANGED <<ethIf, rxAllocStatus>>
    BY <1>0, <2>1, <2>2, BuildLeaves DEF BuildInv
  <2>3. CASE UNCHANGED <<ring, index>> /\ ethIf' # "refill"
    BY <1>0, <2>1, <2>3, WholeRing DEF BuildInv, ring, index
  <2> QED
    BY <1>3, <2>2, <2>3 DEF Refill
<1>4. CASE StartBegins
  <2>1. /\ link' = "refill" /\ buildCnt' = Ring /\ buildIdx' = buildIdx /\ ethIf' = ethIf /\ ethIf = "wait"
    BY <1>4 DEF StartBegins, OthersRun
  <2> QED
    BY <1>0, <2>1, WholeRing DEF BuildInv
<1>5. CASE StartBuilds
  <2>1. /\ link = "refill" /\ gState' = gState /\ gState # "READY" /\ ethIf' = ethIf /\ ethIf = "wait"
    BY <1>0, <1>5 DEF StartBuilds, OthersRun, ControlInv
  <2>2. CASE BuildDescriptor /\ link' = link
    BY <1>0, <2>1, <2>2, BuildLeaves DEF BuildInv, Unread
  <2>3. CASE /\ UNCHANGED <<ring, buildIdx, buildCnt>>
             /\ link' = IF AllocFails THEN "failed" ELSE "receiving"
    BY <1>0, <2>1, <2>3, WholeRing DEF BuildInv, AllocFails, ring
  <2> QED
    BY <1>5, <2>2, <2>3 DEF StartBuilds
<1>6. CASE Deliver \/ CheckStatus \/ \E b \in Buffers : FreeBuffer(b)
  <2>1. UNCHANGED <<quiet, content, backup, index, gState, link>> /\ ethIf' # "refill"
    BY <1>6 DEF Deliver, CheckStatus, FreeBuffer, OthersRun, ring
  <2> QED
    BY <1>0, <2>1, WholeRing DEF BuildInv, Unread, index
<1>7. CASE StopEnds
  BY <1>7 DEF StopEnds, BuildInv, OthersRun
<1>8. CASE BufferUnavailable \/ HAL_ETH_IRQHandler \/ WaitForFrame \/ NotRead
  <2>1. UNCHANGED <<quiet, content, backup, index, gState, link, rxAllocStatus>>
        /\ (ethIf' = ethIf \/ ethIf' # "refill")
    BY <1>8 DEF BufferUnavailable, HAL_ETH_IRQHandler, WaitForFrame, NotRead, ring
  <2> QED
    BY <1>0, <2>1, WholeRing DEF BuildInv, Unread, index
<1>9. CASE StartReportsError \/ StartEnables \/ StartEnds \/ StopBegins
  <2>1. /\ UNCHANGED <<quiet, content, backup, index, ethIf>> /\ ethIf = "wait"
        /\ gState # "READY" /\ link' \notin {"refill", "failed"}
    BY <1>0, <1>9 DEF StartReportsError, StartEnables, StartEnds, StopBegins, ring, OthersRun,
       ControlInv
  <2> QED
    BY <1>0, <2>1, WholeRing DEF BuildInv, Unread, index
<1>10. CASE UNCHANGED vars
  <2>1. UNCHANGED <<quiet, content, backup, index, gState, link, rxAllocStatus, ethIf>>
    BY <1>10 DEF vars, ring
  <2> QED
    BY <1>0, <2>1, WholeRing DEF BuildInv, Unread, index
<1> QED
  BY <1>1, <1>2, <1>3, <1>4, <1>5, <1>6, <1>7, <1>8, <1>9, <1>10
     DEF Next, Hardware, EthIf, Stack, EthLink

LEMMA TokenStep ==
    ASSUME IInv, WrittenInv, BuildInv, TokenInv, [Next]_vars
    PROVE  TokenInv'
<1>0. /\ TypeOK /\ ControlInv /\ PlaceTypes
      /\ content \in [Descriptors -> {"none", "frame", "read"}]
      /\ rxDescIdx \in Descriptors /\ dma \in Descriptors /\ buildCnt \in 0 .. Ring /\ Ring \in Nat
  BY TypeParts, RxAssumption DEF IInv, TypeOK
<1>1. CASE FrameArrives
  <2>1. /\ UNCHANGED <<index, sem, gState, ethIf, p, link, rxAllocStatus, missed>>
        /\ gState # "READY"
        /\ \A i \in Descriptors : content'[i] = IF i = dma THEN "frame" ELSE content[i]
    BY <1>0, <1>1 DEF FrameArrives, ghosts, Receiving, ControlInv
  <2>2. pending' = (pending \/ ~quiet[dma])
    BY <1>1 DEF FrameArrives
  <2>3. rxDescIdx = dma => pending' \/ ToBuild(rxDescIdx)
    BY <1>0, <2>1, <2>2 DEF BuildInv
  <2>4. ToBuild(rxDescIdx) => buildCnt > 0
    <3>1. Off(buildIdx, rxDescIdx) \in Descriptors
      BY <1>0, Numbers, OffFacts
    <3> QED
      BY <1>0, <3>1 DEF ToBuild, Descriptors
  <2>5. pending => pending'
    BY <2>2
  <2>6. ToBuild(rxDescIdx)' <=> ToBuild(rxDescIdx)
    BY <2>1 DEF ToBuild, Off, index
  <2>7. ethIf \in {"wait", "input", "refill", "deliver"}
    BY <1>0 DEF PlaceTypes
  <2>8. Receiving' <=> Receiving
    BY <2>1 DEF Receiving
  <2>9. Unread(rxDescIdx)' => Unread(rxDescIdx) \/ rxDescIdx = dma
    BY <1>0, <2>1 DEF Unread, index
  <2> QED
    BY <2>1, <2>3, <2>4, <2>5, <2>6, <2>7, <2>8, <2>9 DEF TokenInv, index
<1>2. CASE HAL_ETH_ReadData
  <2>1. /\ ethIf' = "refill" /\ link' = link /\ gState' = gState /\ link = "idle" /\ buildIdx' = buildIdx
        /\ ethIf = "input" /\ content \in [Descriptors -> {"none", "frame", "read"}]
    BY <1>0, <1>2 DEF HAL_ETH_ReadData, ControlInv
  <2>2. CASE Readable
    <3>1. p' = addr[rxDescIdx] /\ own[rxDescIdx] = "cpu"
      BY <1>2, <2>2 DEF HAL_ETH_ReadData, Readable
    <3> QED
      BY <1>0, <2>1, <3>1 DEF TokenInv, WrittenInv
  <2>3. CASE ~Readable
    <3>1. UNCHANGED <<content, rxDescIdx, buildCnt>>
      BY <1>2, <2>3 DEF HAL_ETH_ReadData
    <3>2. Unread(rxDescIdx) => ToBuild(rxDescIdx)
      BY <1>0, <2>3, WholeRing DEF Readable, WrittenInv
    <3>3. Unread(rxDescIdx)' => ToBuild(rxDescIdx)'
      BY <1>0, <2>1, <3>1, <3>2 DEF Unread, ToBuild, Off
    <3> QED
      BY <2>1, <3>3 DEF TokenInv
  <2> QED
    BY <2>2, <2>3
<1>3. CASE Refill
  <2>1. /\ UNCHANGED <<dma, sem, pending, gState, p, link, missed, rxDescIdx>> /\ ethIf = "refill"
        /\ rxAllocStatus = "RX_ALLOC_OK" /\ (Receiving' <=> Receiving)
    BY <1>3 DEF Refill, BuildInv, ghosts, Receiving, index
  <2>2. CASE BuildDescriptor /\ ethIf' = ethIf
    <3>1. Unread(rxDescIdx)' => Unread(rxDescIdx) /\ (ToBuild(rxDescIdx) => ToBuild(rxDescIdx)')
      <4>1. /\ content'[rxDescIdx] = IF rxDescIdx = buildIdx THEN "none" ELSE content[rxDescIdx]
            /\ ToBuild(rxDescIdx) => rxDescIdx = buildIdx \/ Off(buildIdx', rxDescIdx) < buildCnt'
        BY <1>0, <2>2, BuildLeaves DEF ToBuild, Off
      <4> QED
        BY <2>1, <4>1 DEF Unread, ToBuild, Off
    <3> QED
      BY <2>1, <2>2, <3>1 DEF TokenInv
  <2>3. CASE /\ UNCHANGED <<ring, index>> /\ ethIf' = IF p = None THEN "wait" ELSE "deliver"
             /\ rxAllocStatus' = "RX_ALLOC_OK" => buildCnt = 0
    <3>1. Unread(rxDescIdx)' <=> Unread(rxDescIdx)
      BY <2>3 DEF Unread, ring, index
    <3>2. buildCnt = 0 => ~ToBuild(rxDescIdx)
      <4>1. Off(buildIdx, rxDescIdx) \in Descriptors
        BY <1>0, Numbers, OffFacts
      <4> QED
        BY <1>0, <4>1 DEF ToBuild, Descriptors
    <3> QED
      BY <1>0, <2>1, <2>3, <3>1, <3>2 DEF TokenInv, index
  <2> QED
    <3>1. (AllocFails /\ rxAllocStatus' = "RX_ALLOC_ERROR") \/ ~AllocFails
      BY <1>3 DEF Refill, AllocFails, BuildDescriptor
    <3> QED
      BY <1>3, <2>2, <2>3, <3>1 DEF Refill
<1>4. CASE WaitForFrame \/ HAL_ETH_IRQHandler \/ Deliver
  <2>1. sem' = 1 \/ ethIf' = "input"
    BY <1>4 DEF WaitForFrame, HAL_ETH_IRQHandler, Deliver
  <2> QED
    BY <2>1 DEF TokenInv
<1>5. CASE NotRead
  <2>1. UNCHANGED <<rxAllocStatus, gState, link>>
    BY <1>5 DEF NotRead
  <2>2. missed' = (missed \/ (rxAllocStatus = "RX_ALLOC_OK" /\ Receiving))
    BY <1>5 DEF NotRead
  <2>3. Receiving' <=> Receiving
    BY <2>1 DEF Receiving
  <2> QED
    BY <2>1, <2>2, <2>3, Zenon DEF TokenInv
<1>6. CASE CheckStatus
  <2>1. CASE rxAllocStatus = "RX_ALLOC_ERROR"
    BY <1>6, <2>1 DEF CheckStatus, Signal, TokenInv
  <2>2. CASE rxAllocStatus # "RX_ALLOC_ERROR"
    <3>1. UNCHANGED <<content, index, rxAllocStatus, sem, pending, gState, ethIf, p, link, missed>>
      BY <1>6, <2>2 DEF CheckStatus, Signal, ring, ghosts
    <3> QED
      BY <3>1 DEF TokenInv, Receiving, Unread, ToBuild, Off, index
  <2> QED
    BY <2>1, <2>2
<1>7. CASE \E b \in Buffers : FreeBuffer(b)
  <2>1. UNCHANGED <<content, index, rxAllocStatus, sem, pending, gState, ethIf, p, link, missed>>
    BY <1>7 DEF FreeBuffer, ring, ghosts
  <2> QED
    BY <2>1 DEF TokenInv, Receiving, Unread, ToBuild, Off, index
<1>8. CASE StartBegins \/ StopBegins \/ StopEnds
  <2>1. ~Receiving'
    BY <1>0, <1>8 DEF StartBegins, StopBegins, StopEnds, Receiving
  <2> QED
    BY <2>1 DEF TokenInv
<1>9. CASE StartBuilds
  <2>1. CASE BuildDescriptor /\ link' = link
    <3>1. ~Receiving'
      BY <1>0, <1>9, <2>1 DEF StartBuilds, Receiving, ControlInv
    <3> QED
      BY <3>1 DEF TokenInv
  <2>2. CASE AllocFails
    <3>1. ~Receiving'
      BY <1>0, <1>9, <2>2 DEF StartBuilds, Receiving, ControlInv
    <3> QED
      BY <3>1 DEF TokenInv
  <2>3. CASE buildCnt = 0 /\ UNCHANGED <<ring, index>>
    <3>1. \A i \in Descriptors : ~ToBuild(i)
      <4>1. \A i \in Descriptors : Off(buildIdx, i) \in Descriptors
        BY <1>0, Numbers, OffFacts
      <4> QED
        BY <1>0, <2>3, <4>1 DEF ToBuild, Descriptors
    <3>2. ~Unread(rxDescIdx)
      BY <1>0, <1>9, <3>1 DEF BuildInv, StartBuilds
    <3> QED
      BY <1>0, <2>3, <3>2 DEF TokenInv, Unread, ring, index
  <2> QED
    BY <1>0, <1>9, <2>1, <2>2, <2>3 DEF StartBuilds, index
<1>10. CASE StartReportsError
  BY <1>10 DEF StartReportsError, TokenInv
<1>11. CASE StartEnables \/ StartEnds
  <2>1. /\ UNCHANGED <<content, index, rxAllocStatus, sem, pending, ethIf, p, missed>> /\ Receiving
    BY <1>11 DEF StartEnables, StartEnds, ring, ghosts, Receiving
  <2> QED
    BY <2>1 DEF TokenInv, Unread, ToBuild, Off, index
<1>12. CASE BufferUnavailable
  <2>1. pending' /\ UNCHANGED <<buildCnt, rxAllocStatus, sem, gState, ethIf, link, missed>>
    BY <1>12 DEF BufferUnavailable, index, ghosts
  <2> QED
    BY <2>1 DEF TokenInv, Receiving
<1>13. CASE UNCHANGED vars
  BY <1>13 DEF vars, ring, ghosts, TokenInv, Receiving, Unread, ToBuild, Off, index
<1> QED
  BY <1>1, <1>2, <1>3, <1>4, <1>5, <1>6, <1>7, <1>8, <1>9, <1>10, <1>11, <1>12, <1>13
     DEF Next, Hardware, EthIf, Stack, EthLink

\* A descriptor that cannot get a buffer: one is in ethernetif_input or in the stack.
LEMMA SomebodyHolds ==
    ASSUME TypeOK, ControlInv, NoBufferLeaks, HolderInv,
           Pool = {}, backup[buildIdx] = None, p = None
    PROVE  \E b \in Buffers : where[b] = "stack"
<1>1. buildIdx \in Descriptors
  BY Numbers
<1>2. PICK b \in Buffers : where[b] \notin {"pool", "ring"}
  BY <1>1, PoolSuffices
<1>3. where[b] # "input"
  BY RxAssumption DEF HolderInv
<1> QED
  BY <1>2, <1>3 DEF TypeOK

LEMMA HolderStep ==
    ASSUME IInv, BuildInv, HolderInv, [Next]_vars
    PROVE  HolderInv'
<1>0. /\ TypeOK /\ ControlInv /\ NoBufferLeaks /\ PlaceTypes
      /\ where \in [Buffers -> {"pool", "ring", "input", "stack"}]
      /\ p \in Buffers \cup {None} /\ rxAllocStatus \in {"RX_ALLOC_OK", "RX_ALLOC_ERROR"}
      /\ None \notin Buffers /\ checks \in Nat
  BY TypeParts, RxAssumption DEF IInv, TypeOK
<1>1. CASE UNCHANGED <<where, p, rxAllocStatus, checks, missed>> /\ (ethIf' = ethIf \/ ethIf # "deliver")
  BY <1>1 DEF HolderInv
<1>2. CASE /\ BuildDescriptor
           /\ UNCHANGED <<p, rxAllocStatus, checks, missed, ethIf>>
  <2>1. \A b \in Buffers : where'[b] = where[b] \/ (where[b] = "pool" /\ where'[b] = "ring")
    <3>1. where' = where \/ \E c \in Pool : where' = [where EXCEPT ![c] = "ring"]
      BY <1>2 DEF BuildDescriptor
    <3>2. ASSUME NEW c \in Pool, where' = [where EXCEPT ![c] = "ring"], NEW b \in Buffers
          PROVE  where'[b] = where[b] \/ (where[b] = "pool" /\ where'[b] = "ring")
      BY <1>0, <3>2 DEF Pool
    <3> QED
      BY <3>1, <3>2
  <2>2. \A b \in Buffers : where'[b] = "input" => where[b] = "input"
    BY <2>1
  <2>3. \A b \in Buffers : where[b] = "stack" => where'[b] = "stack"
    BY <2>1
  <2>4. UNCHANGED <<p, rxAllocStatus, checks, missed, ethIf>>
    BY <1>2
  <2> QED
    BY <2>2, <2>3, <2>4 DEF HolderInv
<1>3. CASE HAL_ETH_ReadData
  <2>0. /\ rxAllocStatus' = rxAllocStatus /\ rxAllocStatus = "RX_ALLOC_OK" /\ p = None
    BY <1>0, <1>3 DEF HAL_ETH_ReadData, ControlInv
  <2>1. CASE Readable
    <3>1. p' = addr[rxDescIdx] /\ where' = [where EXCEPT ![addr[rxDescIdx]] = "input"]
      BY <1>3, <2>1 DEF HAL_ETH_ReadData
    <3>2. \A b \in Buffers : where'[b] = "input" => where[b] = "input" \/ b = p'
      BY <1>0, <3>1
    <3> QED
      BY <1>0, <2>0, <3>2 DEF HolderInv
  <2>2. CASE ~Readable
    BY <1>3, <2>0, <2>2 DEF HAL_ETH_ReadData, HolderInv
  <2> QED
    BY <2>1, <2>2
<1>4. CASE Refill
  <2>1. /\ UNCHANGED <<p, checks, missed>> /\ ethIf = "refill" /\ rxAllocStatus = "RX_ALLOC_OK"
    BY <1>4 DEF Refill, BuildInv, ghosts
  <2>2. CASE BuildDescriptor /\ UNCHANGED <<rxAllocStatus, ethIf>>
    BY <1>2, <2>1, <2>2
  <2>3. CASE /\ where' = where /\ ethIf' = IF p = None THEN "wait" ELSE "deliver"
             /\ rxAllocStatus' = IF AllocFails THEN "RX_ALLOC_ERROR" ELSE rxAllocStatus
    <3>1. CASE AllocFails /\ p = None
      BY <1>0, <2>1, <2>3, <3>1, SomebodyHolds DEF AllocFails, HolderInv
    <3>2. CASE ~(AllocFails /\ p = None)
      BY <2>1, <2>3, <3>2 DEF HolderInv
    <3> QED
      BY <3>1, <3>2
  <2> QED
    BY <1>4, <2>2, <2>3 DEF Refill
<1>5. CASE Deliver
  <2>1. /\ p \in Buffers /\ p' = None /\ UNCHANGED <<checks, missed>>
    BY <1>0, <1>5 DEF Deliver, ControlInv, ghosts
  <2>2. CASE where' = [where EXCEPT ![p] = "stack"]
    BY <1>0, <2>1, <2>2 DEF HolderInv
  <2>3. CASE where' = [where EXCEPT ![p] = "pool"] /\ Signal
    <3>1. rxAllocStatus' = "RX_ALLOC_OK"
      BY <1>0, <2>3 DEF Signal
    <3> QED
      BY <1>0, <2>1, <2>3, <3>1 DEF HolderInv
  <2> QED
    BY <1>5, <2>2, <2>3 DEF Deliver
<1>6. CASE CheckStatus
  <2>1. rxAllocStatus' = "RX_ALLOC_OK" /\ UNCHANGED <<where, p>>
    BY <1>0, <1>6 DEF CheckStatus, Signal
  <2> QED
    BY <2>1 DEF HolderInv
<1>7. ASSUME NEW b \in Buffers, FreeBuffer(b)
      PROVE  HolderInv'
  <2>1. where' = [where EXCEPT ![b] = "pool"] /\ checks' = checks + 1 /\ p' = p
    BY <1>7 DEF FreeBuffer
  <2> QED
    BY <1>0, <2>1 DEF HolderInv
<1>8. CASE StartBuilds
  BY <1>1, <1>2, <1>8 DEF StartBuilds, ghosts
<1>9. CASE StartReportsError
  <2>1. missed' = (missed \/ Pool # {})
    BY <1>9 DEF StartReportsError
  <2>2. UNCHANGED <<where, p, checks, ethIf>> /\ p = None /\ backup[buildIdx] = None
    BY <1>0, <1>9 DEF StartReportsError, OthersRun, ControlInv, BuildInv
  <2>3. CASE Pool = {}
    BY <1>0, <2>2, <2>3, SomebodyHolds DEF HolderInv
  <2>4. CASE Pool # {}
    <3>1. missed' = TRUE
      BY <2>1, <2>4, Zenon
    <3> QED
      BY <2>2, <3>1 DEF HolderInv
  <2> QED
    BY <2>3, <2>4
<1>10. CASE NotRead
  <2>1. UNCHANGED <<where, p, rxAllocStatus, checks>> /\ ethIf = "input"
    BY <1>10 DEF NotRead
  <2>2. missed => missed'
    BY <1>10, Zenon DEF NotRead
  <2> QED
    BY <2>1, <2>2 DEF HolderInv
<1>11. CASE \/ FrameArrives \/ BufferUnavailable \/ HAL_ETH_IRQHandler \/ WaitForFrame
            \/ StartBegins \/ StartEnables \/ StartEnds \/ StopBegins \/ StopEnds
  BY <1>1, <1>11 DEF FrameArrives, BufferUnavailable, HAL_ETH_IRQHandler, WaitForFrame,
     StartBegins, StartEnables, StartEnds, StopBegins, StopEnds, ghosts
<1>12. CASE UNCHANGED vars
  BY <1>1, <1>12 DEF vars, ghosts
<1> QED
  BY <1>3, <1>4, <1>5, <1>6, <1>7, <1>8, <1>9, <1>10, <1>11, <1>12
     DEF Next, Hardware, EthIf, Stack, EthLink

LEMMA InitWake == Init => WakeInv
<1> SUFFICES ASSUME Init PROVE WakeInv
  OBVIOUS
<1>1. \A i \in Descriptors : ~Unread(i) /\ own[i] = "dma" /\ ~quiet[i]
  BY DEF Init, Unread
<1>2. WrittenInv /\ BuildInv
  BY <1>1 DEF Init, WrittenInv, BuildInv
<1>3. TokenInv /\ HolderInv
  BY DEF Init, TokenInv, HolderInv, Receiving
<1> QED
  BY <1>2, <1>3 DEF WakeInv

LEMMA WakeHolds ==
    ASSUME IInv, WakeInv
    PROVE  NoFrameForgotten
<1> SUFFICES ASSUME gState = "STARTED", ethIf = "wait", sem = 0, ~pending, Unread(rxDescIdx), ~missed
             PROVE  /\ rxAllocStatus = "RX_ALLOC_ERROR"
                    /\ checks > 0 \/ \E b \in Buffers : where[b] = "stack"
  BY DEF NoFrameForgotten, OthersRun
<1>1. rxAllocStatus = "RX_ALLOC_ERROR"
  BY DEF WakeInv, TokenInv, Receiving, IInv, TypeOK
<1> QED
  BY <1>1 DEF WakeInv, HolderInv

-----------------------------------------------------------------------------
(***************************************************************************)
(* The ring is the queue of RxQueue                                        *)
(***************************************************************************)
\* The number of frames to read, from RxDescIdx and the place of the DMA.
LEMMA Between ==
    ASSUME NEW r \in Descriptors, NEW n \in 0 .. Ring, NEW d, d = Wrap(r + n), n # 0
    PROVE  n = IF d > r THEN d - r ELSE d - r + Ring
BY RxAssumption DEF Wrap, Descriptors

LEMMA ArrivedNow ==
    ASSUME TypeOK, NEW n \in 0 .. Ring, Layout(n)
    PROVE  /\ Arrived = n /\ ToRead = [k \in 1 .. n |-> addr[Wrap(rxDescIdx + (k - 1))]]
           /\ ToRead \in [1 .. n -> Buffers \cup {None}]
           /\ \A k \in 1 .. n : /\ Wrap(rxDescIdx + (k - 1)) \in Descriptors
                                /\ Unread(Wrap(rxDescIdx + (k - 1)))
<1>1. /\ Ring \in Nat /\ rxDescIdx \in Descriptors /\ Off(rxDescIdx, rxDescIdx) = 0
      /\ addr \in [Descriptors -> Buffers \cup {None}]
  BY Numbers, OffFacts DEF TypeOK
<1>2. Unread(rxDescIdx) <=> n # 0
  BY <1>1 DEF Layout
<1>3. Arrived = n
  BY <1>1, <1>2, Between DEF Arrived, Layout
<1>4. ASSUME NEW k \in 1 .. n
      PROVE  Wrap(rxDescIdx + (k - 1)) \in Descriptors /\ Unread(Wrap(rxDescIdx + (k - 1)))
  <2>1. k - 1 \in 0 .. Ring /\ k - 1 < Ring /\ k - 1 < n
    BY <1>1
  <2>2. Wrap(rxDescIdx + (k - 1)) \in Descriptors /\ Off(rxDescIdx, Wrap(rxDescIdx + (k - 1))) = k - 1
    BY <1>1, <2>1, WrapFacts
  <2> QED
    BY <2>1, <2>2 DEF Layout
<1> QED
  BY <1>1, <1>3, <1>4 DEF ToRead

LEMMA ArrivedThen ==
    ASSUME TypeOK', NEW m \in 0 .. Ring, Layout(m)'
    PROVE  Arrived' = m /\ ToRead' = [k \in 1 .. m |-> addr'[Wrap(rxDescIdx' + (k - 1))]]
<1>1. Ring \in Nat /\ Ring > 0 /\ rxDescIdx' \in Descriptors
  BY RxAssumption DEF TypeOK
<1>2. Off(rxDescIdx', rxDescIdx') = 0
  BY <1>1, OffFacts
<1>3. content'[rxDescIdx'] = "frame" <=> m # 0
  BY <1>1, <1>2 DEF Layout, Unread
<1>4. dma' = Wrap(rxDescIdx' + m)
  BY DEF Layout
<1>5. Arrived' = m
  BY <1>1, <1>3, <1>4, Between DEF Arrived, Unread
<1> QED
  BY <1>5 DEF ToRead

\* One buffer goes from one owner to another.
LEMMA Moves ==
    ASSUME NEW b \in Buffers, NEW from, NEW to, Place(b) \in from, Place(b)' = to,
           \A c \in Buffers : c # b => Place(c)' = Place(c)
    PROVE  Queue!Move(b, from, to)
BY DEF Queue!Move, Owners

LEMMA QueueUntouched ==
    ASSUME UNCHANGED <<content, backup, addr, rxDescIdx, dma, where>>
    PROVE  UNCHANGED Queue!queueVars
<1>1. ToRead' = ToRead
  BY DEF ToRead, Arrived, Unread
<1>2. \A b \in Buffers : Place(b)' = Place(b)
  BY DEF Place, Filled, Unread
<1> QED
  BY <1>1, <1>2 DEF Queue!queueVars, Owners

LEMMA FrameIsQueued ==
    ASSUME TypeOK, ControlInv, AddrInv, Tidy, TypeOK', FrameArrives
    PROVE  \E b \in Buffers : Queue!Arrive(b)
<1>0. Backed /\ ApartInv
  BY NotFresh DEF Tidy, BackInv, FrameArrives
<1>1. PICK n \in 0 .. Ring : Layout(n)
  BY DEF Tidy, LayoutInv
<1>2. n + 1 \in 0 .. Ring /\ Layout(n + 1)'
  BY <1>1, FrameKeepsLayout
<1>3. /\ own[dma] = "dma" /\ content' = [content EXCEPT ![dma] = "frame"]
      /\ UNCHANGED <<backup, addr, rxDescIdx, where>>
      /\ content \in [Descriptors -> {"none", "frame", "read"}] /\ dma \in Descriptors
      /\ backup \in [Descriptors -> Buffers \cup {None}] /\ Ring \in Nat /\ n \in Nat
  BY Numbers DEF FrameArrives, index, TypeOK
<1>4. PICK b \in Buffers : b = backup[dma] /\ addr[dma] = b /\ b # None /\ where[b] = "ring"
  BY <1>0, <1>3, RxAssumption DEF Backed, AddrInv, ApartInv
<1>5. dma = Wrap(rxDescIdx + n) /\ ~Unread(dma)
  <2>1. Off(rxDescIdx, dma) = n
    BY <1>1, <1>2, Numbers, WrapFacts DEF Layout
  <2> QED
    BY <1>1, <1>3, <2>1 DEF Layout
<1>6. \A i \in Descriptors : Unread(i)' <=> Unread(i) \/ i = dma
  BY <1>3 DEF Unread
<1>7. \A i \in Descriptors : backup[i] = b => i = dma
  BY <1>0, <1>3, <1>4 DEF ApartInv
<1>8. Place(b) = "posted" /\ Place(b)' = "filled"
  <2>1. ~Filled(b)
    BY <1>4, <1>5, <1>7 DEF Filled
  <2>2. Filled(b)'
    BY <1>3, <1>4, <1>6 DEF Filled
  <2> QED
    BY <1>3, <1>4, <2>1, <2>2 DEF Place
<1>9. ASSUME NEW c \in Buffers, c # b PROVE Place(c)' = Place(c)
  <2>1. Filled(c)' <=> Filled(c)
    BY <1>3, <1>4, <1>6, <1>9 DEF Filled
  <2> QED
    BY <1>3, <2>1 DEF Place
<1>10. Queue!Move(b, {"posted"}, "filled")
  BY <1>4, <1>8, <1>9, Moves
<1>11. ToRead' = Append(ToRead, b)
  <2> DEFINE f == ToRead
             h == ToRead'
             S == Buffers \cup {None}
  <2>1. f = [k \in 1 .. n |-> addr[Wrap(rxDescIdx + (k - 1))]] /\ f \in [1 .. n -> S]
    BY <1>1, ArrivedNow
  <2>2. h = [k \in 1 .. n + 1 |-> addr[Wrap(rxDescIdx + (k - 1))]]
    BY <1>2, <1>3, ArrivedThen
  <2>3. \A k \in 1 .. n : k \in 1 .. n + 1 /\ h[k] = f[k]
    BY <1>3, <2>1, <2>2
  <2>4. n + 1 \in 1 .. n + 1 /\ (n + 1) - 1 = n /\ h[n + 1] = b
    BY <1>3, <1>4, <1>5, <2>2
  <2>5. DOMAIN h = 1 .. n + 1 /\ h = [k \in 1 .. n + 1 |-> h[k]]
    BY <2>2
  <2>6. \A k \in 1 .. n + 1 : h[k] \in S
    <3>1. \A k \in 1 .. n + 1 : k \in 1 .. n \/ k = n + 1
      BY <1>3
    <3> QED
      BY <1>4, <2>1, <2>3, <2>4, <3>1
  <2> HIDE DEF f, h, S
  <2>7. h \in [1 .. n + 1 -> S]
    BY <2>5, <2>6
  <2>8. b \in S
    BY <1>4 DEF S
  <2>9. h = Append(f, b)
    BY <1>3, <2>1, <2>3, <2>4, <2>7, <2>8
  <2> QED
    BY <2>9 DEF f, h
<1> QED
  BY <1>4, <1>10, <1>11 DEF Queue!Arrive

\* low_level_input takes the oldest frame.
LEMMA FirstIsRead ==
    ASSUME TypeOK, ControlInv, AddrInv, Tidy, HolderInv, TypeOK', HAL_ETH_ReadData, Readable
    PROVE  Queue!ReadFirst
<1>0. Backed /\ ApartInv
  BY NotFresh DEF Tidy, BackInv, HAL_ETH_ReadData
<1>1. PICK n \in 0 .. Ring : Layout(n)
  BY DEF Tidy, LayoutInv
<1>2. n - 1 \in 0 .. Ring /\ Layout(n - 1)' /\ Unread(rxDescIdx)
  BY <1>1, ReadKeepsLayout
<1>3. /\ content \in [Descriptors -> {"none", "frame", "read"}] /\ rxDescIdx \in Descriptors
      /\ backup \in [Descriptors -> Buffers \cup {None}] /\ Ring \in Nat /\ n \in Nat
      /\ where \in [Buffers -> {"pool", "ring", "input", "stack"}]
  BY Numbers DEF TypeOK
<1>4. PICK b \in Buffers :
        b = backup[rxDescIdx] /\ addr[rxDescIdx] = b /\ b # None /\ where[b] = "ring"
  BY <1>0, <1>2, <1>3, RxAssumption DEF Backed, AddrInv, ApartInv
<1>5. /\ where' = [where EXCEPT ![b] = "input"] /\ backup' = [backup EXCEPT ![rxDescIdx] = None]
      /\ content' = [content EXCEPT ![rxDescIdx] = "read"] /\ addr' = addr
      /\ rxDescIdx' = Succ(rxDescIdx) /\ p = None
  BY <1>4 DEF HAL_ETH_ReadData, ControlInv
<1>6. \A i \in Descriptors : /\ Unread(i)' <=> Unread(i) /\ i # rxDescIdx
                             /\ i # rxDescIdx => backup'[i] = backup[i]
                             /\ backup[i] = b => i = rxDescIdx
  BY <1>0, <1>3, <1>4, <1>5 DEF Unread, ApartInv
<1>7. \A c \in Buffers : Place(c) # "input"
  BY <1>5, RxAssumption DEF Place, HolderInv
<1>8. Place(b) = "filled" /\ Place(b)' = "input"
  <2>1. Filled(b)
    BY <1>2, <1>3, <1>4 DEF Filled
  <2> QED
    BY <1>3, <1>4, <1>5, <2>1 DEF Place
<1>9. ASSUME NEW c \in Buffers, c # b PROVE Place(c)' = Place(c)
  <2>1. Filled(c)' <=> Filled(c)
    BY <1>4, <1>6, <1>9 DEF Filled
  <2>2. where'[c] = where[c]
    BY <1>3, <1>5, <1>9
  <2> QED
    BY <2>1, <2>2 DEF Place
<1>10. Queue!Move(b, {"filled"}, "input")
  BY <1>4, <1>8, <1>9, Moves
<1>11. ToRead # <<>> /\ Head(ToRead) = b /\ ToRead' = Tail(ToRead)
  <2> DEFINE f == ToRead
             h == ToRead'
             S == Buffers \cup {None}
  <2>1. f = [k \in 1 .. n |-> addr[Wrap(rxDescIdx + (k - 1))]] /\ f \in [1 .. n -> S] /\ n > 0
    BY <1>1, <1>2, <1>3, ArrivedNow
  <2>2. h = [k \in 1 .. n - 1 |-> addr[Wrap(Succ(rxDescIdx) + (k - 1))]]
    BY <1>2, <1>5, ArrivedThen
  <2>3. \A k \in 1 .. n - 1 : k + 1 \in 1 .. n /\ h[k] = f[k + 1]
    <3>1. ASSUME NEW k \in 1 .. n - 1
          PROVE  k + 1 \in 1 .. n /\ Wrap(Succ(rxDescIdx) + (k - 1)) = Wrap(rxDescIdx + ((k + 1) - 1))
      BY <1>2, <1>3 DEF Wrap, Succ, Descriptors
    <3> QED
      BY <2>1, <2>2, <3>1
  <2>4. f[1] = b
    <3>1. 1 \in 1 .. n /\ Wrap(rxDescIdx + (1 - 1)) = rxDescIdx
      BY <1>3, <2>1 DEF Wrap, Descriptors
    <3> QED
      BY <1>4, <2>1, <3>1
  <2>5. h = [k \in 1 .. n - 1 |-> h[k]] /\ \A k \in 1 .. n - 1 : h[k] \in S
    BY <2>1, <2>2, <2>3
  <2> HIDE DEF f, h, S
  <2>6. h \in [1 .. n - 1 -> S]
    BY <2>5
  <2>7. /\ n \in Nat /\ n > 0 /\ f \in [1 .. n -> S] /\ h \in [1 .. n - 1 -> S]
        /\ \A k \in 1 .. n - 1 : h[k] = f[k + 1]
    BY <1>3, <2>1, <2>3, <2>6
  <2>8. f # <<>> /\ h = Tail(f)
    BY <2>7
  <2>9. Head(f) = b
    BY <2>4, <2>7
  <2> QED
    BY <2>8, <2>9 DEF f, h
<1> QED
  BY <1>7, <1>10, <1>11 DEF Queue!ReadFirst, Owners

\* A descriptor that gets a buffer posts it; one that has its buffer changes nothing.
LEMMA BuildPosts ==
    ASSUME TypeOK, Tidy, TypeOK', BuildDescriptor, UNCHANGED <<rxDescIdx, dma, link>>
    PROVE  (\E b \in Buffers : Queue!Post(b)) \/ UNCHANGED Queue!queueVars
<1>0. ApartInv
  BY DEF Tidy
<1>1. PICK n \in 0 .. Ring : Layout(n)
  BY DEF Tidy, LayoutInv
<1>2. Layout(n)' /\ ~Unread(buildIdx)
  BY <1>1, BuildKeepsLayout
<1>3. /\ content' = [content EXCEPT ![buildIdx] = "none"]
      /\ content \in [Descriptors -> {"none", "frame", "read"}] /\ buildIdx \in Descriptors
      /\ backup \in [Descriptors -> Buffers \cup {None}] /\ addr \in [Descriptors -> Buffers \cup {None}]
      /\ where \in [Buffers -> {"pool", "ring", "input", "stack"}] /\ Ring \in Nat
  BY Numbers DEF BuildDescriptor, TypeOK
<1>4. \A i \in Descriptors : Unread(i)' <=> Unread(i)
  BY <1>2, <1>3 DEF Unread
<1>5. ASSUME \A i \in Descriptors : i # buildIdx => addr'[i] = addr[i]
      PROVE  ToRead' = ToRead
  <2>1. ToRead = [k \in 1 .. n |-> addr[Wrap(rxDescIdx + (k - 1))]]
    BY <1>1, ArrivedNow
  <2>2. ToRead' = [k \in 1 .. n |-> addr'[Wrap(rxDescIdx + (k - 1))]]
    BY <1>2, ArrivedThen
  <2>3. \A k \in 1 .. n : addr'[Wrap(rxDescIdx + (k - 1))] = addr[Wrap(rxDescIdx + (k - 1))]
    BY <1>1, <1>2, <1>5, ArrivedNow
  <2> QED
    BY <2>1, <2>2, <2>3
<1>6. CASE backup[buildIdx] # None
  <2>1. UNCHANGED <<backup, addr, where>>
    BY <1>6 DEF BuildDescriptor
  <2>2. \A b \in Buffers : Place(b)' = Place(b)
    BY <1>4, <2>1 DEF Place, Filled
  <2> QED
    BY <1>5, <2>1, <2>2 DEF Queue!queueVars, Owners
<1>7. CASE backup[buildIdx] = None
  <2>1. PICK b \in Pool : /\ backup' = [backup EXCEPT ![buildIdx] = b]
                          /\ addr' = [addr EXCEPT ![buildIdx] = b]
                          /\ where' = [where EXCEPT ![b] = "ring"]
    BY <1>7 DEF BuildDescriptor
  <2>2. b \in Buffers /\ where[b] = "pool" /\ b # None
    BY RxAssumption DEF Pool
  <2>3. \A i \in Descriptors : backup'[i] = IF i = buildIdx THEN b ELSE backup[i]
    BY <1>3, <2>1
  <2>4. \A i \in Descriptors : backup[i] # b
    BY <1>0, <2>2 DEF ApartInv
  <2>5. Place(b) = "pool" /\ Place(b)' = "posted"
    <3>1. ~Filled(b)'
      BY <1>2, <1>4, <2>3, <2>4 DEF Filled
    <3> QED
      BY <1>3, <2>1, <2>2, <3>1 DEF Place
  <2>6. ASSUME NEW c \in Buffers, c # b PROVE Place(c)' = Place(c)
    <3>1. Filled(c)' <=> Filled(c)
      BY <1>2, <1>4, <1>7, <2>3, <2>6, RxAssumption DEF Filled
    <3>2. where'[c] = where[c]
      BY <1>3, <2>1, <2>6
    <3> QED
      BY <3>1, <3>2 DEF Place
  <2>7. Queue!Move(b, {"pool"}, "posted")
    BY <2>2, <2>5, <2>6, Moves
  <2>8. ToRead' = ToRead
    BY <1>3, <1>5, <2>1
  <2> QED
    BY <2>2, <2>7, <2>8 DEF Queue!Post
<1> QED
  BY <1>6, <1>7

\* A buffer that is not at a descriptor changes its owner.
LEMMA OwnerChanges ==
    ASSUME TypeOK, NEW b \in Buffers, NEW to \in {"pool", "stack"}, where[b] # "ring",
           UNCHANGED <<ring, index, dma>>, where' = [where EXCEPT ![b] = to]
    PROVE  Queue!Move(b, {where[b]}, to) /\ ToRead' = ToRead
<1>1. where \in [Buffers -> {"pool", "ring", "input", "stack"}]
  BY DEF TypeOK
<1>2. \A c \in Buffers : Filled(c)' <=> Filled(c)
  BY DEF Filled, Unread, ring
<1>3. Place(b) = where[b] /\ Place(b)' = to
  BY <1>1, <1>2 DEF Place
<1>4. \A c \in Buffers : c # b => Place(c)' = Place(c)
  BY <1>1, <1>2 DEF Place
<1>5. ToRead' = ToRead
  BY DEF ToRead, Arrived, Unread, ring, index
<1>6. Queue!Move(b, {where[b]}, to)
  BY <1>3, <1>4, Moves
<1> QED
  BY <1>5, <1>6

LEMMA QueueStep ==
    ASSUME IInv, WakeInv, Tidy, TypeOK', [Next]_vars
    PROVE  [Queue!Next]_Queue!queueVars
<1>0. TypeOK /\ ControlInv /\ AddrInv /\ HolderInv
  BY DEF IInv, WakeInv
<1>1. CASE FrameArrives
  BY <1>0, <1>1, FrameIsQueued DEF Queue!Next
<1>2. CASE HAL_ETH_ReadData /\ Readable
  BY <1>0, <1>2, FirstIsRead DEF Queue!Next
<1>3. CASE BuildDescriptor /\ UNCHANGED <<rxDescIdx, dma, link>>
  BY <1>0, <1>3, BuildPosts DEF Queue!Next
<1>4. CASE UNCHANGED <<content, backup, addr, rxDescIdx, dma, where>>
  BY <1>4, QueueUntouched
<1>5. CASE Refill
  BY <1>3, <1>4, <1>5 DEF Refill, ring, index
<1>6. CASE StartBuilds
  BY <1>3, <1>4, <1>6 DEF StartBuilds, ring
<1>7. CASE Deliver
  <2>1. p \in Buffers /\ where[p] = "input"
    BY <1>0, <1>7 DEF Deliver, ControlInv, Tidy, ApartInv, TypeOK
  <2>2. UNCHANGED <<ring, index, dma>>
    BY <1>7 DEF Deliver
  <2>3. PICK to \in {"pool", "stack"} : where' = [where EXCEPT ![p] = to]
    BY <1>7 DEF Deliver
  <2>4. Queue!Move(p, {"input"}, to) /\ ToRead' = ToRead
    BY <1>0, <2>1, <2>2, <2>3, OwnerChanges
  <2> QED
    BY <2>1, <2>3, <2>4 DEF Queue!Next, Queue!HandOver
<1>8. ASSUME NEW b \in Buffers, FreeBuffer(b) PROVE [Queue!Next]_Queue!queueVars
  <2>1. where[b] = "stack" /\ where' = [where EXCEPT ![b] = "pool"] /\ UNCHANGED <<ring, index, dma>>
    BY <1>8 DEF FreeBuffer
  <2>2. Queue!Move(b, {"stack"}, "pool") /\ ToRead' = ToRead
    BY <1>0, <2>1, OwnerChanges
  <2> QED
    BY <2>2 DEF Queue!Next, Queue!Free
<1>9. CASE HAL_ETH_ReadData /\ ~Readable
  BY <1>4, <1>9 DEF HAL_ETH_ReadData
<1>10. CASE \/ BufferUnavailable \/ HAL_ETH_IRQHandler \/ WaitForFrame \/ NotRead \/ CheckStatus
            \/ StartBegins \/ StartReportsError \/ StartEnables \/ StartEnds \/ StopBegins \/ StopEnds
  BY <1>4, <1>10 DEF BufferUnavailable, HAL_ETH_IRQHandler, WaitForFrame, NotRead, CheckStatus,
     StartBegins, StartReportsError, StartEnables, StartEnds, StopBegins, StopEnds, ring, index
<1>11. CASE UNCHANGED vars
  BY <1>4, <1>11 DEF vars, ring, index
<1> QED
  BY <1>1, <1>2, <1>5, <1>6, <1>7, <1>8, <1>9, <1>10, <1>11
     DEF Next, Hardware, EthIf, Stack, EthLink

\* A start that was untidy stays so.
LEMMA UntidyStays ==
    ASSUME [Next]_vars, ~untidy'
    PROVE  ~untidy
BY Zenon DEF Next, Hardware, EthIf, Stack, EthLink, FrameArrives, BufferUnavailable,
   HAL_ETH_IRQHandler, WaitForFrame, NotRead, HAL_ETH_ReadData, Refill, Deliver, CheckStatus,
   FreeBuffer, StartBegins, StartBuilds, StartReportsError, StartEnables, StartEnds,
   StopBegins, StopEnds, ghosts, vars

LEMMA InitQueue == Init => Queue!Init
<1> SUFFICES ASSUME Init PROVE Queue!Init
  OBVIOUS
<1>1. 0 \in Descriptors
  BY RxAssumption DEF Descriptors
<1>2. Arrived = 0 /\ \A b \in Buffers : Place(b) = "pool"
  BY <1>1 DEF Init, Arrived, Unread, Place
<1> QED
  BY <1>2 DEF Queue!Init, ToRead, Owners

-----------------------------------------------------------------------------
(***************************************************************************)
(* The theorems                                                            *)
(***************************************************************************)
LEMMA ApartHolds ==
    ASSUME IInv
    PROVE  BuffersApart
<1> SUFFICES ASSUME ~untidy PROVE BuffersApart
  BY Zenon DEF BuffersApart
<1>1. TypeOK /\ ControlInv /\ AddrInv /\ ApartInv /\ BackInv
  BY DEF IInv, TidyInv, Tidy
<1>2. Receiving => Backed
  BY <1>1, NotFresh DEF BackInv
<1>3. ASSUME NEW i \in Descriptors, Receiving, own[i] = "dma" \/ Unread(i)
      PROVE  addr[i] # None /\ addr[i] = backup[i]
  BY <1>1, <1>2, <1>3 DEF AddrInv, Backed
<1> QED
  BY <1>1, <1>3 DEF BuffersApart, ApartInv

LEMMA OrderHolds ==
    ASSUME IInv
    PROVE  FramesInOrder
<1> SUFFICES ASSUME ~untidy
             PROVE  \E n \in 0 .. Ring :
                       /\ \A j \in 0 .. Ring - 1 : Unread(Wrap(rxDescIdx + j)) <=> j < n
                       /\ dma = Wrap(rxDescIdx + n)
  BY DEF FramesInOrder
<1>1. TypeOK /\ LayoutInv
  BY DEF IInv, TidyInv, Tidy
<1>2. PICK n \in 0 .. Ring : Layout(n)
  BY <1>1 DEF LayoutInv
<1>3. rxDescIdx \in Descriptors /\ Ring \in Nat
  BY <1>1, Numbers
<1>4. ASSUME NEW j \in 0 .. Ring - 1
      PROVE  Unread(Wrap(rxDescIdx + j)) <=> j < n
  <2>1. j \in 0 .. Ring /\ j < Ring
    BY <1>3
  <2>2. Wrap(rxDescIdx + j) \in Descriptors /\ Off(rxDescIdx, Wrap(rxDescIdx + j)) = j
    BY <1>3, <2>1, WrapFacts
  <2> QED
    BY <1>2, <2>2 DEF Layout
<1> QED
  BY <1>2, <1>4 DEF Layout

\* Unless a start was untidy, no buffer is in two places: what the DMA may write to
\* is at one descriptor and with no reader.
THEOREM BuffersStayApart == Spec => []BuffersApart
<1>1. Init => IInv
  BY InitInv
<1>2. IInv /\ [Next]_vars => IInv'
  BY StepInv
<1>3. IInv => BuffersApart
  BY ApartHolds
<1> QED
  BY <1>1, <1>2, <1>3, PTL DEF Spec

\* Unless a start was untidy, the frames to read begin at RxDescIdx and the DMA goes
\* on behind them, for a ring of any length.
THEOREM FramesStayInOrder == Spec => []FramesInOrder
<1>1. Init => IInv
  BY InitInv
<1>2. IInv /\ [Next]_vars => IInv'
  BY StepInv
<1>3. IInv => FramesInOrder
  BY OrderHolds
<1> QED
  BY <1>1, <1>2, <1>3, PTL DEF Spec

\* Outside the races of a start, ethernetif_input does not sleep on a frame unless the
\* pool was empty and somebody who holds a buffer will wake it, for a ring, a pool and
\* a number of freeing tasks of any size.
THEOREM NoFrameIsForgotten == Spec => []NoFrameForgotten
<1>1. Init => IInv /\ WakeInv
  BY InitInv, InitWake
<1>2. IInv /\ WakeInv /\ [Next]_vars => (IInv /\ WakeInv)'
  BY StepInv, WrittenStep, BuildStep, TokenStep, HolderStep DEF WakeInv
<1>3. IInv /\ WakeInv => NoFrameForgotten
  BY WakeHolds
<1> QED
  BY <1>1, <1>2, <1>3, PTL DEF Spec

\* As long as no start was untidy, the ring, the pool and ethernetif_input implement
\* RxQueue: a frame is handed on once and in its turn, and each buffer goes round from
\* the pool to the DMA, to ethernetif_input, to the stack and back, one owner at a time.
THEOREM RingIsAQueue == Spec => ImplementsRxQueue
<1>1. Init => IInv /\ WakeInv /\ Queue!Init
  BY InitInv, InitWake, InitQueue
<1>2. IInv /\ WakeInv /\ [Next]_vars => (IInv /\ WakeInv)'
  BY StepInv, WrittenStep, BuildStep, TokenStep, HolderStep DEF WakeInv
<1>3. IInv /\ WakeInv /\ [Next]_vars => [~untidy' => [Queue!Next]_Queue!queueVars]_vars
  <2> SUFFICES ASSUME IInv, WakeInv, [Next]_vars, ~untidy' PROVE [Queue!Next]_Queue!queueVars
    OBVIOUS
  <2>1. Tidy
    BY UntidyStays DEF IInv, TidyInv
  <2>2. TypeOK'
    BY StepInv DEF IInv
  <2> QED
    BY <2>1, <2>2, QueueStep
<1> QED
  BY <1>1, <1>2, <1>3, PTL DEF Spec, ImplementsRxQueue

\* A descriptor that was read is with the CPU until it is built.
CpuInv == \A i \in Descriptors : content[i] = "read" => own[i] = "cpu"

LEMMA CpuStep ==
    ASSUME TypeOK, CpuInv, [Next]_vars
    PROVE  CpuInv'
<1>0. /\ own \in [Descriptors -> {"dma", "cpu"}]
      /\ content \in [Descriptors -> {"none", "frame", "read"}]
      /\ rxDescIdx \in Descriptors
  BY DEF TypeOK
<1>1. CASE UNCHANGED <<own, content>>
  BY <1>1 DEF CpuInv
<1>2. CASE BuildDescriptor
  BY <1>2, BuildLeaves DEF CpuInv
<1>3. CASE FrameArrives
  BY <1>0, <1>3 DEF FrameArrives, CpuInv
<1>4. CASE HAL_ETH_ReadData
  <2>1. own' = own /\ (content' = content \/ (own[rxDescIdx] = "cpu"
                                            /\ content' = [content EXCEPT ![rxDescIdx] = "read"]))
    BY <1>4 DEF HAL_ETH_ReadData, Readable
  <2> QED
    BY <1>0, <2>1 DEF CpuInv
<1>5. CASE Refill \/ StartBuilds
  BY <1>1, <1>2, <1>5 DEF Refill, StartBuilds, ring
<1>6. CASE Deliver \/ Stack
  BY <1>1, <1>6 DEF Deliver, Stack, CheckStatus, FreeBuffer, ring
<1>7. CASE \/ BufferUnavailable \/ HAL_ETH_IRQHandler \/ WaitForFrame \/ NotRead \/ StartBegins
           \/ StartReportsError \/ StartEnables \/ StartEnds \/ StopBegins \/ StopEnds
  BY <1>1, <1>7 DEF BufferUnavailable, HAL_ETH_IRQHandler, WaitForFrame, NotRead, StartBegins,
     StartReportsError, StartEnables, StartEnds, StopBegins, StopEnds, ring
<1>8. CASE UNCHANGED vars
  BY <1>1, <1>8 DEF vars, ring
<1> QED
  BY <1>3, <1>4, <1>5, <1>6, <1>7, <1>8 DEF Next, Hardware, EthIf, EthLink

\* ReadDescriptorsGoBack, which the program violates, fails after an untidy start
\* only: until then ETH_UpdateDescriptor gives every descriptor that was read back to
\* the DMA, as its comment says, for a ring and a pool of any size.
THEOREM TidyRingGivesBack == Spec => [](untidy \/ ReadDescriptorsGoBack)
<1>1. Init => IInv /\ CpuInv
  <2>1. Init => CpuInv
    BY DEF Init, CpuInv
  <2> QED
    BY <2>1, InitInv
<1>2. IInv /\ CpuInv /\ [Next]_vars => (IInv /\ CpuInv)'
  BY StepInv, CpuStep DEF IInv
<1>3. IInv /\ CpuInv => untidy \/ ReadDescriptorsGoBack
  <2> SUFFICES ASSUME IInv, CpuInv, ~untidy, link # "refill", buildCnt = 0,
                      NEW i \in Descriptors, content[i] = "read"
               PROVE  FALSE
    BY DEF ReadDescriptorsGoBack
  <2>1. PICK n \in 0 .. Ring : Layout(n)
    BY DEF IInv, TidyInv, Tidy, LayoutInv
  <2>2. TypeOK /\ rxDescIdx \in Descriptors /\ Ring \in Nat /\ Waiting = 0
    BY Numbers DEF IInv, Waiting
  <2>3. Off(rxDescIdx, i) \in Nat /\ Off(rxDescIdx, i) < Ring
    <3>1. Off(rxDescIdx, i) \in Descriptors
      BY <2>2, OffFacts
    <3> QED
      BY <2>2, <3>1 DEF Descriptors
  <2>4. own[i] = "cpu" /\ ~Unread(i)
    BY DEF CpuInv, Unread
  <2> QED
    BY <2>1, <2>2, <2>3, <2>4 DEF Layout
<1> QED
  BY <1>1, <1>2, <1>3, PTL DEF Spec
=============================================================================
