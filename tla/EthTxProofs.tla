------------------------------ MODULE EthTxProofs ------------------------------
(***************************************************************************)
(* Proofs about EthTx, for a ring of any length and any packets.  What the *)
(* DMA owns is one stretch of the ring that ends at CurTxDesc; the         *)
(* descriptors from releaseIndex on, BuffersInUse of them, end there too,  *)
(* in one turn of the ring or, as BuffersInUse drifts, after several.      *)
(***************************************************************************)
EXTENDS EthTx, WellFoundedInduction, SequenceTheorems, TLAPS

\* How far the descriptor i lies behind the descriptor r.
Off(r, i) == IF i >= r THEN i - r ELSE i - r + Ring

\* Whole turns of the ring.
Turns == {t * Ring : t \in Nat}

\* The packet in low_level_output.
SenderInv ==
    pc # "idle" => p \in Packets /\ p \in held /\ chain \in 1 .. Ring /\ inUse + chain <= MaxInUse

\* BuffersInUse counts from releaseIndex to CurTxDesc, and whole turns on top.
CountInv == inUse - Off(rel, cur) \in Turns

\* The references of the driver.
FoundInv ==
    \A i \in Descriptors : pkt[i] # None =>
        pkt[i] \in held /\ (pc # "idle" => pkt[i] # p) /\ Off(rel, i) < inUse
OnceInv == \A i, j \in Descriptors : i # j /\ pkt[i] # None => pkt[i] # pkt[j]
HeldInv == \A q \in held : (pc # "idle" /\ q = p) \/ \E i \in Descriptors : pkt[i] = q

\* The DMA owns the n descriptors before CurTxDesc.
Owned(n) ==
    /\ \A i \in Descriptors : own[i] = "dma" <=> Off(dma, i) < n
    /\ cur = Wrap(dma + n)

OwnedInv == \E n \in 0 .. Ring : Owned(n)

\* The DMA has not passed the descriptor at which the packet it reads from ends.
SpanInv ==
    \A d \in Descriptors : own[d] = "dma" =>
        /\ buf[d] # None
        /\ \E e \in Descriptors : own[e] = "dma" /\ Off(dma, d) <= Off(dma, e) /\ pkt[e] = buf[d]

IInv == TypeOK /\ SenderInv /\ CountInv /\ FoundInv /\ OnceInv /\ HeldInv /\ OwnedInv /\ SpanInv

-----------------------------------------------------------------------------
(***************************************************************************)
(* Places of the ring                                                      *)
(***************************************************************************)
LEMMA OffFacts ==
    ASSUME NEW r \in Descriptors, NEW i \in Descriptors
    PROVE  Off(r, i) \in 0 .. Ring - 1 /\ i = Wrap(r + Off(r, i)) /\ Off(r, r) = 0
BY TxAssumption DEF Off, Descriptors, Wrap

LEMMA WrapFacts ==
    ASSUME NEW r \in Descriptors, NEW k \in 0 .. Ring
    PROVE  /\ Wrap(r + k) \in Descriptors
           /\ k < Ring => Off(r, Wrap(r + k)) = k
           /\ k = Ring => Wrap(r + k) = r
BY TxAssumption DEF Off, Descriptors, Wrap

\* The offset from a place further on.
LEMMA OffLater ==
    ASSUME NEW r \in Descriptors, NEW i \in Descriptors, NEW k \in 0 .. Ring
    PROVE  Off(Wrap(r + k), i) = IF Off(r, i) >= k THEN Off(r, i) - k ELSE Off(r, i) - k + Ring
BY TxAssumption DEF Off, Descriptors, Wrap

\* The offset of a place further on.
LEMMA OffFurther ==
    ASSUME NEW r \in Descriptors, NEW i \in Descriptors, NEW k \in 0 .. Ring
    PROVE  Off(r, Wrap(i + k)) = IF Off(r, i) + k < Ring THEN Off(r, i) + k ELSE Off(r, i) + k - Ring
BY TxAssumption DEF Off, Descriptors, Wrap

LEMMA WrapTwice ==
    ASSUME NEW r \in Descriptors, NEW n \in 0 .. Ring, NEW k \in 0 .. Ring, n + k <= Ring
    PROVE  Wrap(Wrap(r + n) + k) = Wrap(r + (n + k))
BY TxAssumption DEF Descriptors, Wrap

LEMMA TurnFacts ==
    /\ 0 \in Turns
    /\ \A x \in Turns : x \in Nat /\ x + Ring \in Turns /\ (x # 0 => x >= Ring /\ x - Ring \in Turns)
<1>1. 0 \in Turns
  <2>1. 0 = 0 * Ring
    BY TxAssumption
  <2> QED
    BY <2>1 DEF Turns
<1>2. ASSUME NEW t \in Nat
      PROVE  /\ t * Ring \in Nat /\ t * Ring + Ring = (t + 1) * Ring
             /\ t # 0 => t * Ring >= Ring /\ t * Ring - Ring = (t - 1) * Ring
  <2>1. t * Ring \in Nat /\ t * Ring + Ring = (t + 1) * Ring
    BY TxAssumption
  <2>2. CASE t # 0
    <3>1. t - 1 \in Nat
      BY <2>2
    <3>2. (t - 1) * Ring \in Nat /\ (t - 1) * Ring + Ring = ((t - 1) + 1) * Ring
      BY <3>1, TxAssumption
    <3> QED
      BY <2>1, <3>2, TxAssumption
  <2> QED
    BY <2>1, <2>2
<1>3. ASSUME NEW x \in Turns
      PROVE  x \in Nat /\ x + Ring \in Turns /\ (x # 0 => x >= Ring /\ x - Ring \in Turns)
  <2>1. PICK t \in Nat : x = t * Ring
    BY DEF Turns
  <2>2. x \in Nat /\ x + Ring \in Turns
    BY <1>2, <2>1 DEF Turns
  <2>3. ASSUME x # 0 PROVE x >= Ring /\ x - Ring \in Turns
    <3>1. t # 0
      BY <2>1, <2>3, TxAssumption
    <3>2. t - 1 \in Nat
      BY <3>1
    <3> QED
      BY <1>2, <2>1, <3>1, <3>2 DEF Turns
  <2> QED
    BY <2>2, <2>3
<1> QED
  BY <1>1, <1>3

-----------------------------------------------------------------------------
(***************************************************************************)
(* Types                                                                   *)
(***************************************************************************)
RingTypes ==
    /\ own \in [Descriptors -> {"dma", "cpu"}]
    /\ buf \in [Descriptors -> Packets \cup {None}]
    /\ pkt \in [Descriptors -> Packets \cup {None}]

IndexTypes ==
    cur \in Descriptors /\ rel \in Descriptors /\ dma \in Descriptors /\ inUse \in 0 .. MaxInUse

SenderTypes ==
    /\ busy \in BOOLEAN
    /\ link \in {"down", "starting", "started", "up", "stopped"}
    /\ pc \in {"idle", "transmit", "wait"}
    /\ p \in Packets \cup {None} /\ chain \in 0 .. Ring

HolderTypes == stack \in SUBSET Packets /\ held \in SUBSET Packets

LEMMA TypeParts == TypeOK <=> RingTypes /\ IndexTypes /\ SenderTypes /\ HolderTypes
BY DEF TypeOK, RingTypes, IndexTypes, SenderTypes, HolderTypes

LEMMA Numbers ==
    ASSUME TypeOK
    PROVE  /\ Ring \in Nat /\ Ring > 0 /\ MaxInUse \in Nat
           /\ cur \in Descriptors /\ rel \in Descriptors /\ dma \in Descriptors
           /\ inUse \in 0 .. MaxInUse /\ chain \in 0 .. Ring
           /\ Descriptors = 0 .. Ring - 1
BY TxAssumption DEF TypeOK, Descriptors

-----------------------------------------------------------------------------
(***************************************************************************)
(* What HAL_ETH_ReleaseTxPacket releases                                   *)
(***************************************************************************)
\* A non-empty set of offsets has a last one.
LEMMA LastElement ==
    ASSUME NEW T \in SUBSET (0 .. Ring - 1), T # {}
    PROVE  \E x \in T : \A y \in T : y <= x
<1> DEFINE Less == {ss \in Nat \X Nat : ss[1] < ss[2]}
           Back == {y \in 0 .. Ring - 1 : Ring - 1 - y \in T}
<1>1. IsWellFoundedOn(Less, Nat)
  BY NatLessThanWellFounded DEF OpToRel
<1> HIDE DEF Less
<1>2. Back \subseteq Nat /\ Back # {}
  <2>1. PICK y \in T : TRUE
    OBVIOUS
  <2>2. y \in 0 .. Ring - 1 /\ Ring - 1 - y \in 0 .. Ring - 1 /\ Ring - 1 - (Ring - 1 - y) = y
    BY TxAssumption
  <2>3. Ring - 1 - y \in Back
    BY <2>2
  <2>4. Back # {}
    BY <2>3
  <2>5. 0 .. Ring - 1 \subseteq Nat
    BY TxAssumption
  <2> QED
    BY <2>4, <2>5
<1> HIDE DEF Back
<1>3. PICK x \in Back : \A y \in Back : <<y, x>> \notin Less
  BY <1>1, <1>2, WFMin
<1> USE DEF Back
<1>4. ASSUME NEW y \in T PROVE y <= Ring - 1 - x
  <2>1. y \in 0 .. Ring - 1 /\ Ring - 1 - y \in 0 .. Ring - 1 /\ Ring - 1 - (Ring - 1 - y) = y
    BY TxAssumption
  <2>2. Ring - 1 - y \in Back /\ Ring - 1 - y \in Nat /\ x \in Nat
    BY <2>1, TxAssumption
  <2>3. <<Ring - 1 - y, x>> \in Less <=> Ring - 1 - y < x
    BY <2>2 DEF Less
  <2>4. ~(Ring - 1 - y < x)
    BY <1>3, <2>2, <2>3
  <2> QED
    BY <2>1, <2>2, <2>4, TxAssumption
<1> QED
  BY <1>3, <1>4

LEMMA ReleaseFacts ==
    ASSUME TypeOK, HAL_ETH_ReleaseTxPacket
    PROVE  /\ \A i \in ReleasedAt : i \in Descriptors /\ pkt[i] # None /\ own[i] = "cpu"
           /\ \/ Released = {} /\ ReleasedAt = {} /\ inUse' = inUse /\ rel' = rel
              \/ \E last \in 0 .. Ring - 1 :
                    /\ last < inUse /\ inUse' = inUse - (last + 1) /\ rel' = Wrap(rel + (last + 1))
                    /\ \A i \in Descriptors : pkt[i] # None /\ Off(rel, i) <= last => i \in ReleasedAt
<1>0. Ring \in Nat /\ Ring > 0 /\ rel \in Descriptors /\ inUse \in Nat
  BY Numbers
<1>1. ASSUME NEW i \in ReleasedAt
      PROVE  i \in Descriptors /\ pkt[i] # None /\ own[i] = "cpu"
  <2>1. PICK j \in Released : i = Wrap(rel + j)
    BY DEF ReleasedAt
  <2>2. j \in 0 .. Ring - 1 /\ pkt[i] # None /\ \A k \in 0 .. j : Passed(k)
    BY <2>1 DEF Released, Reached
  <2>3. Passed(j) /\ j \in 0 .. Ring
    BY <1>0, <2>2
  <2> QED
    BY <1>0, <2>1, <2>2, <2>3, WrapFacts DEF Passed
<1>2. CASE Released = {}
  BY <1>1, <1>2 DEF HAL_ETH_ReleaseTxPacket, ReleasedAt
<1>3. CASE Released # {}
  <2> DEFINE last == CHOOSE j \in Released : \A k \in Released : k <= j
  <2>1. Released \in SUBSET (0 .. Ring - 1)
    BY DEF Released, Reached
  <2>2. last \in Released /\ \A k \in Released : k <= last
    BY <1>3, <2>1, LastElement
  <2>3. inUse' = inUse - last - 1 /\ rel' = Wrap(rel + last + 1)
    BY <1>3 DEF HAL_ETH_ReleaseTxPacket
  <2> HIDE DEF last
  <2>4. last \in 0 .. Ring - 1 /\ last < inUse /\ \A k \in 0 .. last : Passed(k)
    BY <2>2 DEF Released, Reached
  <2>5. inUse' = inUse - (last + 1) /\ rel' = Wrap(rel + (last + 1))
    BY <1>0, <2>3, <2>4 DEF Descriptors
  <2>6. ASSUME NEW i \in Descriptors, pkt[i] # None, Off(rel, i) <= last
        PROVE  i \in ReleasedAt
    <3>1. Off(rel, i) \in 0 .. Ring - 1 /\ i = Wrap(rel + Off(rel, i))
      BY <1>0, OffFacts
    <3>2. Off(rel, i) < inUse /\ \A k \in 0 .. Off(rel, i) : k \in 0 .. last
      BY <1>0, <2>4, <2>6, <3>1
    <3>3. Off(rel, i) \in Released
      BY <2>4, <2>6, <3>1, <3>2 DEF Released, Reached
    <3> QED
      BY <3>1, <3>3 DEF ReleasedAt
  <2> QED
    BY <1>1, <2>4, <2>5, <2>6
<1> QED
  BY <1>2, <1>3

-----------------------------------------------------------------------------
(***************************************************************************)
(* Where a packet goes                                                     *)
(***************************************************************************)
\* The descriptors of a packet that fits are free and lie behind those of the DMA.
LEMMA ChainFacts ==
    ASSUME TypeOK, SenderInv, pc = "transmit", NEW n \in 0 .. Ring, Owned(n),
           \A i \in Chain : Free(i)
    PROVE  /\ n + chain <= Ring
           /\ \A i \in Descriptors : i \in Chain <=> n <= Off(dma, i) /\ Off(dma, i) < n + chain
           /\ Wrap(cur + chain - 1) \in Chain /\ Wrap(cur + chain - 1) \in Descriptors
           /\ Off(dma, Wrap(cur + chain - 1)) = n + chain - 1
           /\ Wrap(cur + chain) = Wrap(dma + (n + chain))
<1>0. /\ Ring \in Nat /\ Ring > 0 /\ dma \in Descriptors /\ cur \in Descriptors
      /\ chain \in 1 .. Ring /\ cur = Wrap(dma + n)
  BY Numbers DEF SenderInv, Owned
<1>1. n + chain <= Ring
  <2> SUFFICES ASSUME n + chain > Ring PROVE FALSE
    BY <1>0
  <2>1. /\ Ring - n \in 0 .. chain - 1 /\ Ring - n \in 0 .. Ring /\ n > 0
        /\ n + (Ring - n) = Ring
    BY <1>0
  <2>2. Wrap(cur + (Ring - n)) = Wrap(dma + (n + (Ring - n)))
    BY <1>0, <2>1, WrapTwice
  <2>3. Wrap(dma + Ring) = dma
    BY <1>0, WrapFacts
  <2>4. dma \in Chain
    BY <2>1, <2>2, <2>3 DEF Chain
  <2>5. own[dma] = "cpu"
    BY <2>4 DEF Free
  <2>6. own[dma] = "dma"
    BY <1>0, <2>1, OffFacts DEF Owned
  <2> QED
    BY <2>5, <2>6
<1>2. ASSUME NEW j \in 0 .. chain - 1
      PROVE  /\ Wrap(cur + j) \in Descriptors /\ Off(dma, Wrap(cur + j)) = n + j
             /\ Wrap(cur + j) = Wrap(dma + (n + j))
  <2>1. j \in 0 .. Ring /\ n + j <= Ring /\ n + j \in 0 .. Ring /\ n + j < Ring
    BY <1>0, <1>1
  <2>2. Wrap(cur + j) = Wrap(dma + (n + j))
    BY <1>0, <2>1, WrapTwice
  <2> QED
    BY <1>0, <2>1, <2>2, WrapFacts
<1>3. ASSUME NEW i \in Descriptors
      PROVE  i \in Chain <=> n <= Off(dma, i) /\ Off(dma, i) < n + chain
  <2>1. ASSUME i \in Chain PROVE n <= Off(dma, i) /\ Off(dma, i) < n + chain
    <3>1. PICK j \in 0 .. chain - 1 : i = Wrap(cur + j)
      BY <2>1 DEF Chain
    <3>2. Off(dma, i) = n + j
      BY <1>2, <3>1
    <3> QED
      BY <1>0, <3>2
  <2>2. ASSUME n <= Off(dma, i), Off(dma, i) < n + chain PROVE i \in Chain
    <3>1. Off(dma, i) \in 0 .. Ring - 1 /\ i = Wrap(dma + Off(dma, i))
      BY <1>0, OffFacts
    <3>2. Off(dma, i) - n \in 0 .. chain - 1 /\ n + (Off(dma, i) - n) = Off(dma, i)
      BY <1>0, <2>2, <3>1
    <3>3. i = Wrap(cur + (Off(dma, i) - n))
      BY <1>2, <3>1, <3>2
    <3> QED
      BY <3>2, <3>3 DEF Chain
  <2> QED
    BY <2>1, <2>2
<1>4. /\ Wrap(cur + chain - 1) \in Chain /\ Wrap(cur + chain - 1) \in Descriptors
      /\ Off(dma, Wrap(cur + chain - 1)) = n + chain - 1
  <2>1. chain - 1 \in 0 .. chain - 1 /\ cur + chain - 1 = cur + (chain - 1) /\ n + chain - 1 = n + (chain - 1)
    BY <1>0 DEF Descriptors
  <2>2. Wrap(cur + (chain - 1)) \in Chain
    BY <2>1 DEF Chain
  <2>3. Wrap(cur + (chain - 1)) \in Descriptors /\ Off(dma, Wrap(cur + (chain - 1))) = n + (chain - 1)
    BY <1>2, <2>1
  <2> QED
    BY <2>1, <2>2, <2>3
<1>5. Wrap(cur + chain) = Wrap(dma + (n + chain))
  <2>1. chain \in 0 .. Ring
    BY <1>0
  <2> QED
    BY <1>0, <1>1, <2>1, WrapTwice
<1> QED
  BY <1>1, <1>3, <1>4, <1>5

-----------------------------------------------------------------------------
(***************************************************************************)
(* TransmitDone: ETH_Prepare_Tx_Descriptors                                *)
(***************************************************************************)
LEMMA DoneTypes ==
    ASSUME IInv, TransmitDone
    PROVE  TypeOK'
<1>0. TypeOK /\ SenderInv /\ OwnedInv
  BY DEF IInv
<1>1. PICK n \in 0 .. Ring : Owned(n)
  BY <1>0 DEF OwnedInv
<1>2. RingTypes /\ IndexTypes /\ SenderTypes /\ HolderTypes
  BY <1>0, TypeParts
<1>3. p \in Packets /\ chain \in 1 .. Ring /\ inUse + chain <= MaxInUse
  BY <1>0 DEF SenderInv, TransmitDone
<1>4. RingTypes'
  BY <1>2, <1>3 DEF TransmitDone, RingTypes
<1>5. IndexTypes'
  <2>1. chain \in 0 .. Ring /\ cur \in Descriptors
    BY <1>0, <1>3, Numbers
  <2>2. Wrap(cur + chain) \in Descriptors
    BY <2>1, WrapFacts
  <2>3. inUse + chain \in 0 .. MaxInUse
    BY <1>0, <1>3, Numbers
  <2> QED
    BY <1>2, <2>2, <2>3 DEF TransmitDone, IndexTypes
<1>6. SenderTypes' /\ HolderTypes'
  BY <1>2 DEF TransmitDone, SenderTypes, HolderTypes
<1>7. RingTypes' /\ IndexTypes' /\ SenderTypes' /\ HolderTypes' => TypeOK'
  BY DEF TypeOK, RingTypes, IndexTypes, SenderTypes, HolderTypes
<1> QED
  BY <1>4, <1>5, <1>6, <1>7

LEMMA DoneCounts ==
    ASSUME IInv, TransmitDone
    PROVE  CountInv'
<1>0. /\ Ring \in Nat /\ Ring > 0 /\ rel \in Descriptors /\ cur \in Descriptors
      /\ chain \in 0 .. Ring /\ inUse \in Nat /\ inUse - Off(rel, cur) \in Turns
  BY Numbers DEF IInv, CountInv
<1>1. inUse' = inUse + chain /\ cur' = Wrap(cur + chain) /\ rel' = rel
  BY DEF TransmitDone
<1>2. Off(rel, cur') = IF Off(rel, cur) + chain < Ring THEN Off(rel, cur) + chain
                                                    ELSE Off(rel, cur) + chain - Ring
  BY <1>0, <1>1, OffFurther
<1>3. Off(rel, cur) \in 0 .. Ring - 1
  BY <1>0, OffFacts
<1>4. CASE Off(rel, cur) + chain < Ring
  <2>1. inUse' - Off(rel, cur') = inUse - Off(rel, cur)
    BY <1>0, <1>1, <1>2, <1>3, <1>4
  <2> QED
    BY <1>0, <1>1, <2>1 DEF CountInv
<1>5. CASE ~(Off(rel, cur) + chain < Ring)
  <2>1. inUse' - Off(rel, cur') = (inUse - Off(rel, cur)) + Ring
    BY <1>0, <1>1, <1>2, <1>3, <1>5
  <2>2. (inUse - Off(rel, cur)) + Ring \in Turns
    BY <1>0, TurnFacts
  <2> QED
    BY <1>1, <2>1, <2>2 DEF CountInv
<1> QED
  BY <1>4, <1>5

LEMMA DoneFinds ==
    ASSUME IInv, TransmitDone
    PROVE  FoundInv' /\ OnceInv' /\ HeldInv'
<1>0. TypeOK /\ SenderInv /\ OwnedInv /\ FoundInv /\ OnceInv /\ HeldInv /\ CountInv
  BY DEF IInv
<1>1. PICK n \in 0 .. Ring : Owned(n)
  BY <1>0 DEF OwnedInv
<1> DEFINE last == Wrap(cur + chain - 1)
<1>2. /\ p \in Packets /\ p \in held /\ chain \in 1 .. Ring /\ p # None /\ pc # "idle"
      /\ pc' = "idle" /\ held' = held /\ rel' = rel /\ inUse' = inUse + chain
      /\ pkt' = [pkt EXCEPT ![last] = p] /\ pc = "transmit" /\ \A i \in Chain : Free(i)
  BY <1>0, TxAssumption DEF SenderInv, TransmitDone
<1>3. last \in Chain /\ last \in Descriptors
  BY <1>0, <1>1, <1>2, ChainFacts
<1>4. pkt[last] = None
  BY <1>2, <1>3 DEF Free
<1>5. /\ Ring \in Nat /\ rel \in Descriptors /\ cur \in Descriptors /\ inUse \in Nat
      /\ pkt \in [Descriptors -> Packets \cup {None}]
  BY <1>0, Numbers DEF TypeOK
<1>6. Off(rel, last) < inUse + chain
  <2>1. chain - 1 \in 0 .. Ring /\ cur + chain - 1 = cur + (chain - 1)
    BY <1>2, <1>5 DEF Descriptors
  <2>2. Off(rel, last) = IF Off(rel, cur) + (chain - 1) < Ring THEN Off(rel, cur) + (chain - 1)
                                                               ELSE Off(rel, cur) + (chain - 1) - Ring
    BY <1>5, <2>1, OffFurther
  <2>3. Off(rel, cur) \in 0 .. Ring - 1 /\ inUse - Off(rel, cur) \in Nat
    BY <1>0, <1>5, OffFacts, TurnFacts DEF CountInv
  <2> HIDE DEF last
  <2> QED
    BY <1>2, <1>5, <2>2, <2>3
<1> HIDE DEF last
<1>7. \A i \in Descriptors : pkt'[i] = IF i = last THEN p ELSE pkt[i]
  BY <1>2, <1>3, <1>5
<1>8. FoundInv'
  <2>1. ASSUME NEW i \in Descriptors, pkt'[i] # None
        PROVE  pkt'[i] \in held /\ Off(rel, i) < inUse + chain
    <3>1. CASE i = last
      BY <1>2, <1>6, <1>7, <3>1
    <3>2. CASE i # last
      <4>1. pkt[i] \in held /\ Off(rel, i) < inUse /\ pkt'[i] = pkt[i]
        BY <1>0, <1>7, <2>1, <3>2 DEF FoundInv
      <4>2. Off(rel, i) \in 0 .. Ring - 1
        BY <1>5, OffFacts
      <4> QED
        BY <1>2, <1>5, <4>1, <4>2
    <3> QED
      BY <3>1, <3>2
  <2> QED
    BY <1>2, <2>1 DEF FoundInv
<1>9. OnceInv'
  <2>1. \A i \in Descriptors : pkt[i] # p
    BY <1>0, <1>2 DEF FoundInv
  <2> QED
    BY <1>0, <1>7, <2>1 DEF OnceInv
<1>10. HeldInv'
  <2>1. ASSUME NEW q \in held PROVE \E i \in Descriptors : pkt'[i] = q
    <3>1. CASE q = p
      BY <1>3, <1>7, <3>1
    <3>2. CASE q # p
      <4>1. PICK i \in Descriptors : pkt[i] = q
        BY <1>0, <3>2 DEF HeldInv
      <4>2. q # None
        BY <1>0, TxAssumption DEF TypeOK
      <4> QED
        BY <1>4, <1>7, <4>1, <4>2
    <3> QED
      BY <3>1, <3>2
  <2> QED
    BY <1>2, <2>1 DEF HeldInv
<1> QED
  BY <1>8, <1>9, <1>10

LEMMA DoneOwns ==
    ASSUME IInv, TransmitDone
    PROVE  OwnedInv' /\ SpanInv'
<1>0. TypeOK /\ SenderInv /\ OwnedInv /\ SpanInv
  BY DEF IInv
<1>1. PICK n \in 0 .. Ring : Owned(n)
  BY <1>0 DEF OwnedInv
<1> DEFINE last == Wrap(cur + chain - 1)
<1>2. /\ p # None /\ dma' = dma /\ cur' = Wrap(cur + chain)
      /\ own' = [i \in Descriptors |-> IF i \in Chain THEN "dma" ELSE own[i]]
      /\ buf' = [i \in Descriptors |-> IF i \in Chain THEN p ELSE buf[i]]
      /\ pkt' = [pkt EXCEPT ![last] = p] /\ pc = "transmit" /\ \A i \in Chain : Free(i)
  BY <1>0, TxAssumption DEF SenderInv, TransmitDone
<1>3. /\ n + chain <= Ring /\ last \in Chain /\ last \in Descriptors
      /\ Off(dma, last) = n + chain - 1 /\ Wrap(cur + chain) = Wrap(dma + (n + chain))
      /\ \A i \in Descriptors : i \in Chain <=> n <= Off(dma, i) /\ Off(dma, i) < n + chain
  BY <1>0, <1>1, <1>2, ChainFacts
<1>4. /\ Ring \in Nat /\ dma \in Descriptors /\ chain \in 1 .. Ring
      /\ pkt \in [Descriptors -> Packets \cup {None}]
  BY <1>0, <1>2, Numbers DEF TypeOK, SenderInv
<1> HIDE DEF last
<1>5. \A i \in Descriptors : Off(dma, i) \in 0 .. Ring - 1
  BY <1>4, OffFacts
<1>6. ASSUME NEW i \in Descriptors
      PROVE  own'[i] = "dma" <=> Off(dma, i) < n + chain
  <2>1. own[i] = "dma" <=> Off(dma, i) < n
    BY <1>1 DEF Owned
  <2>2. i \in Chain <=> n <= Off(dma, i) /\ Off(dma, i) < n + chain
    BY <1>3
  <2>3. own'[i] = "dma" <=> i \in Chain \/ own[i] = "dma"
    BY <1>2
  <2> QED
    BY <1>4, <1>5, <2>1, <2>2, <2>3
<1>7. OwnedInv'
  <2>1. n + chain \in 0 .. Ring
    BY <1>3, <1>4
  <2> QED
    BY <1>2, <1>3, <1>6, <2>1 DEF OwnedInv, Owned
<1>8. SpanInv'
  <2>1. ASSUME NEW d \in Descriptors, own'[d] = "dma"
        PROVE  /\ buf'[d] # None
               /\ \E e \in Descriptors :
                     own'[e] = "dma" /\ Off(dma, d) <= Off(dma, e) /\ pkt'[e] = buf'[d]
    <3>1. CASE d \in Chain
      <4>1. buf'[d] = p /\ own'[last] = "dma" /\ pkt'[last] = p
        BY <1>2, <1>3, <1>4, <3>1
      <4>2. Off(dma, d) <= Off(dma, last)
        BY <1>3, <1>4, <1>5, <3>1
      <4> QED
        BY <1>2, <1>3, <4>1, <4>2
    <3>2. CASE d \notin Chain
      <4>1. own[d] = "dma" /\ buf'[d] = buf[d]
        BY <1>2, <2>1, <3>2
      <4>2. buf[d] # None
        BY <1>0, <4>1 DEF SpanInv
      <4>3. PICK e \in Descriptors : own[e] = "dma" /\ Off(dma, d) <= Off(dma, e) /\ pkt[e] = buf[d]
        BY <1>0, <4>1 DEF SpanInv
      <4>4. e # last
        BY <1>2, <1>3, <4>3 DEF Free
      <4>5. pkt'[e] = pkt[e] /\ own'[e] = "dma"
        BY <1>2, <1>4, <4>3, <4>4
      <4> QED
        BY <4>1, <4>2, <4>3, <4>5
    <3> QED
      BY <3>1, <3>2
  <2> QED
    BY <1>2, <2>1 DEF SpanInv
<1> QED
  BY <1>7, <1>8

-----------------------------------------------------------------------------
(***************************************************************************)
(* WaitForRoom: HAL_ETH_ReleaseTxPacket                                    *)
(***************************************************************************)
LEMMA RoomCounts ==
    ASSUME IInv, WaitForRoom
    PROVE  /\ CountInv' /\ rel' \in Descriptors /\ inUse' \in 0 .. MaxInUse /\ inUse' <= inUse
           /\ \A i \in Descriptors :
                 pkt[i] # None /\ i \notin ReleasedAt => Off(rel', i) < inUse'
<1>0. /\ Ring \in Nat /\ Ring > 0 /\ rel \in Descriptors /\ cur \in Descriptors
      /\ inUse \in 0 .. MaxInUse /\ MaxInUse \in Nat /\ inUse - Off(rel, cur) \in Turns /\ FoundInv
  BY Numbers DEF IInv, CountInv
<1>1. cur' = cur /\ TypeOK /\ HAL_ETH_ReleaseTxPacket
  BY DEF WaitForRoom, IInv
<1>2. CASE Released = {} /\ inUse' = inUse /\ rel' = rel
  BY <1>0, <1>1, <1>2 DEF CountInv, FoundInv
<1>3. ASSUME NEW last \in 0 .. Ring - 1, last < inUse, inUse' = inUse - (last + 1),
             rel' = Wrap(rel + (last + 1)),
             \A i \in Descriptors : pkt[i] # None /\ Off(rel, i) <= last => i \in ReleasedAt
      PROVE  /\ CountInv' /\ rel' \in Descriptors /\ inUse' \in 0 .. MaxInUse /\ inUse' <= inUse
             /\ \A i \in Descriptors :
                   pkt[i] # None /\ i \notin ReleasedAt => Off(rel', i) < inUse'
  <2>1. last + 1 \in 0 .. Ring /\ inUse' \in 0 .. MaxInUse /\ inUse' <= inUse
    BY <1>0, <1>3
  <2>2. rel' \in Descriptors
    BY <1>0, <1>3, <2>1, WrapFacts
  <2>3. ASSUME NEW i \in Descriptors
        PROVE  /\ Off(rel, i) \in 0 .. Ring - 1
               /\ Off(rel', i) = IF Off(rel, i) >= last + 1 THEN Off(rel, i) - (last + 1)
                                                            ELSE Off(rel, i) - (last + 1) + Ring
    BY <1>0, <1>3, <2>1, OffFacts, OffLater
  <2>4. CountInv'
    <3>1. CASE Off(rel, cur) >= last + 1
      <4>1. inUse' - Off(rel', cur) = inUse - Off(rel, cur)
        BY <1>0, <1>3, <2>3, <3>1
      <4> QED
        BY <1>0, <1>1, <4>1 DEF CountInv
    <3>2. CASE ~(Off(rel, cur) >= last + 1)
      <4>1. inUse' - Off(rel', cur) = (inUse - Off(rel, cur)) - Ring
        BY <1>0, <1>3, <2>3, <3>2
      <4>2. inUse - Off(rel, cur) # 0
        BY <1>0, <1>3, <2>3, <3>2
      <4>3. (inUse - Off(rel, cur)) - Ring \in Turns
        BY <1>0, <4>2, TurnFacts
      <4> QED
        BY <1>1, <4>1, <4>3 DEF CountInv
    <3> QED
      BY <3>1, <3>2
  <2>5. ASSUME NEW i \in Descriptors, pkt[i] # None, i \notin ReleasedAt
        PROVE  Off(rel', i) < inUse'
    <3>1. Off(rel, i) < inUse /\ ~(Off(rel, i) <= last)
      BY <1>0, <1>3, <2>5 DEF FoundInv
    <3> QED
      BY <1>0, <1>3, <2>3, <3>1
  <2> QED
    BY <2>1, <2>2, <2>4, <2>5
<1> QED
  BY <1>1, <1>2, <1>3, ReleaseFacts

LEMMA RoomStep ==
    ASSUME IInv, WaitForRoom
    PROVE  IInv'
<1>0. TypeOK /\ SenderInv /\ FoundInv /\ OnceInv /\ HeldInv /\ OwnedInv /\ SpanInv
  BY DEF IInv
<1>1. /\ UNCHANGED <<own, buf, dma, cur, busy, link, p, chain, stack>>
      /\ pc = "wait" /\ pc' = "transmit" /\ HAL_ETH_ReleaseTxPacket
      /\ pkt' = [i \in Descriptors |-> IF i \in ReleasedAt THEN None ELSE pkt[i]]
      /\ held' = held \ {pkt[i] : i \in ReleasedAt}
  BY DEF WaitForRoom, HAL_ETH_ReleaseTxPacket
<1>2. \A i \in ReleasedAt : i \in Descriptors /\ pkt[i] # None /\ own[i] = "cpu"
  BY <1>0, <1>1, ReleaseFacts
<1>3. /\ CountInv' /\ rel' \in Descriptors /\ inUse' \in 0 .. MaxInUse /\ inUse' <= inUse
      /\ \A i \in Descriptors : pkt[i] # None /\ i \notin ReleasedAt => Off(rel', i) < inUse'
  BY RoomCounts
<1>4. /\ MaxInUse \in Nat /\ Ring \in Nat /\ inUse \in 0 .. MaxInUse
      /\ pkt \in [Descriptors -> Packets \cup {None}]
  BY <1>0, Numbers DEF TypeOK
<1>5. ASSUME NEW i \in Descriptors, pkt'[i] # None
      PROVE  i \notin ReleasedAt /\ pkt'[i] = pkt[i] /\ pkt[i] \in held'
  <2>1. i \notin ReleasedAt /\ pkt'[i] = pkt[i]
    BY <1>1, <1>5
  <2>2. \A j \in ReleasedAt : pkt[j] # pkt[i]
    BY <1>0, <1>2, <2>1 DEF OnceInv
  <2>3. pkt[i] \in held
    BY <1>0, <1>5, <2>1 DEF FoundInv
  <2> QED
    BY <1>1, <2>1, <2>2, <2>3
<1>6. TypeOK'
  BY <1>0, <1>1, <1>3, <1>4 DEF TypeOK
<1>7. SenderInv'
  <2>1. p \in Packets /\ p \in held /\ chain \in 1 .. Ring /\ inUse + chain <= MaxInUse
    BY <1>0, <1>1 DEF SenderInv
  <2>2. \A i \in ReleasedAt : pkt[i] # p
    BY <1>0, <1>1, <1>2 DEF FoundInv
  <2>3. p' \in held'
    BY <1>1, <2>1, <2>2
  <2> QED
    BY <1>1, <1>3, <1>4, <2>1, <2>3 DEF SenderInv
<1>8. FoundInv'
  BY <1>0, <1>1, <1>3, <1>5 DEF FoundInv
<1>9. OnceInv'
  BY <1>0, <1>1, <1>5 DEF OnceInv
<1>10. HeldInv'
  <2>1. ASSUME NEW q \in held', q # p PROVE \E i \in Descriptors : pkt'[i] = q
    <3>1. PICK i \in Descriptors : pkt[i] = q
      BY <1>0, <1>1, <2>1 DEF HeldInv
    <3>2. i \notin ReleasedAt
      BY <1>1, <2>1, <3>1
    <3> QED
      BY <1>1, <3>1, <3>2
  <2> QED
    BY <1>1, <2>1 DEF HeldInv
<1>11. OwnedInv'
  BY <1>0, <1>1 DEF OwnedInv, Owned
<1>12. SpanInv'
  <2>1. ASSUME NEW d \in Descriptors, own[d] = "dma"
        PROVE  /\ buf[d] # None
               /\ \E e \in Descriptors : own[e] = "dma" /\ Off(dma, d) <= Off(dma, e) /\ pkt'[e] = buf[d]
    <3>1. PICK e \in Descriptors : own[e] = "dma" /\ Off(dma, d) <= Off(dma, e) /\ pkt[e] = buf[d]
      BY <1>0, <2>1 DEF SpanInv
    <3>2. e \notin ReleasedAt
      BY <1>2, <3>1
    <3>3. pkt'[e] = buf[d] /\ buf[d] # None
      BY <1>0, <1>1, <2>1, <3>1, <3>2 DEF SpanInv
    <3> QED
      BY <3>1, <3>3
  <2> QED
    BY <1>1, <2>1 DEF SpanInv
<1> QED
  BY <1>3, <1>6, <1>7, <1>8, <1>9, <1>10, <1>11, <1>12 DEF IInv

-----------------------------------------------------------------------------
(***************************************************************************)
(* The other steps                                                         *)
(***************************************************************************)
LEMMA DmaStep ==
    ASSUME IInv, DmaSends
    PROVE  IInv'
<1>0. /\ TypeOK /\ SenderInv /\ CountInv /\ FoundInv /\ OnceInv /\ HeldInv /\ OwnedInv /\ SpanInv
  BY DEF IInv
<1>1. /\ own[dma] = "dma" /\ own' = [own EXCEPT ![dma] = "cpu"] /\ dma' = Wrap(dma + 1)
      /\ UNCHANGED <<buf, pkt, index, busy, link, sender, stack, held>>
  BY DEF DmaSends
<1>2. UNCHANGED <<buf, pkt, cur, inUse, rel, busy, link, pc, p, chain, stack, held>>
  BY <1>1 DEF index, sender
<1>3. /\ Ring \in Nat /\ Ring > 0 /\ dma \in Descriptors /\ 1 \in 0 .. Ring
      /\ own \in [Descriptors -> {"dma", "cpu"}]
  BY <1>0, Numbers DEF TypeOK
<1>4. dma' \in Descriptors
  BY <1>1, <1>3, WrapFacts
<1>5. ASSUME NEW i \in Descriptors
      PROVE  /\ Off(dma, i) \in 0 .. Ring - 1 /\ (Off(dma, i) = 0 <=> i = dma)
             /\ Off(dma', i) = IF Off(dma, i) >= 1 THEN Off(dma, i) - 1 ELSE Off(dma, i) - 1 + Ring
             /\ own'[i] = "dma" <=> own[i] = "dma" /\ i # dma
  <2>1. Off(dma, i) \in 0 .. Ring - 1 /\ i = Wrap(dma + Off(dma, i)) /\ Off(dma, dma) = 0
        /\ dma = Wrap(dma + Off(dma, dma))
    BY <1>3, OffFacts
  <2>2. Off(dma', i) = IF Off(dma, i) >= 1 THEN Off(dma, i) - 1 ELSE Off(dma, i) - 1 + Ring
    BY <1>1, <1>3, OffLater
  <2>3. own'[i] = "dma" <=> own[i] = "dma" /\ i # dma
    BY <1>1, <1>3
  <2> QED
    BY <2>1, <2>2, <2>3
<1>6. TypeOK'
  BY <1>0, <1>1, <1>2, <1>4 DEF TypeOK
<1>7. SenderInv' /\ CountInv' /\ FoundInv' /\ OnceInv' /\ HeldInv'
  BY <1>0, <1>2 DEF SenderInv, CountInv, FoundInv, OnceInv, HeldInv
<1>8. OwnedInv'
  <2>1. PICK n \in 0 .. Ring : Owned(n)
    BY <1>0 DEF OwnedInv
  <2>2. n > 0
    BY <1>1, <1>3, <1>5, <2>1 DEF Owned
  <2>3. \A i \in Descriptors : own'[i] = "dma" <=> Off(dma', i) < n - 1
    <3>1. ASSUME NEW i \in Descriptors PROVE own'[i] = "dma" <=> Off(dma', i) < n - 1
      <4>1. own[i] = "dma" <=> Off(dma, i) < n
        BY <2>1 DEF Owned
      <4> QED
        BY <1>3, <1>5, <2>2, <4>1
    <3> QED
      BY <3>1
  <2>4. cur = Wrap(dma' + (n - 1))
    <3>1. cur = Wrap(dma + n)
      BY <2>1 DEF Owned
    <3> QED
      BY <1>1, <1>3, <2>2, <3>1 DEF Wrap, Descriptors
  <2>5. n - 1 \in 0 .. Ring
    BY <1>3, <2>2
  <2> QED
    BY <1>2, <2>3, <2>4, <2>5 DEF OwnedInv, Owned
<1>9. SpanInv'
  <2>1. ASSUME NEW d \in Descriptors, own'[d] = "dma"
        PROVE  /\ buf[d] # None
               /\ \E e \in Descriptors : own'[e] = "dma" /\ Off(dma', d) <= Off(dma', e) /\ pkt[e] = buf[d]
    <3>1. own[d] = "dma" /\ d # dma
      BY <1>5, <2>1
    <3>2. buf[d] # None
      BY <1>0, <3>1 DEF SpanInv
    <3>3. PICK e \in Descriptors : own[e] = "dma" /\ Off(dma, d) <= Off(dma, e) /\ pkt[e] = buf[d]
      BY <1>0, <3>1 DEF SpanInv
    <3>4. e # dma
      BY <1>3, <1>5, <3>1, <3>3
    <3>5. Off(dma', d) <= Off(dma', e) /\ own'[e] = "dma"
      BY <1>3, <1>5, <3>1, <3>3, <3>4
    <3> QED
      BY <3>2, <3>3, <3>5
  <2> QED
    BY <1>2, <2>1 DEF SpanInv
<1> QED
  BY <1>6, <1>7, <1>8, <1>9 DEF IInv

LEMMA SendStep ==
    ASSUME IInv, NEW q \in Packets, NEW n \in 1 .. Ring, low_level_output(q, n)
    PROVE  IInv'
<1>0. TypeOK /\ CountInv /\ FoundInv /\ OnceInv /\ HeldInv /\ OwnedInv /\ SpanInv
  BY DEF IInv
<1>1. /\ pc = "idle" /\ q \notin held /\ inUse + n <= MaxInUse
      /\ stack' = stack \cup {q} /\ held' = held \cup {q}
      /\ pc' = "transmit" /\ p' = q /\ chain' = n
      /\ UNCHANGED <<own, buf, pkt, dma, cur, inUse, rel, busy, link>>
  BY DEF low_level_output, ring, index
<1>2. TypeOK'
  <2>1. n \in 0 .. Ring
    BY TxAssumption
  <2> QED
    BY <1>0, <1>1, <2>1 DEF TypeOK
<1>3. SenderInv' /\ CountInv' /\ OnceInv' /\ OwnedInv' /\ SpanInv'
  BY <1>0, <1>1 DEF SenderInv, CountInv, OnceInv, OwnedInv, Owned, SpanInv
<1>4. FoundInv' /\ HeldInv'
  BY <1>0, <1>1 DEF FoundInv, HeldInv
<1> QED
  BY <1>2, <1>3, <1>4 DEF IInv

\* A call that fails gives its reference back.
LEMMA ErrorStep ==
    ASSUME IInv, TransmitError
    PROVE  IInv'
<1>0. TypeOK /\ SenderInv /\ CountInv /\ FoundInv /\ OnceInv /\ HeldInv /\ OwnedInv /\ SpanInv
  BY DEF IInv
<1>1. /\ UNCHANGED <<own, buf, pkt, dma, cur, inUse, rel, busy, link, p, chain, stack>>
      /\ pc = "transmit"
      /\ \/ pc' = "wait" /\ held' = held
         \/ pc' = "idle" /\ held' = held \ {p}
  BY DEF TransmitError, ring, index
<1>2. TypeOK'
  BY <1>0, <1>1 DEF TypeOK
<1>3. SenderInv' /\ CountInv' /\ OnceInv' /\ OwnedInv' /\ SpanInv'
  BY <1>0, <1>1 DEF SenderInv, CountInv, OnceInv, OwnedInv, Owned, SpanInv
<1>4. FoundInv' /\ HeldInv'
  BY <1>0, <1>1 DEF FoundInv, HeldInv
<1> QED
  BY <1>2, <1>3, <1>4 DEF IInv

LEMMA QuietStep ==
    ASSUME IInv, UNCHANGED <<own, buf, pkt, dma, cur, inUse, rel, p, chain, held>>,
           busy' \in BOOLEAN, link' \in {"down", "starting", "started", "up", "stopped"},
           stack' \in SUBSET Packets, pc' \in {"idle", "transmit", "wait"}, pc' = "idle" <=> pc = "idle"
    PROVE  IInv'
<1>1. TypeOK'
  BY DEF IInv, TypeOK
<1>2. SenderInv' /\ CountInv' /\ OnceInv' /\ OwnedInv' /\ SpanInv' /\ FoundInv' /\ HeldInv'
  BY DEF IInv, SenderInv, CountInv, OnceInv, OwnedInv, Owned, SpanInv, FoundInv, HeldInv
<1> QED
  BY <1>1, <1>2 DEF IInv

LEMMA InitInv == Init => IInv
<1> SUFFICES ASSUME Init PROVE IInv
  OBVIOUS
<1>1. 0 \in Descriptors /\ 0 \in 0 .. Ring /\ 0 \in 0 .. MaxInUse /\ Ring \in Nat
  BY TxAssumption DEF Descriptors
<1>2. RingTypes /\ IndexTypes /\ SenderTypes /\ HolderTypes
  BY <1>1 DEF Init, RingTypes, IndexTypes, SenderTypes, HolderTypes
<1>3. TypeOK
  BY <1>2, TypeParts
<1>4. SenderInv /\ FoundInv /\ OnceInv /\ HeldInv /\ SpanInv
  BY DEF Init, SenderInv, FoundInv, OnceInv, HeldInv, SpanInv
<1>5. CountInv
  <2>1. Off(0, 0) = 0 /\ 0 - 0 = 0
    BY <1>1, OffFacts
  <2> QED
    BY <2>1, TurnFacts DEF Init, CountInv
<1>6. Owned(0)
  <2>1. \A i \in Descriptors : ~(Off(0, i) < 0)
    BY <1>1, OffFacts
  <2>2. Wrap(0 + 0) = 0
    BY <1>1 DEF Wrap, Descriptors
  <2> QED
    BY <2>1, <2>2 DEF Init, Owned
<1> QED
  BY <1>1, <1>3, <1>4, <1>5, <1>6 DEF IInv, OwnedInv

LEMMA StepInv ==
    ASSUME IInv, [Next]_vars
    PROVE  IInv'
<1>0. TypeOK
  BY DEF IInv
<1>1. CASE DmaSends
  BY <1>1, DmaStep
<1>2. CASE ethernet_link_thread
  BY <1>0, <1>2, QuietStep DEF ethernet_link_thread, LinkMoves, ring, index, sender, TypeOK
<1>3. CASE TransmitDone
  <2>1. SenderInv'
    BY <1>3 DEF TransmitDone, SenderInv
  <2> QED
    BY <1>3, <2>1, DoneTypes, DoneCounts, DoneFinds, DoneOwns DEF IInv
<1>4. CASE TransmitBusy
  BY <1>0, <1>4, QuietStep DEF TransmitBusy, ring, index, TypeOK
<1>5. CASE TransmitError
  BY <1>5, ErrorStep
<1>6. CASE WaitForRoom
  BY <1>6, RoomStep
<1>7. ASSUME NEW q \in Packets, StackFrees(q) PROVE IInv'
  BY <1>0, <1>7, QuietStep DEF StackFrees, ring, index, sender, TypeOK
<1>8. ASSUME NEW q \in Packets, NEW n \in 1 .. Ring, low_level_output(q, n) PROVE IInv'
  BY <1>8, SendStep
<1>9. CASE UNCHANGED vars
  BY <1>0, <1>9, QuietStep DEF vars, ring, index, sender, TypeOK
<1> QED
  BY <1>1, <1>2, <1>3, <1>4, <1>5, <1>6, <1>7, <1>8, <1>9 DEF Next, Sender

-----------------------------------------------------------------------------
(***************************************************************************)
(* The ring is the queue of TxQueue                                        *)
(***************************************************************************)
LEMMA Joined ==
    ASSUME NEW S, NEW f \in Seq(S), NEW g \in Seq(S), NEW h \in Seq(S),
           Len(h) = Len(f) + Len(g),
           \A k \in 1 .. Len(f) : h[k] = f[k], \A k \in 1 .. Len(g) : h[Len(f) + k] = g[k]
    PROVE  h = f \o g
<1>1. /\ f \o g \in Seq(S) /\ Len(f \o g) = Len(f) + Len(g)
      /\ \A k \in 1 .. Len(f) + Len(g) : (f \o g)[k] = IF k <= Len(f) THEN f[k] ELSE g[k - Len(f)]
  BY ConcatProperties
<1>2. ASSUME NEW k \in 1 .. Len(h) PROVE h[k] = (f \o g)[k]
  <2>1. Len(f) \in Nat /\ Len(g) \in Nat
    OBVIOUS
  <2>2. CASE k <= Len(f)
    BY <1>1, <2>1, <2>2
  <2>3. CASE ~(k <= Len(f))
    <3>1. k - Len(f) \in 1 .. Len(g) /\ Len(f) + (k - Len(f)) = k
      BY <2>1, <2>3
    <3> QED
      BY <1>1, <2>1, <2>3, <3>1
  <2> QED
    BY <2>2, <2>3
<1> QED
  BY <1>1, <1>2, SeqEqual

\* The number of buffers the DMA owns, from its place and the next packet's.
LEMMA Between ==
    ASSUME NEW d \in Descriptors, NEW n \in 0 .. Ring, NEW c, c = Wrap(d + n), n # 0
    PROVE  n = IF c > d THEN c - d ELSE c - d + Ring
BY TxAssumption DEF Wrap, Descriptors

LEMMA Owed ==
    ASSUME TypeOK, NEW n \in 0 .. Ring, Owned(n)
    PROVE  /\ Owing = n /\ (own[dma] = "dma" <=> n # 0)
           /\ ToSend = [k \in 1 .. n |-> buf[Wrap(dma + (k - 1))]]
           /\ ToSend \in [1 .. n -> Packets \cup {None}]
<1>1. /\ Ring \in Nat /\ Ring > 0 /\ dma \in Descriptors /\ Off(dma, dma) = 0
      /\ own[dma] \in {"dma", "cpu"} /\ buf \in [Descriptors -> Packets \cup {None}]
  BY Numbers, OffFacts DEF TypeOK
<1>2. own[dma] = "dma" <=> n # 0
  BY <1>1 DEF Owned
<1>3. Owing = n
  BY <1>1, <1>2, Between DEF Owing, Owned
<1>4. \A k \in 1 .. n : Wrap(dma + (k - 1)) \in Descriptors
  <2>1. ASSUME NEW k \in 1 .. n PROVE k - 1 \in 0 .. Ring
    BY <1>1
  <2> QED
    BY <1>1, <2>1, WrapFacts
<1> QED
  BY <1>1, <1>2, <1>3, <1>4 DEF ToSend

\* What TransmitDone adds to the queue.
LEMMA DoneQueues ==
    ASSUME IInv, TransmitDone
    PROVE  Queue!Accept(p, chain)
<1>0. TypeOK /\ SenderInv /\ OwnedInv /\ FoundInv
  BY DEF IInv
<1>1. PICK n \in 0 .. Ring : Owned(n)
  BY <1>0 DEF OwnedInv
<1>2. /\ pc = "transmit" /\ \A i \in Chain : Free(i)
      /\ own' = [i \in Descriptors |-> IF i \in Chain THEN "dma" ELSE own[i]]
      /\ buf' = [i \in Descriptors |-> IF i \in Chain THEN p ELSE buf[i]]
      /\ cur' = Wrap(cur + chain) /\ pc' = "idle" /\ dma' = dma /\ p' = p /\ held' = held
  BY DEF TransmitDone
<1>3. /\ n + chain <= Ring /\ Wrap(cur + chain) = Wrap(dma + (n + chain))
      /\ \A i \in Descriptors : i \in Chain <=> n <= Off(dma, i) /\ Off(dma, i) < n + chain
  BY <1>0, <1>1, <1>2, ChainFacts
<1>4. /\ Ring \in Nat /\ dma \in Descriptors /\ chain \in 1 .. Ring /\ Off(dma, dma) = 0
      /\ p \in Packets /\ p \in held /\ own[dma] \in {"dma", "cpu"}
  BY <1>0, <1>2, Numbers, OffFacts DEF SenderInv, TypeOK
<1>5. /\ ToSend = [k \in 1 .. n |-> buf[Wrap(dma + (k - 1))]]
      /\ ToSend \in [1 .. n -> Packets \cup {None}]
      /\ own[dma] = "dma" <=> n # 0
  BY <1>0, <1>1, Owed
<1>6. Owing' = n + chain
  <2>1. n + chain \in 0 .. Ring /\ n + chain # 0
    BY <1>3, <1>4
  <2>2. own'[dma] = "dma"
    <3>1. CASE n = 0
      BY <1>2, <1>3, <1>4, <3>1
    <3>2. CASE n # 0
      BY <1>2, <1>4, <1>5, <3>2
    <3> QED
      BY <3>1, <3>2
  <2> QED
    BY <1>2, <1>3, <1>4, <2>1, <2>2, Between DEF Owing
<1>7. ASSUME NEW k \in 1 .. n + chain
      PROVE  buf'[Wrap(dma + (k - 1))] = IF k <= n THEN buf[Wrap(dma + (k - 1))] ELSE p
  <2>1. k - 1 \in 0 .. Ring /\ k - 1 < Ring
    BY <1>3, <1>4
  <2>2. Wrap(dma + (k - 1)) \in Descriptors /\ Off(dma, Wrap(dma + (k - 1))) = k - 1
    BY <1>4, <2>1, WrapFacts
  <2>3. Wrap(dma + (k - 1)) \in Chain <=> ~(k <= n)
    BY <1>3, <1>4, <2>2
  <2> QED
    BY <1>2, <2>2, <2>3
<1>8. ToSend' = ToSend \o [k \in 1 .. chain |-> p]
  <2> DEFINE more == [k \in 1 .. chain |-> p]
  <2>1. ToSend' = [k \in 1 .. n + chain |-> buf'[Wrap(dma + (k - 1))]]
    BY <1>2, <1>6 DEF ToSend
  <2>2. more \in [1 .. chain -> Packets \cup {None}] /\ \A k \in 1 .. chain : more[k] = p
    BY <1>4
  <2>3. \A k \in 1 .. n : k \in 1 .. n + chain /\ ToSend'[k] = ToSend[k]
    BY <1>4, <1>5, <1>7, <2>1
  <2>4. \A k \in 1 .. chain : n + k \in 1 .. n + chain /\ ~(n + k <= n) /\ ToSend'[n + k] = more[k]
    BY <1>4, <1>7, <2>1, <2>2
  <2>5. ToSend' \in [1 .. n + chain -> Packets \cup {None}]
    <3>1. ASSUME NEW k \in 1 .. n + chain
          PROVE  buf'[Wrap(dma + (k - 1))] \in Packets \cup {None}
      <4>1. CASE k <= n
        <5>1. k \in 1 .. n
          BY <4>1
        <5> QED
          BY <1>5, <1>7, <4>1, <5>1
      <4>2. CASE ~(k <= n)
        BY <1>4, <1>7, <4>2
      <4> QED
        BY <4>1, <4>2
    <3> QED
      BY <2>1, <3>1
  <2> DEFINE all == ToSend'
             S == Packets \cup {None}
  <2> HIDE DEF more
  <2>6. ToSend \in Seq(S) /\ Len(ToSend) = n
    BY <1>4, <1>5
  <2>7. all \in Seq(S) /\ Len(all) = n + chain
    BY <1>4, <2>5
  <2>8. more \in Seq(S) /\ Len(more) = chain
    BY <1>4, <2>2
  <2>9. \A k \in 1 .. n : all[k] = ToSend[k]
    BY <2>3
  <2>10. \A k \in 1 .. chain : all[n + k] = more[k]
    BY <2>4
  <2> HIDE DEF all, S
  <2>11. all = ToSend \o more
    BY <2>6, <2>7, <2>8, <2>9, <2>10, Joined
  <2> QED
    BY <2>11 DEF more, all
<1>9. Len(ToSend) = n
  BY <1>4, <1>5
<1> QED
  BY <1>2, <1>3, <1>4, <1>8, <1>9 DEF Queue!Accept, InHand

LEMMA DmaTakesFirst ==
    ASSUME IInv, DmaSends
    PROVE  Queue!SendFirst
<1>0. TypeOK /\ OwnedInv
  BY DEF IInv
<1>1. PICK n \in 0 .. Ring : Owned(n)
  BY <1>0 DEF OwnedInv
<1>2. /\ own[dma] = "dma" /\ own' = [own EXCEPT ![dma] = "cpu"] /\ dma' = Wrap(dma + 1)
      /\ UNCHANGED <<buf, cur, pc, p, held>>
  BY DEF DmaSends, index, sender
<1>3. /\ Ring \in Nat /\ Ring > 0 /\ dma \in Descriptors /\ own \in [Descriptors -> {"dma", "cpu"}]
      /\ cur = Wrap(dma + n)
  BY <1>0, <1>1, Numbers DEF TypeOK, Owned
<1>4. /\ ToSend = [k \in 1 .. n |-> buf[Wrap(dma + (k - 1))]]
      /\ ToSend \in [1 .. n -> Packets \cup {None}]
      /\ n # 0
  BY <1>0, <1>1, <1>2, Owed
<1>5. 1 \in 0 .. Ring /\ n - 1 \in 0 .. Ring /\ dma' \in Descriptors
  BY <1>2, <1>3, <1>4, WrapFacts
<1>6. \A k \in 0 .. Ring - 1 : Wrap(dma' + k) = Wrap(dma + (k + 1))
  BY <1>2, <1>3, <1>5, WrapTwice
<1>7. Owing' = n - 1
  <2>1. cur = Wrap(dma' + (n - 1))
    <3>1. n - 1 \in 0 .. Ring - 1 /\ (n - 1) + 1 = n
      BY <1>3, <1>4, <1>5
    <3> QED
      BY <1>3, <1>6, <3>1
  <2>2. own'[dma'] = "dma" <=> n - 1 # 0
    <3>1. Off(dma, dma') = IF 1 < Ring THEN 1 ELSE 0
      BY <1>2, <1>3, <1>5, OffFurther, OffFacts
    <3>2. own[dma'] = "dma" <=> Off(dma, dma') < n
      BY <1>1, <1>5 DEF Owned
    <3>3. dma' = dma <=> Ring = 1
      BY <1>2, <1>3 DEF Wrap, Descriptors
    <3> QED
      BY <1>2, <1>3, <1>4, <1>5, <3>1, <3>2, <3>3
  <2>3. own'[dma'] \in {"dma", "cpu"}
    BY <1>2, <1>3, <1>5
  <2> QED
    BY <1>2, <1>5, <2>1, <2>2, <2>3, Between DEF Owing
<1>8. ToSend' = [k \in 1 .. n - 1 |-> buf[Wrap(dma' + (k - 1))]]
  BY <1>2, <1>7 DEF ToSend
<1>9. \A k \in 1 .. n - 1 :
         ToSend'[k] = ToSend[k + 1] /\ ToSend'[k] \in Packets \cup {None} /\ k + 1 \in 1 .. n
  <2>1. ASSUME NEW k \in 1 .. n - 1
        PROVE  k - 1 \in 0 .. Ring - 1 /\ k + 1 \in 1 .. n /\ (k - 1) + 1 = (k + 1) - 1
    BY <1>3, <1>5
  <2> QED
    BY <1>4, <1>6, <1>8, <2>1
<1>10. ToSend' \in [1 .. n - 1 -> Packets \cup {None}]
  BY <1>8, <1>9
<1>11. ToSend # <<>> /\ ToSend' = Tail(ToSend)
  <2> DEFINE f == ToSend
             h == ToSend'
  <2>1. f \in [1 .. n -> Packets \cup {None}] /\ h \in [1 .. n - 1 -> Packets \cup {None}]
        /\ n \in Nat /\ n > 0 /\ \A k \in 1 .. n - 1 : h[k] = f[k + 1]
    BY <1>3, <1>4, <1>9, <1>10
  <2> HIDE DEF f, h
  <2>2. f # <<>> /\ h = Tail(f)
    BY <2>1
  <2> QED
    BY <2>2 DEF f, h
<1> QED
  BY <1>2, <1>11 DEF Queue!SendFirst, InHand

\* What HAL_ETH_ReleaseTxPacket releases has left the queue.
LEMMA RoomGivesBack ==
    ASSUME IInv, WaitForRoom
    PROVE  \E Sent \in SUBSET Packets : Queue!GiveBack(Sent)
<1>0. TypeOK /\ SenderInv /\ OwnedInv /\ FoundInv /\ OnceInv /\ SpanInv
  BY DEF IInv
<1>1. PICK n \in 0 .. Ring : Owned(n)
  BY <1>0 DEF OwnedInv
<1>2. /\ pc = "wait" /\ pc' = "transmit" /\ UNCHANGED <<own, buf, dma, cur, p>>
      /\ HAL_ETH_ReleaseTxPacket
      /\ held' = held \ {pkt[i] : i \in ReleasedAt}
  BY DEF WaitForRoom, HAL_ETH_ReleaseTxPacket
<1> DEFINE Sent == {pkt[i] : i \in ReleasedAt}
<1>3. \A i \in ReleasedAt : i \in Descriptors /\ pkt[i] # None /\ own[i] = "cpu"
  BY <1>0, <1>2, ReleaseFacts
<1>4. Sent \in SUBSET Packets /\ Sent \subseteq held \ InHand
  BY <1>0, <1>2, <1>3 DEF TypeOK, FoundInv, InHand
<1>5. ToSend = [k \in 1 .. n |-> buf[Wrap(dma + (k - 1))]] /\ Len(ToSend) = n
  <2>1. n \in Nat
    BY TxAssumption
  <2> QED
    BY <1>0, <1>1, <2>1, Owed
<1>6. ASSUME NEW k \in 1 .. n PROVE ToSend[k] \notin Sent
  <2> DEFINE d == Wrap(dma + (k - 1))
  <2>1. k - 1 \in 0 .. Ring /\ k - 1 < n /\ k - 1 < Ring /\ dma \in Descriptors
    BY <1>0, Numbers
  <2>2. d \in Descriptors /\ Off(dma, d) = k - 1
    BY <2>1, WrapFacts
  <2>3. own[d] = "dma" /\ ToSend[k] = buf[d]
    BY <1>1, <1>5, <2>1, <2>2 DEF Owned
  <2> HIDE DEF d
  <2>4. PICK e \in Descriptors : own[e] = "dma" /\ pkt[e] = buf[d] /\ buf[d] # None
    BY <1>0, <2>2, <2>3 DEF SpanInv
  <2>5. \A i \in ReleasedAt : pkt[i] # pkt[e]
    BY <1>0, <1>3, <2>4 DEF OnceInv
  <2> QED
    BY <2>3, <2>4, <2>5
<1>7. ToSend' = ToSend /\ InHand' = InHand
  BY <1>2 DEF ToSend, Owing, InHand
<1>8. (held \ InHand)' = (held \ InHand) \ Sent
  BY <1>2, <1>7
<1>9. Queue!GiveBack(Sent)
  BY <1>4, <1>5, <1>6, <1>7, <1>8 DEF Queue!GiveBack
<1> QED
  BY <1>4, <1>9

LEMMA QueueStep ==
    ASSUME IInv, [Next]_vars
    PROVE  [Queue!Next]_Queue!queueVars
<1> USE DEF Queue!queueVars
<1>0. TypeOK /\ SenderInv
  BY DEF IInv
<1>1. ASSUME UNCHANGED <<own, buf, cur, dma>> PROVE ToSend' = ToSend
  BY <1>1 DEF ToSend, Owing
<1>2. CASE DmaSends
  BY <1>2, DmaTakesFirst DEF Queue!Next
<1>3. CASE ethernet_link_thread
  BY <1>1, <1>3 DEF ethernet_link_thread, LinkMoves, ring, index, sender, InHand
<1>4. CASE TransmitDone
  <2>1. p \in Packets /\ chain \in 1 .. Ring
    BY <1>0, <1>4 DEF SenderInv, TransmitDone
  <2> QED
    BY <1>4, <2>1, DoneQueues DEF Queue!Next
<1>5. CASE TransmitBusy
  BY <1>1, <1>5 DEF TransmitBusy, ring, index, InHand
<1>6. CASE TransmitError
  <2>1. UNCHANGED <<own, buf, cur, dma, p>> /\ pc = "transmit"
    BY <1>6 DEF TransmitError, ring, index
  <2>2. CASE pc' = "wait" /\ held' = held
    BY <1>1, <2>1, <2>2 DEF InHand
  <2>3. CASE pc' = "idle" /\ held' = held \ {p}
    <3>1. InHand = {p} /\ InHand' = {} /\ (held \ InHand)' = held \ InHand
      BY <2>1, <2>3 DEF InHand
    <3> QED
      BY <1>1, <2>1, <3>1 DEF Queue!Next, Queue!Refuse
  <2> QED
    BY <1>6, <2>2, <2>3 DEF TransmitError
<1>7. CASE WaitForRoom
  BY <1>7, RoomGivesBack DEF Queue!Next
<1>8. ASSUME NEW q \in Packets, StackFrees(q) PROVE [Queue!Next]_Queue!queueVars
  BY <1>1, <1>8 DEF StackFrees, ring, index, sender, InHand
<1>9. ASSUME NEW q \in Packets, NEW n \in 1 .. Ring, low_level_output(q, n)
      PROVE  [Queue!Next]_Queue!queueVars
  <2>1. /\ pc = "idle" /\ q \notin held /\ held' = held \cup {q} /\ pc' = "transmit" /\ p' = q
        /\ UNCHANGED <<own, buf, cur, dma>>
    BY <1>9 DEF low_level_output, ring, index
  <2>2. InHand = {} /\ InHand' = {q} /\ (held \ InHand)' = held \ InHand
    BY <2>1 DEF InHand
  <2>3. Queue!Pass(q)
    BY <1>1, <2>1, <2>2 DEF Queue!Pass
  <2> QED
    BY <2>3 DEF Queue!Next
<1>10. CASE UNCHANGED vars
  BY <1>1, <1>10 DEF vars, ring, index, sender, InHand
<1> QED
  BY <1>2, <1>3, <1>4, <1>5, <1>6, <1>7, <1>8, <1>9, <1>10 DEF Next, Sender

-----------------------------------------------------------------------------
(***************************************************************************)
(* The theorems                                                            *)
(***************************************************************************)
LEMMA FoundHolds ==
    ASSUME IInv
    PROVE  ReferencesFound
<1>1. TypeOK /\ FoundInv /\ OnceInv /\ HeldInv
  BY DEF IInv
<1>2. ASSUME NEW i \in Descriptors, pkt[i] # None
      PROVE  \E j \in 0 .. Ring - 1 : j < inUse /\ i = Wrap(rel + j)
  <2>1. Off(rel, i) \in 0 .. Ring - 1 /\ i = Wrap(rel + Off(rel, i))
    BY <1>1, Numbers, OffFacts
  <2>2. Off(rel, i) < inUse
    BY <1>1, <1>2 DEF FoundInv
  <2> QED
    BY <2>1, <2>2
<1> QED
  BY <1>1, <1>2 DEF ReferencesFound, FoundInv, OnceInv, HeldInv

LEMMA EarlyHolds ==
    ASSUME IInv
    PROVE  NoEarlyFree
<1> SUFFICES ASSUME NEW i \in Descriptors, own[i] = "dma" PROVE buf[i] \in held
  BY DEF NoEarlyFree
<1>1. buf[i] # None
  BY DEF IInv, SpanInv
<1>2. PICK e \in Descriptors : pkt[e] = buf[i]
  BY DEF IInv, SpanInv
<1> QED
  BY <1>1, <1>2 DEF IInv, FoundInv

LEMMA OrderHolds ==
    ASSUME IInv
    PROVE  SentInOrder
<1>1. TypeOK /\ OwnedInv
  BY DEF IInv
<1>2. PICK n \in 0 .. Ring : Owned(n)
  BY <1>1 DEF OwnedInv
<1>3. ASSUME NEW j \in 0 .. Ring - 1
      PROVE  own[Wrap(dma + j)] = "dma" <=> j < n
  <2>1. j \in 0 .. Ring /\ j < Ring /\ dma \in Descriptors
    BY <1>1, Numbers
  <2>2. Wrap(dma + j) \in Descriptors /\ Off(dma, Wrap(dma + j)) = j
    BY <2>1, WrapFacts
  <2> QED
    BY <1>2, <2>2 DEF Owned
<1> QED
  BY <1>2, <1>3 DEF Owned, SentInOrder

LEMMA InvHolds == Spec => []IInv
<1>1. Init => IInv
  BY InitInv
<1>2. IInv /\ [Next]_vars => IInv'
  BY StepInv
<1> QED
  BY <1>1, <1>2, PTL DEF Spec

\* Every variable of EthTx keeps its type; BuffersInUse stays within the bound.
THEOREM EthTxTypes == Spec => []TypeOK
<1>1. IInv => TypeOK
  BY DEF IInv
<1> QED
  BY <1>1, InvHolds, PTL

\* Every reference of the driver is at one descriptor within BuffersInUse of
\* releaseIndex, however far BuffersInUse has drifted: none is lost or freed twice.
THEOREM ReferencesStayFound == Spec => []ReferencesFound
<1>1. IInv => ReferencesFound
  BY FoundHolds
<1> QED
  BY <1>1, InvHolds, PTL

\* HAL_ETH_ReleaseTxPacket frees no packet that the DMA still reads.
THEOREM NothingIsFreedEarly == Spec => []NoEarlyFree
<1>1. IInv => NoEarlyFree
  BY EarlyHolds
<1> QED
  BY <1>1, InvHolds, PTL

\* The DMA and CurTxDesc stay in step, across stops and starts of the MAC.
THEOREM PacketsStayInOrder == Spec => []SentInOrder
<1>1. IInv => SentInOrder
  BY OrderHolds
<1> QED
  BY <1>1, InvHolds, PTL

\* The ring, its indices and its references implement TxQueue: packets leave whole, once
\* and in the order in which low_level_output was given them, and are given back only
\* when all their buffers have been sent.
THEOREM RingIsAQueue == Spec => ImplementsTxQueue
<1>1. Init => Queue!Init
  <2> SUFFICES ASSUME Init PROVE Queue!Init
    OBVIOUS
  <2>1. Owing = 0
    BY TxAssumption DEF Init, Owing, Descriptors
  <2> QED
    BY <2>1 DEF Init, Queue!Init, ToSend, InHand
<1>2. IInv /\ [Next]_vars => [Queue!Next]_Queue!queueVars
  BY QueueStep
<1> QED
  BY <1>1, <1>2, InvHolds, PTL DEF Spec, ImplementsTxQueue, Queue!Spec

\* With nothing left to send, the release comes past every descriptor that BuffersInUse
\* counts, and FoundInv puts every packet within that count.
THEOREM SentRingIsEmptied == Spec => RoomIsMade
<1>1. IInv /\ [Next]_vars =>
        [WaitForRoom /\ (\A i \in Descriptors : own[i] = "cpu") =>
             \A i \in Descriptors : pkt'[i] = None]_vars
  <2> SUFFICES ASSUME IInv, WaitForRoom, \A i \in Descriptors : own[i] = "cpu",
                      NEW i \in Descriptors
               PROVE  pkt'[i] = None
    OBVIOUS
  <2>1. /\ Ring \in Nat /\ rel \in Descriptors
        /\ Off(rel, i) \in 0 .. Ring - 1 /\ i = Wrap(rel + Off(rel, i))
    BY Numbers, OffFacts DEF IInv
  <2>2. pkt'[i] = IF i \in ReleasedAt THEN None ELSE pkt[i]
    BY DEF WaitForRoom, HAL_ETH_ReleaseTxPacket
  <2>3. ASSUME pkt[i] # None PROVE i \in ReleasedAt
    <3>1. Off(rel, i) < inUse
      BY <2>3 DEF IInv, FoundInv
    <3>2. ASSUME NEW k \in 0 .. Off(rel, i) PROVE Passed(k)
      <4>1. k \in 0 .. Ring
        BY <2>1
      <4> QED
        BY <2>1, <4>1, WrapFacts DEF Passed
    <3> QED
      BY <2>1, <2>3, <3>1, <3>2 DEF ReleasedAt, Released, Reached
  <2> QED
    BY <2>2, <2>3
<1> QED
  BY <1>1, InvHolds, PTL DEF Spec, RoomIsMade
=============================================================================
